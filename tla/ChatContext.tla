---------------------------- MODULE ChatContext ----------------------------
(***************************************************************************)
(* What a chat request shows to the model beside the tables: earlier       *)
(* questions of its conversation and terms of its project.  Both are found *)
(* by their vectors, which background tasks store some time after the rows *)
(* and nothing deletes with a conversation, and are then read by their     *)
(* row ids.  Each conversation stands for a project of its own.            *)
(***************************************************************************)
EXTENDS Naturals, FiniteSets, Sequences

CONSTANTS
    Talks,        \* conversations
    Askers,       \* slots for requests
    Terms,        \* rows of domain_knowledge, each added once
    NoTalk,       \* no conversation
    MaxMessages   \* bound on rows of message

ASSUME MaxMessagesAssumption == MaxMessages \in Nat
ASSUME NoTalkAssumption == NoTalk \notin Talks

VARIABLES
    talks,       \* conversations that are there
    message,     \* message: the rows in the order of their ids
    toIndex,     \* messages whose index task has not ended
    indexed,     \* messages with a vector msg_<id>
    owner,       \* the project of each term, or NoTalk before it is added
    dropped,     \* terms whose rows were deleted
    explained,   \* terms with a vector knowledge_<id>
    asker        \* requests of process_chat

contextVars == <<talks, message, toIndex, indexed, owner, dropped, explained,
                 asker>>

Row == [talk : Talks, role : {"user", "assistant"}]
AskerSteps == {"idle", "embed", "history", "terms", "rows", "meanings", "recent", "save", "ask"}

Asker == [at : AskerSteps,
          talk : Talks \cup {NoTalk},
          hits : SUBSET (1..MaxMessages),     \* message ids from the vectors
          near : SUBSET Terms,                \* term ids from the vectors
          history : SUBSET (1..MaxMessages),  \* rows read
          terms : SUBSET Terms,               \* rows read
          question : 0..MaxMessages]          \* its own message

NotAsking == [at |-> "idle", talk |-> NoTalk, hits |-> {}, near |-> {},
              history |-> {}, terms |-> {}, question |-> 0]

ContextTypeOK ==
    /\ talks \in SUBSET Talks
    /\ message \in Seq(Row)
    /\ Len(message) <= MaxMessages
    /\ toIndex \in SUBSET (1..Len(message))
    /\ indexed \in SUBSET (1..Len(message))
    /\ owner \in [Terms -> Talks \cup {NoTalk}]
    /\ dropped \in SUBSET Terms
    /\ explained \in SUBSET Terms
    /\ asker \in [Askers -> Asker]

ContextInit ==
    /\ talks = Talks
    /\ message = <<>>
    /\ toIndex = {}
    /\ indexed = {}
    /\ owner = [k \in Terms |-> NoTalk]
    /\ dropped = {}
    /\ explained = {}
    /\ asker = [a \in Askers |-> NotAsking]

-----------------------------------------------------------------------------
\* Rows go with their conversation (ON DELETE CASCADE), and terms with their
\* project.
There(i) == message[i].talk \in talks

ProjectTerms(c) == {k \in Terms \ dropped : owner[k] = c /\ c \in talks}

Become(a, changes) == asker' = [asker EXCEPT ![a] = changes]

rowVars == <<talks, message, toIndex, indexed, owner, dropped, explained>>

\* The conversation is found and its owner is the user.
AskStarts(a) ==
    /\ asker[a] = NotAsking
    /\ Len(message) < MaxMessages
    /\ \E c \in talks : Become(a, [NotAsking EXCEPT !.at = "embed", !.talk = c])
    /\ UNCHANGED rowVars

\* embed_text, the one call whose failure leaves retrieve_context.
EmbedQuestion(a) ==
    /\ asker[a].at = "embed"
    /\ \E next \in {"history", "recent"} : Become(a, [asker[a] EXCEPT !.at = next])
    /\ UNCHANGED rowVars

\* Mutant: the collection is searched without `where`.
HitsAnywhere(c) == indexed

\* where={"session_id": session_id}
HitsOf(c) == {i \in indexed : message[i].talk = c}

\* The vectors near the question, and near enough; none if the search fails.
SearchHistory(a) ==
    /\ asker[a].at = "history"
    /\ \E hits \in SUBSET HitsOf(asker[a].talk) :
          Become(a, [asker[a] EXCEPT !.at = "terms", !.hits = hits])
    /\ UNCHANGED rowVars

\* where={"project_id": project_id}
NearTerms(c) == {k \in explained : owner[k] = c}

SearchTerms(a) ==
    /\ asker[a].at = "terms"
    /\ \E near \in SUBSET NearTerms(asker[a].talk) :
          Become(a, [asker[a] EXCEPT !.at = "rows", !.near = near])
    /\ UNCHANGED rowVars

\* The rows of the messages found that are still there.
ReadMessages(a) ==
    /\ asker[a].at = "rows"
    /\ Become(a, [asker[a] EXCEPT !.at = "meanings",
                                  !.history = {i \in asker[a].hits : There(i)},
                                  !.hits = {}])
    /\ UNCHANGED rowVars

\* The rows of the terms found that are still there.
ReadTerms(a) ==
    /\ asker[a].at = "meanings"
    /\ Become(a, [asker[a] EXCEPT !.at = "save",
                                  !.terms = asker[a].near \cap UNION {ProjectTerms(c) : c \in Talks},
                                  !.near = {}])
    /\ UNCHANGED rowVars

\* Without an embedding: the last messages of the conversation (20, more than
\* MaxMessages), and all terms of the project.
ReadRecent(a) ==
    LET c == asker[a].talk IN
    /\ asker[a].at = "recent"
    /\ Become(a, [asker[a] EXCEPT
           !.at = "save",
           !.history = {i \in 1..Len(message) : message[i].talk = c /\ There(i)},
           !.terms = ProjectTerms(c)])
    /\ UNCHANGED rowVars

\* The row is committed and its index task created; it cannot be added to a
\* conversation that was deleted.
SaveQuestion(a) ==
    LET c == asker[a].talk
        id == Len(message) + 1
    IN
    /\ asker[a].at = "save"
    /\ id <= MaxMessages
    /\ IF c \notin talks
       THEN Become(a, NotAsking) /\ UNCHANGED <<message, toIndex>>
       ELSE /\ message' = Append(message, [talk |-> c, role |-> "user"])
            /\ toIndex' = toIndex \cup {id}
            /\ Become(a, [asker[a] EXCEPT !.at = "ask", !.question = id])
    /\ UNCHANGED <<talks, indexed, owner, dropped, explained>>

\* build_history_section keeps the messages of the user.
Shown(a) == {i \in asker[a].history : message[i].role = "user"}

\* The model answered what the prompt asked.  The reply is saved, unless the
\* conversation is gone, and indexed if it reports a failed statement.
SaveReply(a) ==
    LET id == Len(message) + 1 IN
    /\ asker[a].at = "ask"
    /\ Become(a, NotAsking)
    /\ \/ /\ asker[a].talk \notin talks
          /\ UNCHANGED <<message, toIndex>>
       \/ /\ asker[a].talk \in talks
          /\ id <= MaxMessages
          /\ message' = Append(message, [talk |-> asker[a].talk, role |-> "assistant"])
          /\ toIndex' \in {toIndex, toIndex \cup {id}}
    /\ UNCHANGED <<talks, indexed, owner, dropped, explained>>

-----------------------------------------------------------------------------
\* index_new_message, at any time later, whether the row is still there or not.
IndexMessage(i) ==
    /\ i \in toIndex
    /\ toIndex' = toIndex \ {i}
    /\ indexed' = indexed \cup {i}
    /\ UNCHANGED <<talks, message, owner, dropped, explained, asker>>

\* Its embedding fails, or the process ends.
IndexMessageFails(i) ==
    /\ i \in toIndex
    /\ toIndex' = toIndex \ {i}
    /\ UNCHANGED <<talks, message, indexed, owner, dropped, explained, asker>>

\* delete_session and the deletion of the project: the vectors stay.
DeleteTalk(c) ==
    /\ c \in talks
    /\ talks' = talks \ {c}
    /\ UNCHANGED <<message, toIndex, indexed, owner, dropped, explained, asker>>

AddTerm(k, c) ==
    /\ owner[k] = NoTalk
    /\ c \in talks
    /\ owner' = [owner EXCEPT ![k] = c]
    /\ UNCHANGED <<talks, message, toIndex, indexed, dropped, explained, asker>>

\* The row's task stores its vector; nothing says when (KnowledgeIndex).
IndexTerm(k) ==
    /\ owner[k] # NoTalk
    /\ k \notin explained
    /\ explained' = explained \cup {k}
    /\ UNCHANGED <<talks, message, toIndex, indexed, owner, dropped, asker>>

\* The row is deleted; its vector goes later, if at all.
DropTerm(k) ==
    /\ owner[k] # NoTalk
    /\ k \notin dropped
    /\ dropped' = dropped \cup {k}
    /\ UNCHANGED <<talks, message, toIndex, indexed, owner, explained, asker>>

ForgetTerm(k) ==
    /\ k \in dropped \cap explained
    /\ explained' = explained \ {k}
    /\ UNCHANGED <<talks, message, toIndex, indexed, owner, dropped, asker>>

ContextNext ==
    \/ \E a \in Askers :
          \/ AskStarts(a) \/ EmbedQuestion(a) \/ SearchHistory(a) \/ SearchTerms(a)
          \/ ReadMessages(a) \/ ReadTerms(a) \/ ReadRecent(a)
          \/ SaveQuestion(a) \/ SaveReply(a)
    \/ \E i \in 1..Len(message) : IndexMessage(i) \/ IndexMessageFails(i)
    \/ \E c \in Talks : DeleteTalk(c)
    \/ \E k \in Terms : IndexTerm(k) \/ DropTerm(k) \/ ForgetTerm(k) \/ \E c \in Talks : AddTerm(k, c)

ContextSpec == ContextInit /\ [][ContextNext]_contextVars

-----------------------------------------------------------------------------
\* The prompt quotes questions that were asked before in the same conversation,
\* never its own question, a reply, or a question of another conversation, and
\* it explains terms of its own project.
ContextIsOwn ==
    \A a \in Askers : asker[a].at = "ask" =>
        /\ \A i \in Shown(a) :
              /\ message[i] = [talk |-> asker[a].talk, role |-> "user"]
              /\ i < asker[a].question
        /\ \A k \in asker[a].terms : owner[k] = asker[a].talk
=============================================================================
