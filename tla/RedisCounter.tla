---------------------------- MODULE RedisCounter ----------------------------
(***************************************************************************)
(* A Redis key that counts: INCR creates it without an expiry and EXPIRE,  *)
(* a command of its own, gives it one.  A key that is absent reads as 0.   *)
(***************************************************************************)
EXTENDS Naturals

Counter(max) == [value : 0..max, expires : BOOLEAN]

Zero == [value |-> 0, expires |-> FALSE]

\* INCR; past the limit the value tells no more.
Incr(counter, max) ==
    [counter EXCEPT !.value = IF @ < max THEN @ + 1 ELSE @]

\* Mutant: EXPIRE is sent when the key was there already.
CreatesOffByOne(counter) == counter.value = 1

\* The increment that returns 1 has created the key, and EXPIRE follows it.
Creates(counter) == counter.value = 0

\* EXPIRE on a key that is gone does nothing.
Armed(counter) == [counter EXCEPT !.expires = (counter.value > 0)]
=============================================================================
