---------------------------- MODULE ReplayCache ----------------------------
(***************************************************************************)
(* The replay cache of secure_design.c: a ring of the tuples (requester    *)
(* nonce, target nonce, group, operation) accepted last.  It lives in RAM: *)
(* a reset empties it.                                                     *)
(***************************************************************************)
EXTENDS Naturals

CONSTANTS
    RingSize,  \* SECURE_UART_REPLAY_CACHE_SIZE
    NoTuple    \* an entry that is not valid

ASSUME RingAssumption == RingSize \in Nat \ {0}

EmptyRing == [entries |-> [i \in 0 .. RingSize - 1 |-> NoTuple], next |-> 0]

Rings(Tuples) == [entries : [0 .. RingSize - 1 -> Tuples \cup {NoTuple}],
                  next : 0 .. RingSize - 1]

Seen(ring, t) == \E i \in 0 .. RingSize - 1 : ring.entries[i] = t

(* Mutations: the index is not brought back to the start; it stays where   *)
(* it is.                                                                  *)
InsertUnwrapped(ring, t) ==
    [entries |-> [ring.entries EXCEPT ![ring.next] = t], next |-> ring.next + 1]

InsertInPlace(ring, t) ==
    [entries |-> [ring.entries EXCEPT ![ring.next] = t], next |-> ring.next]

Insert(ring, t) ==
    [entries |-> [ring.entries EXCEPT ![ring.next] = t],
     next |-> IF ring.next + 1 = RingSize THEN 0 ELSE ring.next + 1]
=============================================================================
