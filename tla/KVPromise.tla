------------------------------ MODULE KVPromise ------------------------------
(***************************************************************************)
(* What the key-value store of hw6 promises to a client: a get answers the *)
(* value of the last store of that key that was answered with success, or  *)
(* of a later one of a key that a worker takes for the same.  Without such *)
(* keys every table[k] has one member, and the store is a map.             *)
(***************************************************************************)
CONSTANTS Clients, Keys, Values, NoValue,
          Aliases   \* <<j, k>>: what is stored under j may be found under k

VARIABLES table,    \* key |-> what a get of it may answer, NoValue for nothing
          answer    \* client |-> the key and value of its last get

Init ==
  /\ table = [k \in Keys |-> {NoValue}]
  /\ answer \in [Clients -> [key : Keys, value : {NoValue}]]

Store(k, v) ==
  /\ table' = [j \in Keys |->
                 CASE j = k                         -> {v}
                   [] j # k /\ <<k, j>> \in Aliases -> table[j] \cup {v}
                   [] OTHER                         -> table[j]]
  /\ UNCHANGED answer

Get(c, k) ==
  /\ \E v \in table[k] : answer' = [answer EXCEPT ![c] = [key |-> k, value |-> v]]
  /\ UNCHANGED table

Next == \E k \in Keys : \/ \E v \in Values : Store(k, v)
                        \/ \E c \in Clients : Get(c, k)

Spec == Init /\ [][Next]_<<table, answer>>
==============================================================================
