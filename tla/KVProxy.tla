------------------------------- MODULE KVProxy -------------------------------
(***************************************************************************)
(* The key-value store of hw6: a proxy that places every key on one of its *)
(* workers and forwards the requests for it over HTTP.                     *)
(*                                                                         *)
(* Every request runs in a goroutine of its own and no lock protects the   *)
(* proxy's map m and slice Workers, so a request is cut at every access to *)
(* them.  A slice is a backing array and a length: append writes into the  *)
(* array while it has room, and moves to a new one when it is full.  A     *)
(* store keeps a pointer to a cell of the array it found and reads it      *)
(* again and again, whatever the slice or the cell has become since.       *)
(* The proxy decodes a key and writes it into the worker's URL as it is: a *)
(* worker reads another key there if '?', '#', '%' or a slash is in it.    *)
(* Connections to the workers in Failing may break before or after the     *)
(* request was carried out, and these workers may restart with no data.    *)
(***************************************************************************)
EXTENDS Integers, SequencesExt

CONSTANTS
  Clients,     \* each has one request under way at most
  Keys,
  Values,      \* a value is its length in bytes: what Rem is charged
  Locs,        \* the addresses of the workers
  StoredAs,    \* key |-> the key that a worker reads in the URL of its POST
  SoughtAs,    \* key |-> the key that a worker reads in the URL of its GET
  NoRoute,     \* ... if the worker has no handler for the URL
  NoURL,       \* ... if the URL does not parse
  NoLoc,       \* the empty address of a worker that did not decode
  NoValue,     \* the answer to a get that finds nothing
  Ram,         \* Rem of a worker when it is added
  Failing,     \* the workers that may fail
  Malformed,   \* whether clients send workers that do not decode
  Requests     \* bound: requests each client makes

\* There are finitely many addresses: an address is a host and a port.  The two
\* URLs of a key end in the same way, so they mean the same key to a worker; but
\* a path with an empty or a dot element is redirected, and only a GET survives
\* that (the client follows with a GET, which /store does not take).
ASSUME ConstantsAssumption ==
  /\ SoughtAs \in [Keys -> Keys \cup {NoRoute, NoURL}]
  /\ StoredAs \in [Keys -> Keys \cup {NoRoute, NoURL}]
  /\ \A k \in Keys : StoredAs[k] \in {SoughtAs[k], NoRoute}
  /\ NoRoute \notin Keys /\ NoURL \notin Keys /\ NoRoute # NoURL
  /\ IsFiniteSet(Locs)
  /\ Values \subseteq Nat /\ Ram \in Nat /\ Requests \in Nat
  /\ NoLoc \notin Locs /\ NoValue \notin Values
  /\ Failing \subseteq Locs /\ Malformed \in BOOLEAN

VARIABLES
  Workers,   \* the slice of workers: [array, len]
  arrays,    \* the backing arrays so far: [cells, capacity], cells of [Loc, Rem]
  m,         \* key |-> address of the worker that has it
  stored,    \* worker |-> its own map m, key |-> value
  pc,        \* where each client's request is
  req,       \* what the request has read so far
  left,      \* requests each client has left
  latest,    \* key |-> the answers that the stores answered with success permit
  sent,      \* pairs <<key, value>> that some store has carried
  charged,   \* worker |-> bytes of the stores answered with success
  answer,    \* the answer to each client's last get
  overwritten \* an append has written over the worker of another one

proxy   == <<Workers, arrays, m>>
request == <<pc, req, left>>
history == <<latest, sent, charged, answer, overwritten>>
vars == <<proxy, stored, request, history>>

\* A request that carries nothing yet.
NoReq == [key |-> NoValue, value |-> 0, loc |-> NoLoc, array |-> 0, len |-> 0,
          index |-> 0, Rem |-> 0, known |-> FALSE]

Go(c, from, to) == pc[c] = from /\ pc' = [pc EXCEPT ![c] = to]

\* A request arrives at the proxy with what the client sent, r.
Arrives(c, to, r) ==
  /\ Go(c, "idle", to)
  /\ left[c] > 0 /\ left' = [left EXCEPT ![c] = @ - 1]
  /\ req' = [req EXCEPT ![c] = r]

\* The handler returns.
Return(c) == pc' = [pc EXCEPT ![c] = "idle"] /\ req' = [req EXCEPT ![c] = NoReq]

\* Connections to Failing workers break, nobody answers at no address, and no
\* request is made to a URL that does not parse.
MayFail(c, known) ==
  req[c].loc \in Failing \cup {NoLoc} \/ known[req[c].key] = NoURL

\* What is stored under key j is found under key k.
Same(j, k) == StoredAs[j] = SoughtAs[k]

\* A map with one key set.
With(f, k, v) == [x \in DOMAIN f \cup {k} |-> IF x = k THEN v ELSE f[x]]

------------------------------------------------------------------------------
(* AddWorker *)

\* append reads the slice.
AddWorker(c, loc) ==
  /\ Arrives(c, "a_append", [NoReq EXCEPT !.loc = loc, !.array = Workers.array,
                               !.len = Workers.len])
  /\ loc = NoLoc => Malformed
  /\ UNCHANGED <<proxy, stored, history>>

\* A worker that did not decode is answered with false, and added all the same.
NewWorker(c) == [Loc |-> req[c].loc, Rem |-> IF req[c].loc = NoLoc THEN 0 ELSE Ram]

\* Cell i of an array is written, for the first time or again.
Written(cells, i, w) ==
  [j \in 1 .. (IF i <= Len(cells) THEN Len(cells) ELSE i) |->
     IF j = i THEN w ELSE cells[j]]

\* The array has room: append writes behind the end of the slice that it read,
\* where another append may have written since.
AppendInPlace(c) ==
  LET a == req[c].array
      n == req[c].len + 1
  IN /\ pc[c] = "a_append" /\ Return(c)
     /\ n <= arrays[a].capacity
     /\ arrays' = [arrays EXCEPT ![a].cells = Written(@, n, NewWorker(c))]
     /\ Workers' = [array |-> a, len |-> n]
     /\ overwritten' = (overwritten \/ n <= Len(arrays[a].cells))
     /\ UNCHANGED <<m, stored, left, latest, sent, charged, answer>>

\* The array is full: append copies it to one of twice the capacity.
AppendToNewArray(c) ==
  LET a == req[c].array
      n == req[c].len
  IN /\ pc[c] = "a_append" /\ Return(c)
     /\ n = arrays[a].capacity
     /\ arrays' = Append(arrays, [cells    |-> Append(arrays[a].cells, NewWorker(c)),
                                  capacity |-> IF n = 0 THEN 1 ELSE 2 * n])
     /\ Workers' = [array |-> Len(arrays) + 1, len |-> n + 1]
     /\ UNCHANGED <<m, stored, left, history>>

------------------------------------------------------------------------------
(* StoreValue *)

StoreValue(c, k, v) ==
  /\ Arrives(c, "s_select", [NoReq EXCEPT !.key = k, !.value = v])
  /\ sent' = sent \cup {<<k, v>>}
  /\ UNCHANGED <<proxy, stored, latest, charged, answer, overwritten>>

\* The workers of the slice.
Cells == arrays[Workers.array].cells
Indices == 1 .. Workers.len

\* MostLeisureWorker: the last of the workers with the most Rem, among those
\* that have -1 at least.
IsMostLeisure(i) ==
  /\ i \in Indices /\ Cells[i].Rem >= -1
  /\ \A j \in Indices : /\ Cells[j].Rem <= Cells[i].Rem
                        /\ j > i => Cells[j].Rem < Cells[i].Rem

MostLeisureWorker(c) ==
  /\ Go(c, "s_select", "s_point")
  /\ \E i \in Indices : IsMostLeisure(i) /\ req' = [req EXCEPT ![c].index = i]
  /\ UNCHANGED <<proxy, stored, left, history>>

\* The pointer is taken to that place of the slice as it is by now.
SelectWorker(c) ==
  /\ Go(c, "s_point", "s_record")
  /\ req[c].index \in Indices
  /\ req' = [req EXCEPT ![c].array = Workers.array]
  /\ UNCHANGED <<proxy, stored, left, history>>

\* MostLeisureWorker is -1, or the slice is shorter by now: the handler panics
\* and the client gets no answer.
NoSuchWorker(c) == CASE pc[c] = "s_select" -> \A i \in Indices : ~IsMostLeisure(i)
                     [] pc[c] = "s_point"  -> req[c].index \notin Indices
                     [] OTHER              -> FALSE
NoWorker(c) ==
  /\ NoSuchWorker(c) /\ Return(c)
  /\ UNCHANGED <<proxy, stored, left, history>>

\* selected_worker: what the cell that it points to holds by now.
Selected(c) == arrays[req[c].array].cells[req[c].index]

\* The key is placed before the worker is asked.
\* Variants: on the worker that is the most leisure by now; by the worker's index.
RecordKeyAgain(c) ==
  /\ Go(c, "s_record", "s_post")
  /\ \E i \in Indices : IsMostLeisure(i) /\ m' = With(m, req[c].key, Cells[i].Loc)
  /\ UNCHANGED <<Workers, arrays, stored, req, left, history>>
RecordIndex(c) ==
  /\ Go(c, "s_record", "s_post")
  /\ m' = With(m, req[c].key, req[c].index)
  /\ UNCHANGED <<Workers, arrays, stored, req, left, history>>
RecordKey(c) ==
  /\ Go(c, "s_record", "s_post")
  /\ m' = With(m, req[c].key, Selected(c).Loc)
  /\ UNCHANGED <<Workers, arrays, stored, req, left, history>>

\* The POST goes to the address that the cell holds by now.
Post(c) ==
  /\ Go(c, "s_post", "s_sent")
  /\ req' = [req EXCEPT ![c].loc = Selected(c).Loc]
  /\ UNCHANGED <<proxy, stored, left, history>>

\* The worker's StoreValue, under the key that it reads in the URL.
\* Variant: a key the worker has already is left alone.
NewKeyOnly(c) ==
  LET table == stored[req[c].loc]
      k == StoredAs[req[c].key]
  IN IF k \in DOMAIN table THEN table ELSE With(table, k, req[c].value)
TableAfter(c) == With(stored[req[c].loc], StoredAs[req[c].key], req[c].value)

WorkerStores(c) ==
  /\ Go(c, "s_sent", "s_reply")
  /\ req[c].loc # NoLoc /\ StoredAs[req[c].key] \in Keys
  /\ stored' = [stored EXCEPT ![req[c].loc] = TableAfter(c)]
  /\ UNCHANGED <<proxy, req, left, history>>

\* The worker has no handler for the URL: what it answers is no success, which
\* is passed on and not charged.
NotStored(c) ==
  /\ pc[c] = "s_sent" /\ Return(c)
  /\ req[c].loc # NoLoc /\ StoredAs[req[c].key] = NoRoute
  /\ UNCHANGED <<proxy, stored, left, history>>

\* The POST fails, before the worker stored the value or after: answer false.
PostFails(c) ==
  /\ pc[c] \in {"s_sent", "s_reply"} /\ Return(c)
  /\ MayFail(c, StoredAs)
  /\ UNCHANGED <<proxy, stored, left, history>>

\* A store of v under k has succeeded: the key has that value, and keys that
\* mean the same to a worker may have.
AfterStore(k, v) == [j \in Keys |-> IF j = k THEN {v}
                                    ELSE latest[j] \cup {x \in {v} : Same(k, j)}]

\* The client is answered with success, and Rem is read ...
Reply(c) ==
  /\ Go(c, "s_reply", "s_charge")
  /\ req' = [req EXCEPT ![c].Rem = Selected(c).Rem]
  /\ latest' = AfterStore(req[c].key, req[c].value)
  /\ charged' = [charged EXCEPT ![req[c].loc] = @ + req[c].value]
  /\ UNCHANGED <<proxy, stored, left, sent, answer, overwritten>>

\* ... and written back, into the array that the pointer was taken in.
\* Variant: the length is charged twice.
ChargeTwice(c) == req[c].Rem - 2 * req[c].value
Charged(c) == req[c].Rem - req[c].value

Charge(c) ==
  /\ pc[c] = "s_charge" /\ Return(c)
  /\ arrays' = [arrays EXCEPT ![req[c].array].cells[req[c].index].Rem = Charged(c)]
  /\ UNCHANGED <<Workers, m, stored, left, history>>

------------------------------------------------------------------------------
(* GetValue *)

GetValue(c, k) ==
  /\ Arrives(c, "g_lookup", [NoReq EXCEPT !.key = k, !.known = NoValue \notin latest[k]])
  /\ UNCHANGED <<proxy, stored, history>>

Answer(c, v) ==
  answer' = [answer EXCEPT ![c] = [key |-> req[c].key, value |-> v,
                                   known |-> req[c].known]]

Lookup(c) ==
  /\ Go(c, "g_lookup", "g_fetch")
  /\ req[c].key \in DOMAIN m
  /\ req' = [req EXCEPT ![c].loc = m[req[c].key]]
  /\ UNCHANGED <<proxy, stored, left, history>>

UnknownKey(c) ==
  /\ pc[c] = "g_lookup" /\ Return(c)
  /\ req[c].key \notin DOMAIN m
  /\ Answer(c, NoValue)
  /\ UNCHANGED <<proxy, stored, left, latest, sent, charged, overwritten>>

\* The worker's GetValue, of the key that it reads in the URL; a URL without a
\* handler is answered like a key that is not there.
\* Variant: the key is ignored.
AnythingFound(c) ==
  LET table == stored[req[c].loc]
  IN IF DOMAIN table = {} THEN NoValue ELSE table[CHOOSE k \in DOMAIN table : TRUE]
Found(c) ==
  LET table == stored[req[c].loc]
      k == SoughtAs[req[c].key]
  IN IF k \in DOMAIN table THEN table[k] ELSE NoValue

WorkerGets(c) ==
  /\ pc[c] = "g_fetch" /\ Return(c)
  /\ req[c].loc # NoLoc /\ SoughtAs[req[c].key] # NoURL
  /\ Answer(c, Found(c))
  /\ UNCHANGED <<proxy, stored, left, latest, sent, charged, overwritten>>

\* The GET fails: the answer is the same as for a key that is not there.
GetFails(c) ==
  /\ pc[c] = "g_fetch" /\ Return(c)
  /\ MayFail(c, SoughtAs)
  /\ Answer(c, NoValue)
  /\ UNCHANGED <<proxy, stored, left, latest, sent, charged, overwritten>>

------------------------------------------------------------------------------
\* A worker's table is in its memory only.
WorkerRestarts(loc) ==
  /\ loc \in Failing
  /\ stored' = [stored EXCEPT ![loc] = [k \in {} |-> NoValue]]
  /\ UNCHANGED <<proxy, request, history>>

Init ==
  /\ Workers = [array |-> 1, len |-> 0]
  /\ arrays = <<[cells |-> <<>>, capacity |-> 0]>>
  /\ m = [k \in {} |-> NoLoc]
  /\ stored = [loc \in Locs |-> [k \in {} |-> NoValue]]
  /\ pc = [c \in Clients |-> "idle"]
  /\ req = [c \in Clients |-> NoReq]
  /\ left = [c \in Clients |-> Requests]
  /\ latest = [k \in Keys |-> {NoValue}]
  /\ sent = {}
  /\ charged = [loc \in Locs |-> 0]
  /\ answer \in [Clients -> [key : Keys, value : {NoValue}, known : {FALSE}]]
  /\ overwritten = FALSE

Step(c) ==
  \/ AppendInPlace(c) \/ AppendToNewArray(c)
  \/ MostLeisureWorker(c) \/ SelectWorker(c) \/ NoWorker(c)
  \/ RecordKey(c) \/ Post(c) \/ WorkerStores(c) \/ NotStored(c)
  \/ PostFails(c) \/ Reply(c) \/ Charge(c)
  \/ Lookup(c) \/ UnknownKey(c) \/ WorkerGets(c) \/ GetFails(c)

Next ==
  \/ \E c \in Clients : \/ \E loc \in Locs \cup {NoLoc} : AddWorker(c, loc)
                        \/ \E k \in Keys, v \in Values : StoreValue(c, k, v)
                        \/ \E k \in Keys : GetValue(c, k)
                        \/ Step(c)
  \/ \E loc \in Failing : WorkerRestarts(loc)

Spec == Init /\ [][Next]_vars
------------------------------------------------------------------------------
(* Properties. *)

\* A worker as the proxy knows it, a backing array, a request, a worker's map.
Worker == [Loc : Locs \cup {NoLoc}, Rem : Int]
Array == [cells : Seq(Worker), capacity : Nat]
Request == [key : Keys \cup {NoValue}, value : Values \cup {0},
            loc : Locs \cup {NoLoc}, array : Nat, len : Nat,
            index : Nat, Rem : Int, known : BOOLEAN]
Table == UNION {[K -> Values] : K \in SUBSET Keys}
LastGet == [key : Keys, value : Values \cup {NoValue}, known : BOOLEAN]

\* Every variable has its type; what m, the slice and the tables name exists.
TypeOK ==
  /\ arrays \in Seq(Array)
  /\ \A a \in DOMAIN arrays : Len(arrays[a].cells) <= arrays[a].capacity
  /\ Workers \in [array : DOMAIN arrays, len : Nat]
  /\ Workers.len <= Len(Cells)
  /\ m \in [DOMAIN m -> Locs \cup {NoLoc}] /\ DOMAIN m \subseteq Keys
  /\ stored \in [Locs -> Table]
  /\ pc \in [Clients -> {"idle", "a_append", "s_select", "s_point", "s_record",
                         "s_post", "s_sent", "s_reply", "s_charge",
                         "g_lookup", "g_fetch"}]
  /\ req \in [Clients -> Request]
  /\ left \in [Clients -> 0 .. Requests]
  /\ latest \in [Keys -> SUBSET (Values \cup {NoValue})]
  /\ sent \subseteq Keys \X Values
  /\ charged \in [Locs -> Nat]
  /\ answer \in [Clients -> LastGet]
  /\ overwritten \in BOOLEAN

\* A get never answers a value that no store of that key, or of one that means
\* the same to a worker, has carried, however stores, failures and restarts of the
\* workers interleave.
NothingInvented ==
  \A c \in Clients :
    \/ answer[c].value = NoValue
    \/ \E k \in Keys : Same(k, answer[c].key) /\ <<k, answer[c].value>> \in sent

\* The bytes that have been taken from the Rem of the workers in a set of
\* positions of the slice.
Taken(places) == SumFunction([i \in places |-> Ram - Cells[i].Rem])

\* The workers are never charged for more than they were given to store: updates
\* of Rem can be lost, never repeated, wherever append moves the slice, as long
\* as no append writes over another one's worker.
NeverOvercharged ==
  ~ overwritten =>
    Taken({i \in Indices : Cells[i].Loc # NoLoc})
      <= SumFunction(charged)

\* A store is about to ask worker loc to keep key k.
OnItsWay(k, loc) ==
  \E c \in Clients : /\ req[c].key = k
                     /\ \/ pc[c] = "s_post" /\ Selected(c).Loc = loc
                        \/ pc[c] = "s_sent" /\ req[c].loc = loc

\* proxy.go:31: m maps a key to a worker that has it or is about to get it,
\* unless that worker fails: then m keeps naming it, with or without the value.
\* It does so too for a key that no worker takes.
HasOrGets(k) == \/ m[k] \notin Locs \ Failing
                \/ StoredAs[k] \in DOMAIN stored[m[k]]
                \/ OnItsWay(k, m[k])

\* That holds as long as no append writes over another one's worker: then the
\* POST goes to the worker written over the one in m.
MappedWorkerHasKey ==
  ~ overwritten => \A k \in DOMAIN m : StoredAs[k] \in Keys => HasOrGets(k)

\* A key some store of which was answered with success is found by every get
\* that comes after the answer.
AckedIsFound == \A c \in Clients : answer[c].known => answer[c].value # NoValue

\* Clients that take turns see a map: a get answers the last value stored, or
\* one stored later under a key that means the same to a worker, whichever
\* workers the keys have been on.
Promise == INSTANCE KVPromise WITH
  Aliases <- {p \in Keys \X Keys : Same(p[1], p[2])},
  table  <- latest,
  answer <- [c \in Clients |-> [key |-> answer[c].key, value |-> answer[c].value]]

KeepsPromise == Promise!Spec
==============================================================================
