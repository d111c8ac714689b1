---------------------------- MODULE KVProxyProofs ----------------------------
(***************************************************************************)
(* KVProxy for any clients, keys, values and workers, whichever fail: what *)
(* a request has read stays true of arrays that only ever grow (IInv), so  *)
(* every pointer of the proxy points somewhere; what a worker has was sent *)
(* to it; and as long as no append writes over the worker of another one   *)
(* the addresses in the arrays stay, so that a store goes to the worker    *)
(* that it put into m, and no worker's Rem is charged for more than was    *)
(* stored (Accounted).  For one client and no failures, it is a map.       *)
(***************************************************************************)
EXTENDS KVProxy, NumberLemmas

\* Where a store keeps its key, and where it also keeps a pointer to a worker.
StorePoints == {"s_select", "s_point", "s_record", "s_post", "s_sent", "s_reply",
                "s_charge"}
PointerPoints == {"s_record", "s_post", "s_sent", "s_reply", "s_charge"}

\* What a request knows at each point of its way.
InOrder(c) ==
  /\ pc[c] = "a_append" => /\ req[c].array \in DOMAIN arrays
                           /\ req[c].len <= Len(arrays[req[c].array].cells)
  /\ pc[c] \in PointerPoints => /\ req[c].array \in DOMAIN arrays
                                /\ req[c].index \in 1 .. Len(arrays[req[c].array].cells)
  /\ pc[c] \in StorePoints => <<req[c].key, req[c].value>> \in sent
  /\ pc[c] \in {"g_lookup", "g_fetch"} => req[c].key \in Keys
  /\ pc[c] \in {"s_reply", "s_charge"} => req[c].loc \in Locs
  /\ pc[c] = "s_reply" => StoredAs[req[c].key] \in Keys

RequestsInOrder == \A c \in Clients : InOrder(c)

\* What the workers have was sent to them, under a key that they take for theirs.
TablesSent ==
  \A loc \in Locs : \A x \in DOMAIN stored[loc] :
    \E k \in Keys : StoredAs[k] = x /\ <<k, stored[loc][x]>> \in sent

IInv == TypeOK /\ RequestsInOrder /\ TablesSent

------------------------------------------------------------------------------
\* Writing a cell of an array or the one behind its last cell: the array grows by
\* one cell at most, and the other cells stay.
LEMMA WrittenFacts ==
  ASSUME NEW cells \in Seq(Worker), NEW i \in Nat \ {0}, i <= Len(cells) + 1,
         NEW w \in Worker
  PROVE  /\ Written(cells, i, w) \in Seq(Worker)
         /\ Len(Written(cells, i, w)) = IF i <= Len(cells) THEN Len(cells) ELSE i
         /\ \A j \in 1 .. Len(cells) : j # i => Written(cells, i, w)[j] = cells[j]
         /\ Written(cells, i, w)[i] = w
BY DEF Written

\* A sequence one element of which is replaced is a sequence of the same length.
LEMMA ReplacedInSeq ==
  ASSUME NEW S, NEW s \in Seq(S), NEW i \in DOMAIN s, NEW e \in S
  PROVE  /\ [s EXCEPT ![i] = e] \in Seq(S)
         /\ DOMAIN [s EXCEPT ![i] = e] = DOMAIN s
         /\ Len([s EXCEPT ![i] = e]) = Len(s)
<1>1. PICK n \in Nat : n = Len(s) /\ DOMAIN s = 1 .. n
  OBVIOUS
<1>2. [s EXCEPT ![i] = e] \in [1 .. n -> S]
  BY <1>1
<1>3. \A q \in [1 .. n -> S] : q \in Seq(S) /\ Len(q) = n
  BY <1>1
<1> QED
  BY <1>1, <1>2, <1>3

\* A worker's map with one key set is a worker's map.
LEMMA WithFacts ==
  ASSUME NEW f \in Table, NEW k \in Keys, NEW v \in Values
  PROVE  /\ With(f, k, v) \in Table
         /\ DOMAIN With(f, k, v) = DOMAIN f \cup {k}
<1>1. PICK K \in SUBSET Keys : f \in [K -> Values]
  BY DEF Table
<1>2. With(f, k, v) \in [K \cup {k} -> Values] /\ K \cup {k} \in SUBSET Keys
  BY <1>1 DEF With
<1> QED
  BY <1>1, <1>2 DEF With, Table

\* A request that carries nothing is a request.
LEMMA NoReqType == NoReq \in Request
BY DEF NoReq, Request

\* What AddWorker appends is a worker, also when it did not decode.
LEMMA NewWorkerType ==
  ASSUME TypeOK, NEW c \in Clients
  PROVE  NewWorker(c) \in Worker
BY ConstantsAssumption DEF NewWorker, TypeOK, Request, Worker

\* The proxy starts with no worker, no key and an array of no capacity.
LEMMA InitIInv == Init => IInv
<1> SUFFICES ASSUME Init PROVE IInv
  OBVIOUS
<1>1. TypeOK
  <2>1. arrays \in Seq(Array) /\ arrays = <<[cells |-> <<>>, capacity |-> 0]>>
    BY DEF Init, Array
  <2>2. req \in [Clients -> Request]
    BY NoReqType DEF Init
  <2>3. stored \in [Locs -> Table]
    <3>1. [k \in {} |-> NoValue] \in [{} -> Values]
      OBVIOUS
    <3> QED
      BY <3>1 DEF Init, Table
  <2>4. /\ \A a \in DOMAIN arrays : Len(arrays[a].cells) <= arrays[a].capacity
        /\ Workers \in [array : DOMAIN arrays, len : Nat]
        /\ Workers.len <= Len(Cells)
    BY <2>1 DEF Init, Cells
  <2>5. m \in [DOMAIN m -> Locs \cup {NoLoc}] /\ DOMAIN m \subseteq Keys
    BY DEF Init
  <2>6. answer \in [Clients -> LastGet]
    BY DEF Init, LastGet
  <2>7. /\ pc \in [Clients -> {"idle"}]
        /\ latest \in [Keys -> SUBSET (Values \cup {NoValue})] /\ sent \subseteq Keys \X Values
        /\ charged \in [Locs -> Nat] /\ overwritten \in BOOLEAN
    BY DEF Init
  <2>9. left \in [Clients -> 0 .. Requests]
    BY ConstantsAssumption DEF Init
  <2>8. arrays \in Seq(Array)
    BY <2>1
  <2> QED
    BY <2>2, <2>3, <2>4, <2>5, <2>6, <2>7, <2>8, <2>9 DEF TypeOK
<1>2. RequestsInOrder
  BY DEF Init, RequestsInOrder, InOrder, PointerPoints, StorePoints
<1>3. TablesSent
  BY DEF Init, TablesSent
<1> QED
  BY <1>1, <1>2, <1>3 DEF IInv

------------------------------------------------------------------------------
\* Arrays are never taken away and never shrink.
Grown ==
  /\ DOMAIN arrays \subseteq DOMAIN arrays'
  /\ \A a \in DOMAIN arrays : Len(arrays[a].cells) <= Len(arrays'[a].cells)

\* What TypeOK says of one backing array.
LEMMA ArrayFacts ==
  ASSUME TypeOK, NEW a \in DOMAIN arrays
  PROVE  /\ arrays[a] \in Array /\ arrays[a].cells \in Seq(Worker)
         /\ Len(arrays[a].cells) \in Nat /\ arrays[a].capacity \in Nat
         /\ Len(arrays[a].cells) <= arrays[a].capacity
         /\ a \in Nat
<1>1. arrays[a] \in Array /\ a \in Nat
  BY DEF TypeOK
<1>2. Len(arrays[a].cells) <= arrays[a].capacity
  BY DEF TypeOK
<1>3. arrays[a].cells \in Seq(Worker) /\ arrays[a].capacity \in Nat
  BY <1>1 DEF Array
<1> QED
  BY <1>1, <1>2, <1>3

\* The other requests are not disturbed.
LEMMA OthersInOrder ==
  ASSUME IInv, NEW c \in Clients, NEW d \in Clients \ {c},
         pc'[d] = pc[d], req'[d] = req[d], sent \subseteq sent', Grown, TypeOK'
  PROVE  InOrder(d)'
<1>1. InOrder(d)
  BY DEF IInv, RequestsInOrder
<1>2. ASSUME req[d].array \in DOMAIN arrays
      PROVE  /\ req[d].array \in DOMAIN arrays'
             /\ Len(arrays[req[d].array].cells) \in Nat
             /\ Len(arrays'[req[d].array].cells) \in Nat
             /\ Len(arrays[req[d].array].cells) <= Len(arrays'[req[d].array].cells)
  <2>1. Len(arrays[req[d].array].cells) \in Nat
    BY <1>2, ArrayFacts DEF IInv
  <2>2. req[d].array \in DOMAIN arrays'
    BY <1>2 DEF Grown
  <2>3. arrays'[req[d].array] \in Array
    BY <2>2 DEF TypeOK
  <2> QED
    BY <1>2, <2>1, <2>2, <2>3 DEF Grown, Array
<1>3. req[d].index \in Nat /\ req[d].len \in Nat
  BY DEF IInv, TypeOK, Request
<1>4. CASE req[d].array \in DOMAIN arrays
  <2> DEFINE l == Len(arrays[req[d].array].cells)
             n == Len(arrays'[req[d].array].cells)
  <2>1. l \in Nat /\ n \in Nat /\ l <= n /\ req[d].array \in DOMAIN arrays'
    BY <1>2, <1>4
  <2> HIDE DEF l, n
  <2>2. /\ req[d].len <= l => req[d].len <= n
        /\ req[d].index \in 1 .. l => req[d].index \in 1 .. n
    BY <1>3, <2>1
  <2> QED
    BY <1>1, <2>1, <2>2 DEF InOrder, l, n
<1>5. CASE req[d].array \notin DOMAIN arrays
  BY <1>1, <1>5 DEF InOrder
<1> QED
  BY <1>4, <1>5

\* What is left to show of a step of request c.
LEMMA StepIInv ==
  ASSUME IInv, NEW c \in Clients, TypeOK', InOrder(c)', TablesSent',
         \A d \in Clients \ {c} : pc'[d] = pc[d] /\ req'[d] = req[d],
         sent \subseteq sent', Grown
  PROVE  IInv'
BY OthersInOrder DEF IInv, RequestsInOrder

\* Arrays that are left alone have grown.
LEMMA GrownSame ==
  ASSUME TypeOK, UNCHANGED arrays
  PROVE  Grown
BY ArrayFacts DEF Grown

Points == {"idle", "a_append", "s_select", "s_point", "s_record", "s_post", "s_sent",
           "s_reply", "s_charge", "g_lookup", "g_fetch"}

\* A step to another point, and a request that returns.
LEMMA MoveFacts ==
  ASSUME TypeOK, NEW c \in Clients, NEW p \in Points, pc' = [pc EXCEPT ![c] = p]
  PROVE  /\ pc' \in [Clients -> Points] /\ pc'[c] = p
         /\ \A d \in Clients \ {c} : pc'[d] = pc[d]
BY DEF TypeOK, Points

\* A request that returns knows nothing, and the others go on as they were.
LEMMA ReturnFacts ==
  ASSUME TypeOK, NEW c \in Clients, Return(c)
  PROVE  /\ pc' \in [Clients -> Points] /\ pc'[c] = "idle"
         /\ req' \in [Clients -> Request] /\ InOrder(c)'
         /\ \A d \in Clients \ {c} : pc'[d] = pc[d] /\ req'[d] = req[d]
BY NoReqType DEF Return, TypeOK, Points, InOrder, PointerPoints, StorePoints

\* A request that arrives knows what the client sent.
LEMMA ArriveFacts ==
  ASSUME TypeOK, NEW c \in Clients, NEW p \in Points, NEW r \in Request, Arrives(c, p, r)
  PROVE  /\ pc' \in [Clients -> Points] /\ pc'[c] = p
         /\ req' \in [Clients -> Request] /\ req'[c] = r
         /\ left' \in [Clients -> 0 .. Requests]
         /\ \A d \in Clients \ {c} : pc'[d] = pc[d] /\ req'[d] = req[d]
BY ConstantsAssumption DEF Arrives, Go, TypeOK, Points

\* A request to add a worker reads a slice that exists.
LEMMA AddWorkerIInv ==
  ASSUME IInv, NEW c \in Clients, NEW loc \in Locs \cup {NoLoc}, AddWorker(c, loc)
  PROVE  IInv'
<1> DEFINE r == [NoReq EXCEPT !.loc = loc, !.array = Workers.array,
                               !.len = Workers.len]
<1>1. Arrives(c, "a_append", r) /\ UNCHANGED <<proxy, stored, history>>
  BY DEF AddWorker
<1>2. r \in Request /\ r.array = Workers.array /\ r.len = Workers.len
  <2>1. Workers.array \in Nat /\ Workers.len \in Nat
    BY DEF IInv, TypeOK
  <2> QED
    BY <2>1, NoReqType DEF Request
<1> HIDE DEF r
<1>3. /\ pc' \in [Clients -> Points] /\ pc'[c] = "a_append"
      /\ req' \in [Clients -> Request] /\ req'[c] = r
      /\ left' \in [Clients -> 0 .. Requests]
      /\ \A d \in Clients \ {c} : pc'[d] = pc[d] /\ req'[d] = req[d]
  BY <1>1, <1>2, ArriveFacts DEF IInv, Points
<1>4. TypeOK'
  BY <1>1, <1>3 DEF IInv, TypeOK, Cells, proxy, history, Points
<1>5. InOrder(c)'
  BY <1>1, <1>2, <1>3 DEF InOrder, IInv, TypeOK, Cells, proxy, PointerPoints, StorePoints
<1>6. TablesSent' /\ sent \subseteq sent' /\ Grown
  BY <1>1, GrownSame DEF IInv, TablesSent, history, proxy
<1> QED
  BY <1>3, <1>4, <1>5, <1>6, StepIInv

\* A store that arrives has sent its pair.
LEMMA StoreValueIInv ==
  ASSUME IInv, NEW c \in Clients, NEW k \in Keys, NEW v \in Values, StoreValue(c, k, v)
  PROVE  IInv'
<1> DEFINE r == [NoReq EXCEPT !.key = k, !.value = v]
<1>1. /\ Arrives(c, "s_select", r) /\ sent' = sent \cup {<<k, v>>}
      /\ UNCHANGED <<proxy, stored, latest, charged, answer, overwritten>>
  BY DEF StoreValue
<1>2. r \in Request /\ r.key = k /\ r.value = v
  BY NoReqType DEF Request
<1> HIDE DEF r
<1>3. /\ pc' \in [Clients -> Points] /\ pc'[c] = "s_select"
      /\ req' \in [Clients -> Request] /\ req'[c] = r
      /\ left' \in [Clients -> 0 .. Requests]
      /\ \A d \in Clients \ {c} : pc'[d] = pc[d] /\ req'[d] = req[d]
  BY <1>1, <1>2, ArriveFacts DEF IInv, Points
<1>4. TypeOK'
  BY <1>1, <1>3 DEF IInv, TypeOK, Cells, proxy, Points
<1>5. InOrder(c)'
  BY <1>1, <1>2, <1>3 DEF InOrder, PointerPoints, StorePoints
<1>6. TablesSent' /\ sent \subseteq sent' /\ Grown
  BY <1>1, GrownSame DEF IInv, TablesSent, proxy
<1> QED
  BY <1>3, <1>4, <1>5, <1>6, StepIInv

\* A get that arrives asks for a key.
LEMMA GetValueIInv ==
  ASSUME IInv, NEW c \in Clients, NEW k \in Keys, GetValue(c, k)
  PROVE  IInv'
<1> DEFINE r == [NoReq EXCEPT !.key = k, !.known = NoValue \notin latest[k]]
<1>1. Arrives(c, "g_lookup", r) /\ UNCHANGED <<proxy, stored, history>>
  BY DEF GetValue
<1>2. r \in Request /\ r.key = k
  BY NoReqType DEF Request
<1> HIDE DEF r
<1>3. /\ pc' \in [Clients -> Points] /\ pc'[c] = "g_lookup"
      /\ req' \in [Clients -> Request] /\ req'[c] = r
      /\ left' \in [Clients -> 0 .. Requests]
      /\ \A d \in Clients \ {c} : pc'[d] = pc[d] /\ req'[d] = req[d]
  BY <1>1, <1>2, ArriveFacts DEF IInv, Points
<1>4. TypeOK'
  BY <1>1, <1>3 DEF IInv, TypeOK, Cells, proxy, history, Points
<1>5. InOrder(c)'
  BY <1>1, <1>2, <1>3 DEF InOrder, PointerPoints, StorePoints
<1>6. TablesSent' /\ sent \subseteq sent' /\ Grown
  BY <1>1, GrownSame DEF IInv, TablesSent, history, proxy
<1> QED
  BY <1>3, <1>4, <1>5, <1>6, StepIInv

\* Requests that return and leave the proxy and the workers alone.
LEMMA ReturnsIInv ==
  ASSUME IInv, NEW c \in Clients,
         \/ NoWorker(c) \/ NotStored(c) \/ PostFails(c)
         \/ UnknownKey(c) \/ WorkerGets(c) \/ GetFails(c)
  PROVE  IInv'
<1>1. /\ Return(c) /\ UNCHANGED <<proxy, stored, left, latest, sent, charged, overwritten>>
  BY DEF NoWorker, NotStored, PostFails, UnknownKey, WorkerGets, GetFails, history
<1>2. answer' \in [Clients -> LastGet]
  <2>1. CASE UNCHANGED answer
    BY <2>1 DEF IInv, TypeOK
  <2>2. CASE UnknownKey(c) \/ WorkerGets(c) \/ GetFails(c)
    <3>1. PICK v \in Values \cup {NoValue} : Answer(c, v)
      <4>1. Found(c) \in Values \cup {NoValue} \/ UnknownKey(c) \/ GetFails(c)
        <5>1. CASE WorkerGets(c)
          <6>1. req[c].loc \in Locs
            BY <5>1 DEF WorkerGets, IInv, TypeOK, Request
          <6>2. stored[req[c].loc] \in Table
            BY <6>1 DEF IInv, TypeOK
          <6>3. PICK K \in SUBSET Keys : stored[req[c].loc] \in [K -> Values]
            BY <6>2 DEF Table
          <6> QED
            BY <6>3 DEF Found
        <5> QED
          BY <2>2, <5>1
      <4> QED
        BY <2>2, <4>1 DEF UnknownKey, WorkerGets, GetFails
    <3>2. req[c].key \in Keys /\ req[c].known \in BOOLEAN
      BY <2>2 DEF UnknownKey, WorkerGets, GetFails, IInv, RequestsInOrder, InOrder, TypeOK,
                  Request
    <3>3. [key |-> req[c].key, value |-> v, known |-> req[c].known] \in LastGet
      BY <3>2 DEF LastGet
    <3> QED
      BY <3>1, <3>3 DEF Answer, IInv, TypeOK
  <2> QED
    BY <2>1, <2>2 DEF NoWorker, NotStored, PostFails, history
<1>3. /\ pc' \in [Clients -> Points] /\ req' \in [Clients -> Request] /\ InOrder(c)'
      /\ \A d \in Clients \ {c} : pc'[d] = pc[d] /\ req'[d] = req[d]
  BY <1>1, ReturnFacts DEF IInv
<1>4. TypeOK'
  BY <1>1, <1>2, <1>3 DEF IInv, TypeOK, Cells, proxy, Points
<1>5. TablesSent' /\ sent \subseteq sent' /\ Grown
  BY <1>1, GrownSame DEF IInv, TablesSent, proxy
<1> QED
  BY <1>3, <1>4, <1>5, StepIInv

\* Requests that read the proxy and go on.
LEMMA ReadsIInv ==
  ASSUME IInv, NEW c \in Clients,
         MostLeisureWorker(c) \/ SelectWorker(c) \/ Post(c) \/ Lookup(c)
  PROVE  IInv'
<1>1. UNCHANGED <<proxy, stored, left, history>>
  BY DEF MostLeisureWorker, SelectWorker, Post, Lookup
<1>2. PICK r \in Request : /\ req' = [req EXCEPT ![c] = r]
                           /\ r.key = req[c].key /\ r.value = req[c].value
                           /\ SelectWorker(c) => /\ r.array = Workers.array
                                                 /\ r.index \in Indices
                           /\ Post(c) => /\ r.array = req[c].array
                                         /\ r.index = req[c].index
  <2>1. req[c] \in Request
    BY DEF IInv, TypeOK
  <2>2. CASE MostLeisureWorker(c)
    <3>1. PICK i \in Indices : req' = [req EXCEPT ![c].index = i]
      BY <2>2 DEF MostLeisureWorker
    <3>2. i \in Nat
      BY DEF Indices
    <3>3. [req[c] EXCEPT !.index = i] \in Request
      BY <2>1, <3>2 DEF Request
    <3>4. req' = [req EXCEPT ![c] = [req[c] EXCEPT !.index = i]]
      BY <3>1 DEF IInv, TypeOK
    <3>5. pc[c] = "s_select"
      BY <2>2 DEF MostLeisureWorker, Go
    <3> QED
      BY <2>1, <3>3, <3>4, <3>5 DEF SelectWorker, Post, Go, Request
  <2>3. CASE SelectWorker(c)
    <3>1. Workers.array \in Nat
      BY DEF IInv, TypeOK
    <3>2. [req[c] EXCEPT !.array = Workers.array] \in Request
      BY <2>1, <3>1 DEF Request
    <3>3. req' = [req EXCEPT ![c] = [req[c] EXCEPT !.array = Workers.array]]
      BY <2>3 DEF IInv, TypeOK, SelectWorker
    <3>4. req[c].index \in Indices /\ ~ Post(c)
      BY <2>3 DEF SelectWorker, Post, Go
    <3> QED
      BY <2>1, <3>2, <3>3, <3>4 DEF Request
  <2>4. CASE Post(c)
    <3>1. Selected(c).Loc \in Locs \cup {NoLoc}
      <4>1. req[c].array \in DOMAIN arrays /\ req[c].index \in 1 .. Len(arrays[req[c].array].cells)
        BY <2>4 DEF Post, Go, IInv, RequestsInOrder, InOrder, PointerPoints
      <4>2. Selected(c) \in Worker
        BY <4>1, ArrayFacts DEF Selected, IInv
      <4> QED
        BY <4>2 DEF Worker
    <3>2. [req[c] EXCEPT !.loc = Selected(c).Loc] \in Request
      BY <2>1, <3>1 DEF Request
    <3>3. req' = [req EXCEPT ![c] = [req[c] EXCEPT !.loc = Selected(c).Loc]]
      BY <2>4 DEF IInv, TypeOK, Post
    <3>4. ~ SelectWorker(c)
      BY <2>4 DEF SelectWorker, Post, Go
    <3> QED
      BY <2>1, <3>2, <3>3, <3>4 DEF Request
  <2>5. CASE Lookup(c)
    <3>1. m[req[c].key] \in Locs \cup {NoLoc}
      BY <2>5 DEF Lookup, IInv, TypeOK
    <3>2. [req[c] EXCEPT !.loc = m[req[c].key]] \in Request
      BY <2>1, <3>1 DEF Request
    <3>3. req' = [req EXCEPT ![c] = [req[c] EXCEPT !.loc = m[req[c].key]]]
      BY <2>5 DEF IInv, TypeOK, Lookup
    <3>4. ~ SelectWorker(c) /\ ~ Post(c)
      BY <2>5 DEF SelectWorker, Post, Lookup, Go
    <3> QED
      BY <2>1, <3>2, <3>3, <3>4 DEF Request
  <2> QED
    BY <2>2, <2>3, <2>4, <2>5
<1>3. PICK p \in {"s_point", "s_record", "s_sent", "g_fetch"} :
        /\ pc' = [pc EXCEPT ![c] = p]
        /\ p = "s_point" => pc[c] = "s_select"
        /\ p = "s_record" => SelectWorker(c)
        /\ p = "s_sent" => pc[c] = "s_post" /\ Post(c)
        /\ p = "g_fetch" => pc[c] = "g_lookup"
  BY DEF MostLeisureWorker, SelectWorker, Post, Lookup, Go
<1>4. /\ pc' \in [Clients -> Points] /\ pc'[c] = p
      /\ req' \in [Clients -> Request] /\ req'[c] = r
      /\ \A d \in Clients \ {c} : pc'[d] = pc[d] /\ req'[d] = req[d]
  <2>1. p \in Points
    BY DEF Points
  <2>2. pc' \in [Clients -> Points] /\ pc'[c] = p /\ \A d \in Clients \ {c} : pc'[d] = pc[d]
    BY <1>3, <2>1, MoveFacts DEF IInv
  <2> QED
    BY <1>2, <2>2 DEF IInv, TypeOK
<1>5. TypeOK'
  BY <1>1, <1>4 DEF IInv, TypeOK, Cells, proxy, history, Points
<1>6. InOrder(c)'
  <2>1. InOrder(c) /\ arrays' = arrays /\ sent' = sent
    BY <1>1 DEF IInv, RequestsInOrder, proxy, history
  <2>2. p = "s_record" => /\ r.array \in DOMAIN arrays
                          /\ r.index \in 1 .. Len(arrays[r.array].cells)
    <3>1. SUFFICES ASSUME p = "s_record" PROVE /\ r.array \in DOMAIN arrays
                          /\ r.index \in 1 .. Len(arrays[r.array].cells)
      OBVIOUS
    <3>2. r.array = Workers.array /\ r.index \in 1 .. Workers.len
      BY <1>2, <1>3, <3>1 DEF Indices
    <3>3. Workers.array \in DOMAIN arrays /\ Workers.len \in Nat
          /\ Workers.len <= Len(arrays[Workers.array].cells)
      BY DEF IInv, TypeOK, Cells
    <3>4. Len(arrays[Workers.array].cells) \in Nat
      BY <3>3, ArrayFacts DEF IInv
    <3> QED
      BY <3>2, <3>3, <3>4
  <2>3. p = "s_sent" => /\ r.array \in DOMAIN arrays
                        /\ r.index \in 1 .. Len(arrays[r.array].cells)
    BY <1>2, <1>3, <2>1 DEF InOrder, PointerPoints
  <2>4. p # "g_fetch" => <<r.key, r.value>> \in sent
    BY <1>2, <1>3, <2>1 DEF InOrder, StorePoints, SelectWorker, Go
  <2>5. p = "g_fetch" => r.key \in Keys
    BY <1>2, <1>3, <2>1 DEF InOrder
  <2> QED
    BY <1>4, <2>1, <2>2, <2>3, <2>4, <2>5 DEF InOrder, PointerPoints, StorePoints
<1>7. TablesSent' /\ sent \subseteq sent' /\ Grown
  BY <1>1, GrownSame DEF IInv, TablesSent, proxy, history
<1> QED
  BY <1>4, <1>5, <1>6, <1>7, StepIInv

\* The cell that selected_worker points to exists when the key is placed.
LEMMA RecordKeyIInv ==
  ASSUME IInv, NEW c \in Clients, RecordKey(c)
  PROVE  IInv'
<1>1. /\ UNCHANGED <<Workers, arrays, stored, req, left, history>>
      /\ pc[c] = "s_record" /\ pc' = [pc EXCEPT ![c] = "s_post"]
      /\ m' = With(m, req[c].key, Selected(c).Loc)
  BY DEF RecordKey, Go
<1>2. /\ req[c].array \in DOMAIN arrays
      /\ req[c].index \in 1 .. Len(arrays[req[c].array].cells)
      /\ <<req[c].key, req[c].value>> \in sent
  BY <1>1 DEF IInv, RequestsInOrder, InOrder, PointerPoints, StorePoints
<1>3. Selected(c).Loc \in Locs \cup {NoLoc}
  <2>1. Selected(c) \in Worker
    BY <1>2, ArrayFacts DEF Selected, IInv
  <2> QED
    BY <2>1 DEF Worker
<1>4. req[c].key \in Keys
  BY <1>2 DEF IInv, TypeOK
<1>5. m' \in [DOMAIN m' -> Locs \cup {NoLoc}] /\ DOMAIN m' \subseteq Keys
  BY <1>1, <1>3, <1>4 DEF IInv, TypeOK, With
<1>6. /\ pc' \in [Clients -> Points] /\ pc'[c] = "s_post"
      /\ \A d \in Clients \ {c} : pc'[d] = pc[d]
  BY <1>1, MoveFacts DEF IInv, Points
<1>7. TypeOK'
  BY <1>1, <1>5, <1>6 DEF IInv, TypeOK, Cells, history, Points
<1>8. InOrder(c)'
  BY <1>1, <1>2, <1>6 DEF InOrder, PointerPoints, StorePoints, history
<1>9. TablesSent' /\ sent \subseteq sent' /\ Grown
  BY <1>1, GrownSame DEF IInv, TablesSent, history
<1> QED
  BY <1>1, <1>6, <1>7, <1>8, <1>9, StepIInv

\* A worker's map gets the pair that the store has sent.
LEMMA WorkerStoresIInv ==
  ASSUME IInv, NEW c \in Clients, WorkerStores(c)
  PROVE  IInv'
<1> DEFINE l == req[c].loc
           k == StoredAs[req[c].key]
           v == req[c].value
<1>1. /\ UNCHANGED <<proxy, req, left, history>>
      /\ pc[c] = "s_sent" /\ pc' = [pc EXCEPT ![c] = "s_reply"]
      /\ stored' = [stored EXCEPT ![l] = With(stored[l], k, v)]
  BY DEF WorkerStores, Go, TableAfter
<1>2. /\ req[c].array \in DOMAIN arrays
      /\ req[c].index \in 1 .. Len(arrays[req[c].array].cells)
      /\ <<req[c].key, v>> \in sent
  BY <1>1 DEF IInv, RequestsInOrder, InOrder, PointerPoints, StorePoints
<1>3. l \in Locs
  BY DEF WorkerStores, IInv, TypeOK, Request
<1>4. k \in Keys /\ v \in Values /\ req[c].key \in Keys
  BY <1>2 DEF IInv, TypeOK, WorkerStores
<1>5. stored[l] \in Table
  BY <1>3 DEF IInv, TypeOK
<1>6. With(stored[l], k, v) \in Table
  BY <1>4, <1>5, WithFacts
<1>7. stored' \in [Locs -> Table]
  BY <1>1, <1>6 DEF IInv, TypeOK
<1>8. /\ pc' \in [Clients -> Points] /\ pc'[c] = "s_reply"
      /\ \A d \in Clients \ {c} : pc'[d] = pc[d]
  BY <1>1, MoveFacts DEF IInv, Points
<1>9. TypeOK'
  BY <1>1, <1>7, <1>8 DEF IInv, TypeOK, Cells, proxy, history, Points
<1>10. InOrder(c)'
  BY <1>1, <1>2, <1>3, <1>4, <1>8 DEF InOrder, PointerPoints, StorePoints, proxy, history
<1>11. TablesSent'
  <2> SUFFICES ASSUME NEW loc \in Locs, NEW x \in DOMAIN stored'[loc]
               PROVE  \E j \in Keys : StoredAs[j] = x /\ <<j, stored'[loc][x]>> \in sent'
    BY DEF TablesSent
  <2>1. sent' = sent
    BY <1>1 DEF history
  <2>2. stored'[loc] = IF loc = l THEN With(stored[l], k, v) ELSE stored[loc]
    BY <1>1 DEF IInv, TypeOK
  <2> QED
    BY <1>2, <1>4, <2>1, <2>2 DEF With, IInv, TablesSent
<1>12. sent \subseteq sent' /\ Grown
  BY <1>1, GrownSame DEF IInv, history, proxy
<1> QED
  BY <1>1, <1>8, <1>9, <1>10, <1>11, <1>12, StepIInv

\* The cell that selected_worker points to exists when its Rem is read.
LEMMA ReplyIInv ==
  ASSUME IInv, NEW c \in Clients, Reply(c)
  PROVE  IInv'
<1>1. /\ UNCHANGED <<proxy, stored, left, sent, answer, overwritten>>
      /\ pc[c] = "s_reply" /\ pc' = [pc EXCEPT ![c] = "s_charge"]
      /\ req' = [req EXCEPT ![c].Rem = Selected(c).Rem]
      /\ latest' = AfterStore(req[c].key, req[c].value)
      /\ charged' = [charged EXCEPT ![req[c].loc] = @ + req[c].value]
  BY DEF Reply, Go
<1>2. /\ req[c].array \in DOMAIN arrays
      /\ req[c].index \in 1 .. Len(arrays[req[c].array].cells)
      /\ <<req[c].key, req[c].value>> \in sent
      /\ req[c].loc \in Locs
  BY <1>1 DEF IInv, RequestsInOrder, InOrder, PointerPoints, StorePoints
<1>3. Selected(c).Rem \in Int
  <2>1. Selected(c) \in Worker
    BY <1>2, ArrayFacts DEF Selected, IInv
  <2> QED
    BY <2>1 DEF Worker
<1>4. req[c].key \in Keys /\ req[c].value \in Values
  BY <1>2 DEF IInv, TypeOK
<1>5. /\ latest' \in [Keys -> SUBSET (Values \cup {NoValue})]
      /\ charged' \in [Locs -> Nat]
  <2>1. charged[req[c].loc] + req[c].value \in Nat
    BY <1>2, <1>4, ConstantsAssumption DEF IInv, TypeOK
  <2>2. charged' \in [Locs -> Nat]
    BY <1>1, <2>1 DEF IInv, TypeOK
  <2> QED
    BY <1>1, <1>4, <2>2 DEF IInv, TypeOK, AfterStore
<1>6. /\ pc' \in [Clients -> Points] /\ pc'[c] = "s_charge"
      /\ \A d \in Clients \ {c} : pc'[d] = pc[d]
  BY <1>1, MoveFacts DEF IInv, Points
<1>7. PICK r \in Request : /\ req' = [req EXCEPT ![c] = r]
                           /\ r.key = req[c].key /\ r.value = req[c].value
                           /\ r.array = req[c].array /\ r.index = req[c].index
                           /\ r.loc = req[c].loc
  <2>1. req[c] \in Request
    BY DEF IInv, TypeOK
  <2>2. req' = [req EXCEPT ![c] = [req[c] EXCEPT !.Rem = Selected(c).Rem]]
    BY <1>1 DEF IInv, TypeOK
  <2>3. [req[c] EXCEPT !.Rem = Selected(c).Rem] \in Request
    BY <1>3, <2>1 DEF Request
  <2> QED
    BY <2>1, <2>2, <2>3 DEF Request
<1>8. /\ req' \in [Clients -> Request] /\ req'[c] = r
      /\ \A d \in Clients \ {c} : req'[d] = req[d]
  BY <1>7 DEF IInv, TypeOK
<1>9. TypeOK'
  BY <1>1, <1>5, <1>6, <1>8 DEF IInv, TypeOK, Cells, proxy, Points
<1>10. InOrder(c)'
  BY <1>1, <1>2, <1>6, <1>7, <1>8 DEF InOrder, PointerPoints, StorePoints, proxy
<1>11. TablesSent' /\ sent \subseteq sent' /\ Grown
  BY <1>1, GrownSame DEF IInv, TablesSent, proxy
<1> QED
  BY <1>6, <1>8, <1>9, <1>10, <1>11, StepIInv

\* A worker that restarts with an empty map.
LEMMA RestartIInv ==
  ASSUME IInv, NEW loc \in Failing, WorkerRestarts(loc)
  PROVE  IInv'
<1>1. /\ stored' = [stored EXCEPT ![loc] = [k \in {} |-> NoValue]]
      /\ UNCHANGED <<proxy, request, history>>
  BY DEF WorkerRestarts
<1>2. [k \in {} |-> NoValue] \in Table
  <2>1. [k \in {} |-> NoValue] \in [{} -> Values]
    OBVIOUS
  <2> QED
    BY <2>1 DEF Table
<1>3. stored' \in [Locs -> Table]
  BY <1>1, <1>2 DEF IInv, TypeOK
<1>4. TypeOK'
  BY <1>1, <1>3 DEF IInv, TypeOK, Cells, proxy, history, request, Points
<1>5. RequestsInOrder'
  BY <1>1 DEF IInv, RequestsInOrder, InOrder, proxy, history, request
<1>6. TablesSent'
  BY <1>1 DEF IInv, TablesSent, TypeOK, history
<1> QED
  BY <1>4, <1>5, <1>6 DEF IInv

\* A cell of an array is written and its length is kept, or grows by one.
LEMMA AppendInPlaceIInv ==
  ASSUME IInv, NEW c \in Clients, AppendInPlace(c)
  PROVE  IInv'
<1> DEFINE a == req[c].array
           n == req[c].len + 1
           cells == Written(arrays[a].cells, n, NewWorker(c))
<1>1. /\ pc[c] = "a_append" /\ Return(c)
      /\ n <= arrays[a].capacity
      /\ arrays' = [arrays EXCEPT ![a].cells = cells]
      /\ Workers' = [array |-> a, len |-> n]
      /\ overwritten' \in BOOLEAN
      /\ UNCHANGED <<m, stored, left, latest, sent, charged, answer>>
  BY DEF AppendInPlace
<1>2. /\ a \in DOMAIN arrays /\ a \in Nat
      /\ arrays[a] \in Array /\ arrays[a].cells \in Seq(Worker)
      /\ Len(arrays[a].cells) \in Nat /\ arrays[a].capacity \in Nat
      /\ Len(arrays[a].cells) <= arrays[a].capacity
      /\ n \in Nat \ {0} /\ n <= Len(arrays[a].cells) + 1
  <2>1. a \in DOMAIN arrays /\ req[c].len <= Len(arrays[a].cells) /\ req[c].len \in Nat
    BY <1>1 DEF IInv, RequestsInOrder, InOrder, TypeOK, Request
  <2> QED
    BY <2>1, ArrayFacts DEF IInv
<1>3. NewWorker(c) \in Worker
  BY NewWorkerType DEF IInv
<1>4. /\ cells \in Seq(Worker) /\ Len(cells) \in Nat
      /\ Len(cells) <= arrays[a].capacity
      /\ Len(arrays[a].cells) <= Len(cells) /\ n <= Len(cells)
  <2>1. /\ cells \in Seq(Worker)
        /\ Len(cells) = IF n <= Len(arrays[a].cells) THEN Len(arrays[a].cells) ELSE n
    <3> HIDE DEF n
    <3>1. PICK w \in Worker : w = NewWorker(c)
      BY <1>3
    <3>2. PICK old \in Seq(Worker) : old = arrays[a].cells
      BY <1>2
    <3>3. n \in Nat \ {0} /\ n <= Len(old) + 1
      BY <1>2, <3>2
    <3> QED
      BY <3>1, <3>2, <3>3, WrittenFacts
  <2> HIDE DEF cells, n
  <2>2. n <= arrays[a].capacity
    BY <1>1
  <2> QED
    BY <1>2, <2>1, <2>2
<1> HIDE DEF cells, n
<1>5. /\ DOMAIN arrays' = DOMAIN arrays
      /\ arrays'[a] = [cells |-> cells, capacity |-> arrays[a].capacity]
      /\ \A b \in DOMAIN arrays \ {a} : arrays'[b] = arrays[b]
  BY <1>1, <1>2 DEF Array
<1>6. arrays' \in Seq(Array)
  <2>1. [arrays[a] EXCEPT !.cells = cells] \in Array
    BY <1>2, <1>4 DEF Array
  <2>2. arrays' = [arrays EXCEPT ![a] = [arrays[a] EXCEPT !.cells = cells]]
    BY <1>1, <1>2
  <2> QED
    BY <1>2, <2>1, <2>2, ReplacedInSeq DEF IInv, TypeOK
<1>7. Grown
  <2>1. Len(arrays[a].cells) <= Len(arrays'[a].cells)
    BY <1>4, <1>5
  <2>2. ASSUME NEW b \in DOMAIN arrays, b # a
        PROVE  Len(arrays[b].cells) <= Len(arrays'[b].cells)
    <3>1. arrays'[b] = arrays[b] /\ Len(arrays[b].cells) \in Nat
      BY <1>5, <2>2, ArrayFacts DEF IInv
    <3> QED
      BY <3>1
  <2> QED
    BY <1>5, <2>1, <2>2 DEF Grown
<1>8. \A b \in DOMAIN arrays' : Len(arrays'[b].cells) <= arrays'[b].capacity
  <2>1. Len(arrays'[a].cells) <= arrays'[a].capacity
    BY <1>4, <1>5
  <2>2. ASSUME NEW b \in DOMAIN arrays, b # a
        PROVE  Len(arrays'[b].cells) <= arrays'[b].capacity
    BY <1>5, <2>2, ArrayFacts DEF IInv
  <2> QED
    BY <1>5, <2>1, <2>2
<1>9. Workers' \in [array : DOMAIN arrays', len : Nat] /\ Workers'.len <= Len(Cells')
  BY <1>1, <1>2, <1>4, <1>5 DEF Cells
<1>10. /\ pc' \in [Clients -> Points] /\ req' \in [Clients -> Request] /\ InOrder(c)'
       /\ \A d \in Clients \ {c} : pc'[d] = pc[d] /\ req'[d] = req[d]
  BY <1>1, ReturnFacts DEF IInv
<1>11. TypeOK'
  BY <1>1, <1>6, <1>8, <1>9, <1>10 DEF IInv, TypeOK, Points
<1>12. TablesSent' /\ sent \subseteq sent'
  BY <1>1 DEF IInv, TablesSent
<1> QED
  BY <1>7, <1>10, <1>11, <1>12, StepIInv

\* A full array is copied to one with room for the worker.
LEMMA AppendToNewArrayIInv ==
  ASSUME IInv, NEW c \in Clients, AppendToNewArray(c)
  PROVE  IInv'
<1> DEFINE a == req[c].array
           n == req[c].len
           cells == Append(arrays[a].cells, NewWorker(c))
           cap == IF n = 0 THEN 1 ELSE 2 * n
           new == [cells |-> cells, capacity |-> cap]
<1>1. /\ pc[c] = "a_append" /\ Return(c)
      /\ n = arrays[a].capacity
      /\ arrays' = Append(arrays, new)
      /\ Workers' = [array |-> Len(arrays) + 1, len |-> n + 1]
      /\ UNCHANGED <<m, stored, left, history>>
  BY DEF AppendToNewArray
<1>2. /\ a \in DOMAIN arrays
      /\ arrays[a].cells \in Seq(Worker)
      /\ n \in Nat /\ Len(arrays[a].cells) = n
  <2>1. a \in DOMAIN arrays /\ n <= Len(arrays[a].cells) /\ n \in Nat
    BY <1>1 DEF IInv, RequestsInOrder, InOrder, TypeOK, Request
  <2> QED
    BY <1>1, <2>1, ArrayFacts DEF IInv
<1>3. NewWorker(c) \in Worker
  BY NewWorkerType DEF IInv
<1>4. /\ cells \in Seq(Worker) /\ Len(cells) = n + 1
      /\ cap \in Nat /\ Len(cells) <= cap
  BY <1>2, <1>3
<1> HIDE DEF cells, cap
<1>5. new \in Array /\ new.cells = cells /\ new.capacity = cap
  BY <1>4 DEF Array
<1> HIDE DEF new
<1>6. arrays \in Seq(Array)
  BY DEF IInv, TypeOK
<1>7. /\ arrays' \in Seq(Array)
      /\ DOMAIN arrays' = DOMAIN arrays \cup {Len(arrays) + 1}
      /\ arrays'[Len(arrays) + 1] = new
      /\ \A b \in DOMAIN arrays : arrays'[b] = arrays[b]
  BY <1>1, <1>5, <1>6
<1>8. Grown
  BY <1>7, ArrayFacts DEF Grown, IInv
<1>9. \A b \in DOMAIN arrays' : Len(arrays'[b].cells) <= arrays'[b].capacity
  <2> TAKE b \in DOMAIN arrays'
  <2>1. CASE b = Len(arrays) + 1
    BY <1>4, <1>5, <1>7, <2>1
  <2>2. CASE b \in DOMAIN arrays
    BY <1>7, <2>2, ArrayFacts DEF IInv
  <2> QED
    BY <1>7, <2>1, <2>2
<1>10. Workers' \in [array : DOMAIN arrays', len : Nat] /\ Workers'.len <= Len(Cells')
  BY <1>1, <1>2, <1>4, <1>5, <1>7 DEF Cells
<1>11. /\ pc' \in [Clients -> Points] /\ req' \in [Clients -> Request] /\ InOrder(c)'
       /\ \A d \in Clients \ {c} : pc'[d] = pc[d] /\ req'[d] = req[d]
  BY <1>1, ReturnFacts DEF IInv
<1>12. TypeOK'
  BY <1>1, <1>7, <1>9, <1>10, <1>11 DEF IInv, TypeOK, Points, history
<1>13. TablesSent' /\ sent \subseteq sent'
  BY <1>1 DEF IInv, TablesSent, history
<1> QED
  BY <1>8, <1>11, <1>12, <1>13, StepIInv

\* The cell that selected_worker points to exists when its Rem is written.
LEMMA ChargeIInv ==
  ASSUME IInv, NEW c \in Clients, Charge(c)
  PROVE  IInv'
<1> DEFINE a == req[c].array
           i == req[c].index
<1>1. /\ pc[c] = "s_charge" /\ Return(c)
      /\ arrays' = [arrays EXCEPT ![a].cells[i].Rem = Charged(c)]
      /\ UNCHANGED <<Workers, m, stored, left, history>>
  BY DEF Charge
<1>2. /\ a \in DOMAIN arrays /\ i \in 1 .. Len(arrays[a].cells)
      /\ <<req[c].key, req[c].value>> \in sent
  BY <1>1 DEF IInv, RequestsInOrder, InOrder, PointerPoints, StorePoints
<1>3. /\ arrays[a] \in Array /\ arrays[a].cells \in Seq(Worker)
      /\ Len(arrays[a].cells) \in Nat /\ arrays[a].capacity \in Nat
  BY <1>2, ArrayFacts DEF IInv
<1>4. Charged(c) \in Int
  <2>1. req[c].value \in Nat /\ req[c].Rem \in Int
    BY <1>2, ConstantsAssumption DEF IInv, TypeOK, Request
  <2> QED
    BY <2>1 DEF Charged
<1>5. PICK w \in Worker : w = [arrays[a].cells[i] EXCEPT !.Rem = Charged(c)]
  <2>1. arrays[a].cells[i] \in Worker
    BY <1>2, <1>3
  <2> QED
    BY <1>4, <2>1 DEF Worker
<1>6. PICK cells \in Seq(Worker) : /\ cells = [arrays[a].cells EXCEPT ![i] = w]
                                   /\ Len(cells) = Len(arrays[a].cells)
  <2>1. i \in DOMAIN arrays[a].cells
    BY <1>2, <1>3
  <2>2. PICK old \in Seq(Worker) : old = arrays[a].cells
    BY <1>3
  <2>3. PICK j \in DOMAIN old : j = i
    BY <2>1, <2>2
  <2>4. [old EXCEPT ![j] = w] \in Seq(Worker) /\ Len([old EXCEPT ![j] = w]) = Len(old)
    BY ReplacedInSeq
  <2> QED
    BY <2>2, <2>3, <2>4
<1>7. arrays' = [arrays EXCEPT ![a] = [arrays[a] EXCEPT !.cells = cells]]
  BY <1>1, <1>2, <1>3, <1>5, <1>6 DEF IInv, TypeOK, Array
<1>8. /\ arrays' \in Seq(Array) /\ DOMAIN arrays' = DOMAIN arrays
      /\ arrays'[a] = [cells |-> cells, capacity |-> arrays[a].capacity]
      /\ \A b \in DOMAIN arrays \ {a} : arrays'[b] = arrays[b]
  <2>1. [arrays[a] EXCEPT !.cells = cells] \in Array
    BY <1>3 DEF Array
  <2>2. arrays' \in Seq(Array) /\ DOMAIN arrays' = DOMAIN arrays
    BY <1>2, <1>7, <2>1, ReplacedInSeq DEF IInv, TypeOK
  <2> QED
    BY <1>2, <1>3, <1>7, <2>2 DEF Array
<1>9. \A b \in DOMAIN arrays : Len(arrays'[b].cells) = Len(arrays[b].cells)
                               /\ arrays'[b].capacity = arrays[b].capacity
  <2>1. Len(arrays'[a].cells) = Len(arrays[a].cells) /\ arrays'[a].capacity = arrays[a].capacity
    BY <1>6, <1>8
  <2> QED
    BY <1>8, <2>1
<1>10. Grown
  <2>1. \A b \in DOMAIN arrays : Len(arrays[b].cells) <= Len(arrays[b].cells)
    BY ArrayFacts DEF IInv
  <2> QED
    BY <1>8, <1>9, <2>1 DEF Grown
<1>11. \A b \in DOMAIN arrays' : Len(arrays'[b].cells) <= arrays'[b].capacity
  BY <1>8, <1>9 DEF IInv, TypeOK
<1>12. Workers' \in [array : DOMAIN arrays', len : Nat] /\ Workers'.len <= Len(Cells')
  BY <1>1, <1>8, <1>9 DEF IInv, TypeOK, Cells
<1>13. /\ pc' \in [Clients -> Points] /\ req' \in [Clients -> Request] /\ InOrder(c)'
       /\ \A d \in Clients \ {c} : pc'[d] = pc[d] /\ req'[d] = req[d]
  BY <1>1, ReturnFacts DEF IInv
<1>14. TypeOK'
  BY <1>1, <1>8, <1>11, <1>12, <1>13 DEF IInv, TypeOK, Points, history
<1>15. TablesSent' /\ sent \subseteq sent'
  BY <1>1 DEF IInv, TablesSent, history
<1> QED
  BY <1>10, <1>13, <1>14, <1>15, StepIInv

\* Every step keeps the invariant.
LEMMA NextIInv == IInv /\ [Next]_vars => IInv'
<1> SUFFICES ASSUME IInv, [Next]_vars PROVE IInv'
  OBVIOUS
<1>1. CASE UNCHANGED vars
  BY <1>1 DEF vars, proxy, request, history, IInv, TypeOK, Cells, RequestsInOrder,
              InOrder, TablesSent
<1>2. ASSUME NEW c \in Clients, Step(c) PROVE IInv'
  BY <1>2, ReturnsIInv, ReadsIInv, RecordKeyIInv, WorkerStoresIInv, ReplyIInv,
     AppendInPlaceIInv, AppendToNewArrayIInv, ChargeIInv DEF Step
<1>3. ASSUME Next PROVE IInv'
  BY <1>2, <1>3, AddWorkerIInv, StoreValueIInv, GetValueIInv, RestartIInv DEF Next
<1> QED
  BY <1>1, <1>3

\* The inductive invariant holds in every state.
LEMMA Invariance == Spec => []IInv
BY InitIInv, NextIInv, PTL DEF Spec

\* Every variable keeps its type, and whatever the slice, the map and the
\* requests point to exists: no index of proxy.go is out of range but the one of
\* NoWorker, however requests, failures and restarts interleave.
THEOREM TypeCorrect == Spec => []TypeOK
<1>1. IInv => TypeOK
  BY DEF IInv
<1> QED
  BY <1>1, Invariance, PTL

------------------------------------------------------------------------------
(* NothingInvented *)

\* Nothing is answered at first.
LEMMA InitNothingInvented == Init => NothingInvented
BY DEF Init, NothingInvented

\* Every step keeps NothingInvented: a worker finds what was sent to it.
LEMMA NextNothingInvented ==
  IInv /\ NothingInvented /\ [Next]_vars => NothingInvented'
<1> SUFFICES ASSUME IInv, NothingInvented, [Next]_vars PROVE NothingInvented'
  OBVIOUS
<1>1. ASSUME UNCHANGED answer, sent \subseteq sent' PROVE NothingInvented'
  BY <1>1 DEF NothingInvented
<1>2. ASSUME NEW c \in Clients, UnknownKey(c) \/ WorkerGets(c) \/ GetFails(c)
      PROVE  NothingInvented'
  <2>1. sent' = sent
    BY <1>2 DEF UnknownKey, WorkerGets, GetFails
  <2>2. PICK v : /\ Answer(c, v)
                 /\ v # NoValue => \E k \in Keys : Same(k, req[c].key) /\ <<k, v>> \in sent
    <3>1. CASE UnknownKey(c) \/ GetFails(c)
      BY <3>1 DEF UnknownKey, GetFails
    <3>2. CASE WorkerGets(c)
      <4>1. req[c].loc \in Locs
        BY <3>2 DEF WorkerGets, IInv, TypeOK, Request
      <4>2. Found(c) # NoValue =>
              \E k \in Keys : Same(k, req[c].key) /\ <<k, Found(c)>> \in sent
        BY <4>1 DEF Found, IInv, TablesSent, Same
      <4> QED
        BY <3>2, <4>2 DEF WorkerGets
    <3> QED
      BY <1>2, <3>1, <3>2
  <2>3. answer'[c] = [key |-> req[c].key, value |-> v, known |-> req[c].known]
    BY <2>2 DEF Answer, IInv, TypeOK
  <2>4. \A d \in Clients \ {c} : answer'[d] = answer[d]
    BY <2>2 DEF Answer, IInv, TypeOK
  <2> QED
    <3> SUFFICES ASSUME NEW d \in Clients, answer'[d].value # NoValue
                 PROVE  \E k \in Keys : /\ Same(k, answer'[d].key)
                                        /\ <<k, answer'[d].value>> \in sent'
      BY DEF NothingInvented, Same
    <3>1. CASE d = c
      BY <2>1, <2>2, <2>3, <3>1
    <3>2. CASE d # c
      <4>1. answer'[d] = answer[d]
        BY <2>4, <3>2
      <4> QED
        BY <2>1, <4>1 DEF NothingInvented
    <3> QED
      BY <3>1, <3>2
<1>3. ASSUME NEW c \in Clients, Step(c), ~ (UnknownKey(c) \/ WorkerGets(c) \/ GetFails(c))
      PROVE  UNCHANGED <<answer, sent>>
  BY <1>3 DEF Step, AppendInPlace, AppendToNewArray, MostLeisureWorker, SelectWorker,
     NoWorker, RecordKey, Post, WorkerStores, NotStored, PostFails, Reply, Charge, Lookup,
     history
<1>4. CASE UNCHANGED vars
  BY <1>1, <1>4 DEF vars, history
<1>5. ASSUME Next PROVE NothingInvented'
  BY <1>1, <1>2, <1>3, <1>5 DEF Next, AddWorker, StoreValue, GetValue, WorkerRestarts, history
<1> QED
  BY <1>4, <1>5

\* A get answers nothing or a value that a store of that key has carried, or of one
\* that a worker takes for the same (proxy.go:67, 106), whichever stores, gets, failures and restarts of the workers came between.
THEOREM NothingIsInvented == Spec => []NothingInvented
BY Invariance, InitNothingInvented, NextNothingInvented, PTL DEF Spec

------------------------------------------------------------------------------
(* MappedWorkerHasKey *)

\* The part of OnItsWay that one request has.
Carries(c, k, loc) ==
  /\ req[c].key = k
  /\ \/ pc[c] = "s_post" /\ Selected(c).Loc = loc
     \/ pc[c] = "s_sent" /\ req[c].loc = loc

\* No worker that some array holds becomes another one.
AddressesKept ==
  \A a \in DOMAIN arrays : \A i \in 1 .. Len(arrays[a].cells) :
    arrays'[a].cells[i].Loc = arrays[a].cells[i].Loc

\* As long as append has room behind what others have appended, the addresses
\* in the arrays stay.
LEMMA NextAddressesKept ==
  ASSUME IInv, Next, ~ overwritten'
  PROVE  AddressesKept /\ ~ overwritten
<1>1. ASSUME UNCHANGED <<arrays, overwritten>> PROVE AddressesKept /\ ~ overwritten
  BY <1>1 DEF AddressesKept
<1>2. ASSUME NEW c \in Clients, AppendInPlace(c) PROVE AddressesKept /\ ~ overwritten
  <2> DEFINE a == req[c].array
             n == req[c].len + 1
             cells == Written(arrays[a].cells, n, NewWorker(c))
  <2>1. /\ pc[c] = "a_append"
        /\ arrays' = [arrays EXCEPT ![a].cells = cells]
        /\ ~ overwritten /\ ~ (n <= Len(arrays[a].cells))
    BY <1>2 DEF AppendInPlace
  <2>2. /\ a \in DOMAIN arrays /\ req[c].len <= Len(arrays[a].cells)
        /\ req[c].len \in Nat
    BY <2>1 DEF IInv, RequestsInOrder, InOrder, TypeOK, Request
  <2>3. PICK old \in Seq(Worker) : old = arrays[a].cells
    BY <2>2, ArrayFacts DEF IInv
  <2>4. PICK w \in Worker : w = NewWorker(c)
    BY NewWorkerType DEF IInv
  <2>5. n \in Nat \ {0} /\ n <= Len(old) + 1 /\ n \notin 1 .. Len(old)
    BY <2>1, <2>2, <2>3
  <2> HIDE DEF n
  <2>6. \A i \in 1 .. Len(old) : Written(old, n, w)[i] = old[i]
    BY <2>5, WrittenFacts
  <2>7. arrays[a] \in Array /\ \A b \in DOMAIN arrays \ {a} : arrays'[b] = arrays[b]
    BY <2>1, <2>2, ArrayFacts DEF IInv
  <2>8. arrays'[a].cells = cells
    BY <2>1, <2>2, <2>7 DEF Array
  <2>9. ASSUME NEW b \in DOMAIN arrays, NEW i \in 1 .. Len(arrays[b].cells)
        PROVE  arrays'[b].cells[i].Loc = arrays[b].cells[i].Loc
    BY <2>3, <2>4, <2>6, <2>7, <2>8, <2>9
  <2> QED
    BY <2>1, <2>9 DEF AddressesKept
<1>3. ASSUME NEW c \in Clients, AppendToNewArray(c) PROVE AddressesKept /\ ~ overwritten
  <2>1. PICK e : arrays' = Append(arrays, e)
    BY <1>3 DEF AppendToNewArray
  <2>2. \A a \in DOMAIN arrays : arrays'[a] = arrays[a]
    BY <2>1 DEF IInv, TypeOK
  <2> QED
    BY <1>3, <2>2 DEF AddressesKept, AppendToNewArray, history
<1>4. ASSUME NEW c \in Clients, Charge(c) PROVE AddressesKept /\ ~ overwritten
  <2> DEFINE a == req[c].array
             i == req[c].index
  <2>1. /\ pc[c] = "s_charge" /\ UNCHANGED overwritten
        /\ arrays' = [arrays EXCEPT ![a].cells[i].Rem = Charged(c)]
    BY <1>4 DEF Charge, history
  <2>2. a \in DOMAIN arrays /\ i \in 1 .. Len(arrays[a].cells)
    BY <2>1 DEF IInv, RequestsInOrder, InOrder, PointerPoints
  <2>3. arrays[a] \in Array /\ arrays[a].cells \in Seq(Worker)
    BY <2>2, ArrayFacts DEF IInv
  <2>4. arrays[a].cells[i] \in Worker
    BY <2>2, <2>3
  <2>5. /\ \A b \in DOMAIN arrays \ {a} : arrays'[b] = arrays[b]
        /\ arrays'[a].cells = [arrays[a].cells EXCEPT ![i].Rem = Charged(c)]
    BY <2>1, <2>2, <2>3 DEF Array
  <2>6. /\ \A j \in 1 .. Len(arrays[a].cells) :
             j # i => arrays'[a].cells[j] = arrays[a].cells[j]
        /\ arrays'[a].cells[i] = [arrays[a].cells[i] EXCEPT !.Rem = Charged(c)]
    BY <2>2, <2>3, <2>5
  <2>7. arrays'[a].cells[i].Loc = arrays[a].cells[i].Loc
    BY <2>4, <2>6 DEF Worker
  <2>8. \A j \in 1 .. Len(arrays[a].cells) :
          arrays'[a].cells[j].Loc = arrays[a].cells[j].Loc
    BY <2>6, <2>7
  <2> QED
    BY <2>1, <2>5, <2>8 DEF AddressesKept
<1>5. ASSUME NEW c \in Clients, Step(c) PROVE AddressesKept /\ ~ overwritten
  <2>1. CASE AppendInPlace(c) \/ AppendToNewArray(c) \/ Charge(c)
    BY <2>1, <1>2, <1>3, <1>4
  <2>2. CASE ~ (AppendInPlace(c) \/ AppendToNewArray(c) \/ Charge(c))
    <3>1. UNCHANGED <<arrays, overwritten>>
      BY <1>5, <2>2 DEF Step, MostLeisureWorker, SelectWorker, NoWorker, RecordKey, Post,
         WorkerStores, NotStored, PostFails, Reply, Lookup, UnknownKey, WorkerGets, GetFails,
         history, proxy
    <3> QED
      BY <1>1, <3>1
  <2> QED
    BY <2>1, <2>2
<1> QED
  BY <1>1, <1>5 DEF Next, AddWorker, StoreValue, GetValue, WorkerRestarts, history, proxy

\* A request that is left alone carries what it carried.
LEMMA CarriesKept ==
  ASSUME IInv, AddressesKept, NEW d \in Clients, pc'[d] = pc[d], req'[d] = req[d],
         NEW k, NEW loc, Carries(d, k, loc)
  PROVE  Carries(d, k, loc)'
<1>1. CASE pc[d] = "s_post"
  <2>1. req[d].array \in DOMAIN arrays /\ req[d].index \in 1 .. Len(arrays[req[d].array].cells)
    BY <1>1 DEF IInv, RequestsInOrder, InOrder, PointerPoints
  <2> QED
    BY <1>1, <2>1 DEF Carries, AddressesKept, Selected
<1>2. CASE pc[d] = "s_sent"
  BY <1>2 DEF Carries
<1> QED
  BY <1>1, <1>2 DEF Carries

\* Every step keeps MappedWorkerHasKey: the tables of the workers that do not fail
\* lose no key, and a store that carries a key goes on to the worker in m.
LEMMA NextMapped ==
  IInv /\ MappedWorkerHasKey /\ [Next]_vars => MappedWorkerHasKey'
<1> SUFFICES ASSUME IInv, MappedWorkerHasKey, Next PROVE MappedWorkerHasKey'
  BY DEF vars, proxy, request, history, MappedWorkerHasKey, HasOrGets, OnItsWay, Selected
<1> SUFFICES ASSUME ~ overwritten' PROVE \A k \in DOMAIN m' : StoredAs[k] \in Keys => HasOrGets(k)'
  BY DEF MappedWorkerHasKey
<1>1. AddressesKept /\ ~ overwritten
  BY NextAddressesKept
<1>2. \A k \in DOMAIN m : StoredAs[k] \in Keys => HasOrGets(k)
  BY <1>1 DEF MappedWorkerHasKey
<1>3. \A k, loc : /\ OnItsWay(k, loc) <=> \E c \in Clients : Carries(c, k, loc)
                  /\ OnItsWay(k, loc)' <=> \E c \in Clients : Carries(c, k, loc)'
  BY DEF OnItsWay, Carries
\* The proxy's map is left alone.
<1>4. ASSUME NEW k \in DOMAIN m, m'[k] = m[k], StoredAs[k] \in Keys,
             m[k] \in Locs \ Failing /\ StoredAs[k] \in DOMAIN stored[m[k]]
               => StoredAs[k] \in DOMAIN stored'[m[k]],
             \A d \in Clients : m[k] \in Locs \ Failing /\ Carries(d, k, m[k])
               => Carries(d, k, m[k])' \/ StoredAs[k] \in DOMAIN stored'[m[k]]
      PROVE  HasOrGets(k)'
  <2> DEFINE l == m[k]
  <2>1. HasOrGets(k)
    BY <1>2, <1>4
  <2>2. PICK loc : loc = l
    OBVIOUS
  <2>3. l \in Locs \ Failing => StoredAs[k] \in DOMAIN stored'[loc] \/ OnItsWay(k, loc)'
    BY <1>3, <1>4, <2>1, <2>2 DEF HasOrGets
  <2> QED
    BY <1>4, <2>2, <2>3 DEF HasOrGets, OnItsWay
<1>5. ASSUME NEW c \in Clients, m' = m,
             \A d \in Clients \ {c} : pc'[d] = pc[d] /\ req'[d] = req[d],
             \A l \in Locs \ Failing : DOMAIN stored[l] \subseteq DOMAIN stored'[l],
             \A k : \A l \in Locs \ Failing : StoredAs[k] \in Keys /\ Carries(c, k, l)
               => Carries(c, k, l)' \/ StoredAs[k] \in DOMAIN stored'[l]
      PROVE  \A k \in DOMAIN m' : StoredAs[k] \in Keys => HasOrGets(k)'
  <2> TAKE k \in DOMAIN m'
  <2> HAVE StoredAs[k] \in Keys
  <2> DEFINE l == m[k]
  <2>1. k \in DOMAIN m /\ m'[k] = m[k]
    BY <1>5
  <2>2. ASSUME NEW d \in Clients, l \in Locs \ Failing, Carries(d, k, l)
        PROVE  Carries(d, k, l)' \/ StoredAs[k] \in DOMAIN stored'[l]
    <3>1. PICK loc \in Locs \ Failing : loc = l
      BY <2>2
    <3> QED
      BY <1>1, <1>5, <2>2, <3>1, CarriesKept
  <2> QED
    BY <1>4, <1>5, <2>1, <2>2
<1>6. ASSUME NEW c \in Clients, RecordKey(c)
      PROVE  \A k \in DOMAIN m' : StoredAs[k] \in Keys => HasOrGets(k)'
  <2> DEFINE key == req[c].key
  <2>1. /\ UNCHANGED <<arrays, stored, req>>
        /\ pc[c] = "s_record" /\ pc' = [pc EXCEPT ![c] = "s_post"]
        /\ m' = With(m, key, Selected(c).Loc)
    BY <1>6 DEF RecordKey, Go
  <2>2. pc'[c] = "s_post" /\ \A d \in Clients \ {c} : pc'[d] = pc[d] /\ req'[d] = req[d]
    BY <2>1 DEF IInv, TypeOK
  <2> TAKE k \in DOMAIN m'
  <2> HAVE StoredAs[k] \in Keys
  <2>3. CASE k = key
    <3>1. PICK loc : loc = m'[k]
      OBVIOUS
    <3>2. Carries(c, k, loc)'
      BY <2>1, <2>2, <2>3, <3>1 DEF With, Carries, Selected
    <3> QED
      BY <3>1, <3>2 DEF HasOrGets, OnItsWay, Carries
  <2>4. CASE k # key
    <3>1. k \in DOMAIN m /\ m'[k] = m[k]
      BY <2>1, <2>4 DEF With
    <3>2. PICK l : l = m[k]
      OBVIOUS
    <3>3. ASSUME NEW d \in Clients, Carries(d, k, l) PROVE Carries(d, k, l)'
      BY <1>1, <2>1, <2>2, <3>3, CarriesKept DEF Carries
    <3> QED
      BY <1>4, <2>1, <3>1, <3>2, <3>3
  <2> QED
    BY <2>3, <2>4
<1>7. ASSUME NEW c \in Clients, WorkerStores(c)
      PROVE  \A k \in DOMAIN m' : StoredAs[k] \in Keys => HasOrGets(k)'
  <2>1. /\ UNCHANGED <<arrays, m, req>>
        /\ pc[c] = "s_sent" /\ pc' = [pc EXCEPT ![c] = "s_reply"]
        /\ stored' = [stored EXCEPT ![req[c].loc]
                        = With(stored[req[c].loc], StoredAs[req[c].key], req[c].value)]
    BY <1>7 DEF WorkerStores, Go, proxy, TableAfter
  <2>2. \A d \in Clients \ {c} : pc'[d] = pc[d] /\ req'[d] = req[d]
    BY <2>1 DEF IInv, TypeOK
  <2>3. \A l \in Locs : DOMAIN stored'[l] = DOMAIN stored[l] \cup
                          (IF l = req[c].loc THEN {StoredAs[req[c].key]} ELSE {})
    BY <2>1 DEF IInv, TypeOK, With
  <2>4. ASSUME NEW k, NEW l \in Locs \ Failing, Carries(c, k, l)
        PROVE  StoredAs[k] \in DOMAIN stored'[l]
    BY <2>1, <2>3, <2>4 DEF Carries
  <2> QED
    BY <1>5, <2>1, <2>2, <2>3, <2>4
<1>8. ASSUME NEW c \in Clients, Post(c)
      PROVE  \A k \in DOMAIN m' : StoredAs[k] \in Keys => HasOrGets(k)'
  <2>1. /\ UNCHANGED <<arrays, m, stored>>
        /\ pc[c] = "s_post" /\ pc' = [pc EXCEPT ![c] = "s_sent"]
        /\ req' = [req EXCEPT ![c].loc = Selected(c).Loc]
    BY <1>8 DEF Post, Go, proxy
  <2>2. /\ \A d \in Clients \ {c} : pc'[d] = pc[d] /\ req'[d] = req[d]
        /\ pc'[c] = "s_sent" /\ req'[c].key = req[c].key
        /\ req'[c].loc = Selected(c).Loc
    BY <2>1 DEF IInv, TypeOK, Request
  <2>3. ASSUME NEW k, NEW l \in Locs \ Failing, Carries(c, k, l)
        PROVE  Carries(c, k, l)'
    BY <2>1, <2>2, <2>3 DEF Carries
  <2> QED
    BY <1>5, <2>1, <2>2, <2>3
\* A request that ends without its store was refused or went to a worker that fails.
<1>9. ASSUME NEW c \in Clients, PostFails(c) \/ NotStored(c)
      PROVE  \A k \in DOMAIN m' : StoredAs[k] \in Keys => HasOrGets(k)'
  <2>1. /\ UNCHANGED <<m, stored>> /\ Return(c) /\ pc[c] \in {"s_sent", "s_reply"}
        /\ req[c].loc \in Failing \cup {NoLoc} \/ StoredAs[req[c].key] \notin Keys
    BY <1>9, ConstantsAssumption DEF PostFails, NotStored, proxy, MayFail
  <2>2. \A d \in Clients \ {c} : pc'[d] = pc[d] /\ req'[d] = req[d]
    BY <2>1, ReturnFacts DEF IInv
  <2>3. ASSUME NEW k, NEW l \in Locs \ Failing, Carries(c, k, l), StoredAs[k] \in Keys
        PROVE  Carries(c, k, l)'
    <3>1. pc[c] = "s_sent" /\ req[c].loc = l /\ req[c].key = k
      BY <2>1, <2>3 DEF Carries
    <3> QED
      BY <2>1, <2>3, <3>1, ConstantsAssumption
  <2> QED
    BY <1>5, <2>1, <2>2, <2>3
\* The other steps are of requests that carry nothing.
<1>10. ASSUME NEW c \in Clients, pc[c] \notin {"s_post", "s_sent"}, m' = m, stored' = stored,
              \A d \in Clients \ {c} : pc'[d] = pc[d] /\ req'[d] = req[d]
       PROVE  \A k \in DOMAIN m' : StoredAs[k] \in Keys => HasOrGets(k)'
  BY <1>5, <1>10 DEF Carries
<1>11. ASSUME NEW c \in Clients, Step(c)
       PROVE  \A k \in DOMAIN m' : StoredAs[k] \in Keys => HasOrGets(k)'
  <2>1. CASE \/ RecordKey(c) \/ WorkerStores(c) \/ Post(c)
             \/ PostFails(c) \/ NotStored(c)
    BY <2>1, <1>6, <1>7, <1>8, <1>9
  <2>2. CASE \/ AppendInPlace(c) \/ AppendToNewArray(c) \/ NoWorker(c) \/ Charge(c)
             \/ UnknownKey(c) \/ WorkerGets(c) \/ GetFails(c)
    <3>1. /\ Return(c) /\ m' = m /\ stored' = stored /\ pc[c] \notin {"s_post", "s_sent"}
      BY <2>2 DEF AppendInPlace, AppendToNewArray, NoWorker, NoSuchWorker, Charge,
         UnknownKey, WorkerGets, GetFails, proxy
    <3> QED
      BY <1>10, <3>1, ReturnFacts DEF IInv
  <2>3. CASE MostLeisureWorker(c) \/ SelectWorker(c) \/ Reply(c) \/ Lookup(c)
    <3>1. m' = m /\ stored' = stored /\ pc[c] \notin {"s_post", "s_sent"}
      BY <2>3 DEF MostLeisureWorker, SelectWorker, Reply, Lookup, Go, proxy
    <3>2. \A d \in Clients \ {c} : pc'[d] = pc[d] /\ req'[d] = req[d]
      BY <2>3 DEF MostLeisureWorker, SelectWorker, Reply, Lookup, Go, IInv, TypeOK
    <3> QED
      BY <1>10, <3>1, <3>2
  <2> QED
    BY <1>11, <2>1, <2>2, <2>3 DEF Step
<1>12. ASSUME NEW c \in Clients, NEW p, NEW r, p # "idle", Arrives(c, p, r),
              m' = m, stored' = stored
       PROVE  \A k \in DOMAIN m' : StoredAs[k] \in Keys => HasOrGets(k)'
  <2>1. \A d \in Clients \ {c} : pc'[d] = pc[d] /\ req'[d] = req[d]
    BY <1>12 DEF Arrives, Go, IInv, TypeOK
  <2> QED
    BY <1>10, <1>12, <2>1 DEF Arrives, Go
<1>13. ASSUME NEW c \in Clients,
              \/ \E loc \in Locs \cup {NoLoc} : AddWorker(c, loc)
              \/ \E k \in Keys, v \in Values : StoreValue(c, k, v)
              \/ \E k \in Keys : GetValue(c, k)
       PROVE  \A k \in DOMAIN m' : StoredAs[k] \in Keys => HasOrGets(k)'
  BY <1>12, <1>13 DEF AddWorker, StoreValue, GetValue, proxy
<1>14. ASSUME NEW loc \in Failing, WorkerRestarts(loc)
       PROVE  \A k \in DOMAIN m' : StoredAs[k] \in Keys => HasOrGets(k)'
  <2>1. /\ UNCHANGED <<m, pc, req>>
        /\ \A l \in Locs \ Failing : stored'[l] = stored[l]
    BY <1>14, ConstantsAssumption DEF WorkerRestarts, proxy, request, IInv, TypeOK
  <2> TAKE k \in DOMAIN m'
  <2> HAVE StoredAs[k] \in Keys
  <2>2. \A d \in Clients : Carries(d, k, m[k]) => Carries(d, k, m[k])'
    <3>1. PICK l : l = m[k]
      OBVIOUS
    <3> QED
      BY <1>1, <2>1, <3>1, CarriesKept
  <2> QED
    BY <1>4, <2>1, <2>2
<1> QED
  BY <1>11, <1>13, <1>14 DEF Next

\* For a key that a worker's handler takes (proxy.go:106), m names a worker that has
\* it, or a store is on its way there, or the worker fails: whatever requests, failures and restarts come between, as long
\* as no append writes over the worker of another one.
THEOREM MappedKeysAreKept == Spec => []MappedWorkerHasKey
<1>1. Init => MappedWorkerHasKey
  BY DEF Init, MappedWorkerHasKey
<1> QED
  BY <1>1, Invariance, NextMapped, PTL DEF Spec
------------------------------------------------------------------------------
(* KeepsPromise, for one client and workers that do not fail.              *)

TakeTurns == (\A c, d \in Clients : c = d) /\ Failing = {} /\ ~ Malformed

\* Where m names a worker before the key is there.
Placing == {"s_post", "s_sent", "s_reply"}

\* Every worker has an address.
Addressed ==
  /\ \A a \in DOMAIN arrays : \A i \in 1 .. Len(arrays[a].cells) :
       arrays[a].cells[i].Loc \in Locs
  /\ \A c \in Clients : pc[c] = "a_append" => req[c].loc \in Locs
  /\ \A k \in DOMAIN m : m[k] \in Locs

\* How far a store has placed its key, and where a get looks for one.
OnPlace(c) ==
  /\ pc[c] \in Placing => req[c].key \in DOMAIN m
  /\ pc[c] = "s_post" => m[req[c].key] = Selected(c).Loc
  /\ pc[c] \in {"s_sent", "s_reply"} => m[req[c].key] = req[c].loc
  /\ pc[c] = "s_reply" =>
       /\ StoredAs[req[c].key] \in DOMAIN stored[req[c].loc]
       /\ stored[req[c].loc][StoredAs[req[c].key]] = req[c].value
  /\ pc[c] = "g_fetch" => req[c].key \in DOMAIN m /\ m[req[c].key] = req[c].loc

\* What a get of a key finds.
Finds(k) == IF k \in DOMAIN m /\ SoughtAs[k] \in DOMAIN stored[m[k]]
              THEN stored[m[k]][SoughtAs[k]] ELSE NoValue

\* What a get of a key may answer once the store that a worker has is answered.
Permits(k) == latest[k] \cup {v \in Values :
                \E c \in Clients : /\ pc[c] = "s_reply" /\ req[c].value = v
                                   /\ Same(req[c].key, k)}

\* A key that workers take is found with a value that is permitted, but while a
\* store places it; one that they do not take has never been stored, so nothing
\* is a right answer, and what it may be taken for is.
Agrees(k) ==
  IF StoredAs[k] \in Keys
    THEN \/ Finds(k) \in Permits(k)
         \/ \E c \in Clients : pc[c] \in Placing /\ req[c].key = k
    ELSE /\ NoValue \in latest[k]
         /\ \A loc \in Locs : SoughtAs[k] \in DOMAIN stored[loc] =>
              stored[loc][SoughtAs[k]] \in Permits(k)

FindsLatest == \A k \in Keys : Agrees(k)

InTurn == Addressed /\ (\A c \in Clients : OnPlace(c)) /\ FindsLatest

\* Nothing is stored at first, and nothing is found.
LEMMA InitInTurn == Init => InTurn
BY DEF Init, InTurn, Addressed, OnPlace, FindsLatest, Agrees, Permits, Finds, Placing

\* Steps that leave the keys and the tables as they are.
LEMMA StaysInTurn ==
  ASSUME TakeTurns, InTurn, NEW c \in Clients, Addressed', UNCHANGED <<m, stored, latest>>,
         pc[c] \notin Placing, pc'[c] \notin Placing,
         pc'[c] = "g_fetch" => req'[c].key \in DOMAIN m /\ m[req'[c].key] = req'[c].loc
  PROVE  InTurn'
BY DEF TakeTurns, InTurn, OnPlace, FindsLatest, Agrees, Permits, Finds, Placing

\* The arrays stay, and a request to add a worker carries an address.
LEMMA StaysAddressed ==
  ASSUME TakeTurns, InTurn, NEW c \in Clients, UNCHANGED <<arrays, m>>,
         pc'[c] = "a_append" => req'[c].loc \in Locs
  PROVE  Addressed'
BY DEF TakeTurns, InTurn, Addressed

\* A request arrives.
LEMMA ArrivesInTurn ==
  ASSUME TakeTurns, IInv, InTurn, NEW c \in Clients,
         \/ \E loc \in Locs \cup {NoLoc} : AddWorker(c, loc)
         \/ \E k \in Keys, v \in Values : StoreValue(c, k, v)
         \/ \E k \in Keys : GetValue(c, k)
  PROVE  InTurn' /\ UNCHANGED <<latest, answer>>
<1>1. /\ UNCHANGED <<arrays, m, stored, latest, answer>> /\ pc[c] = "idle"
      /\ pc'[c] \in {"a_append", "s_select", "g_lookup"}
  BY DEF AddWorker, StoreValue, GetValue, Arrives, Go, proxy, history, IInv, TypeOK
<1>2. pc'[c] = "a_append" => req'[c].loc \in Locs
  <2>1. CASE \E loc \in Locs \cup {NoLoc} : AddWorker(c, loc)
    <3>1. PICK loc \in Locs :
            req' = [req EXCEPT ![c] = [NoReq EXCEPT !.loc = loc, !.array = Workers.array,
                                                    !.len = Workers.len]]
      BY <2>1 DEF AddWorker, Arrives, TakeTurns
    <3>2. req'[c].loc = loc
      BY <3>1 DEF IInv, TypeOK, NoReq
    <3> QED
      BY <3>2
  <2>2. CASE \/ \E k \in Keys, v \in Values : StoreValue(c, k, v)
             \/ \E k \in Keys : GetValue(c, k)
    BY <2>2 DEF StoreValue, GetValue, Arrives, Go, IInv, TypeOK
  <2> QED
    BY <2>1, <2>2
<1>3. Addressed'
  BY <1>1, <1>2, StaysAddressed
<1> QED
  BY <1>1, <1>3, StaysInTurn DEF Placing

\* Steps that append a worker.
LEMMA AppendInTurn ==
  ASSUME TakeTurns, IInv, InTurn, NEW c \in Clients, AppendInPlace(c) \/ AppendToNewArray(c)
  PROVE  InTurn' /\ UNCHANGED <<latest, answer>>
<1>1. /\ UNCHANGED <<m, stored, latest, answer>> /\ pc[c] = "a_append" /\ pc'[c] = "idle"
  BY DEF AppendInPlace, AppendToNewArray, Return, history, IInv, TypeOK
<1>2. NewWorker(c).Loc \in Locs /\ NewWorker(c) \in Worker
  BY <1>1, NewWorkerType DEF IInv, InTurn, Addressed, NewWorker
<1>3. PICK a \in DOMAIN arrays : a = req[c].array /\ req[c].len <= Len(arrays[a].cells)
  BY <1>1 DEF IInv, RequestsInOrder, InOrder
<1>4. PICK cells \in Seq(Worker) : cells = arrays[a].cells /\ arrays[a] \in Array
  BY ArrayFacts DEF IInv
<1>5. \A i \in 1 .. Len(cells) : cells[i].Loc \in Locs
  BY <1>4 DEF InTurn, Addressed
<1>6. PICK w \in Worker : w = NewWorker(c) /\ w.Loc \in Locs
  BY <1>2
<1>7. CASE AppendInPlace(c)
  <2>1. PICK n \in Nat \ {0} : n = req[c].len + 1 /\ n <= Len(cells) + 1
    BY <1>3, <1>4 DEF IInv, TypeOK, Request
  <2>2. arrays' = [arrays EXCEPT ![a].cells = Written(cells, n, w)]
    BY <1>3, <1>4, <1>6, <1>7, <2>1 DEF AppendInPlace
  <2>3. arrays'[a].cells = Written(cells, n, w)
    BY <1>4, <2>2 DEF Array
  <2>4. \A b \in DOMAIN arrays \ {a} : arrays'[b] = arrays[b]
    BY <2>2
  <2>5. DOMAIN arrays' = DOMAIN arrays
    BY <2>2
  <2>6. \A i \in 1 .. Len(Written(cells, n, w)) : Written(cells, n, w)[i].Loc \in Locs
    <3> TAKE i \in 1 .. Len(Written(cells, n, w))
    <3>1. /\ Len(Written(cells, n, w)) = IF n <= Len(cells) THEN Len(cells) ELSE n
          /\ \A j \in 1 .. Len(cells) : j # n => Written(cells, n, w)[j] = cells[j]
          /\ Written(cells, n, w)[n] = w
      <4>1. cells \in Seq(Worker)
        BY <1>4
      <4>2. w \in Worker
        BY <1>6
      <4>3. n \in Nat \ {0} /\ n <= Len(cells) + 1
        BY <2>1
      <4> QED
        BY <4>1, <4>2, <4>3, WrittenFacts
    <3>2. PICK l \in Nat : l = Len(cells)
      BY <1>4
    <3>3. i = n \/ i \in 1 .. l
      BY <2>1, <3>1, <3>2
    <3> QED
      BY <1>5, <1>6, <3>1, <3>2, <3>3
  <2>7. Addressed'
    BY <1>1, <2>3, <2>4, <2>5, <2>6 DEF InTurn, Addressed, TakeTurns
  <2> QED
    BY <1>1, <2>7, StaysInTurn DEF Placing
<1>8. CASE AppendToNewArray(c)
  <2>1. PICK e : arrays' = Append(arrays, e) /\ e.cells = Append(cells, w)
    BY <1>3, <1>4, <1>6, <1>8 DEF AppendToNewArray
  <2>2. /\ DOMAIN arrays' = DOMAIN arrays \cup {Len(arrays) + 1}
        /\ \A b \in DOMAIN arrays : arrays'[b] = arrays[b]
        /\ arrays'[Len(arrays) + 1] = e
    BY <2>1 DEF IInv, TypeOK
  <2>3. \A i \in 1 .. Len(e.cells) : e.cells[i].Loc \in Locs
    BY <1>5, <1>6, <2>1
  <2>4. Addressed'
    BY <1>1, <2>2, <2>3 DEF InTurn, Addressed, TakeTurns
  <2> QED
    BY <1>1, <2>4, StaysInTurn DEF Placing
<1> QED
  BY <1>7, <1>8

\* A store finds its worker.
LEMMA SelectInTurn ==
  ASSUME TakeTurns, IInv, InTurn, NEW c \in Clients,
         MostLeisureWorker(c) \/ SelectWorker(c) \/ NoWorker(c)
  PROVE  InTurn' /\ UNCHANGED <<latest, answer>>
<1>1. /\ UNCHANGED <<arrays, m, stored, latest, answer>>
      /\ pc[c] \in {"s_select", "s_point"} /\ pc'[c] \in {"s_point", "s_record", "idle"}
  BY DEF MostLeisureWorker, SelectWorker, NoWorker, NoSuchWorker, Go, Return, proxy, history,
     IInv, TypeOK
<1>2. Addressed'
  BY <1>1, StaysAddressed
<1> QED
  BY <1>1, <1>2, StaysInTurn DEF Placing

\* The key is placed, and the worker asked.
LEMMA PlaceInTurn ==
  ASSUME TakeTurns, IInv, InTurn, NEW c \in Clients, RecordKey(c) \/ Post(c)
  PROVE  InTurn' /\ UNCHANGED <<latest, answer>>
<1>1. /\ pc[c] \in {"s_record", "s_post"} /\ req[c].array \in DOMAIN arrays
      /\ req[c].index \in 1 .. Len(arrays[req[c].array].cells)
      /\ <<req[c].key, req[c].value>> \in sent
  BY DEF RecordKey, Post, Go, IInv, RequestsInOrder, InOrder, PointerPoints, StorePoints
<1>2. req[c].key \in Keys /\ Selected(c).Loc \in Locs
  BY <1>1 DEF IInv, TypeOK, InTurn, Addressed, Selected
<1>3. CASE RecordKey(c)
  <2>1. /\ UNCHANGED <<arrays, stored, req, latest, answer>> /\ pc'[c] = "s_post"
        /\ m' = With(m, req[c].key, Selected(c).Loc)
    BY <1>3 DEF RecordKey, Go, history, IInv, TypeOK
  <2>2. /\ DOMAIN m' = DOMAIN m \cup {req[c].key} /\ m'[req[c].key] = Selected(c).Loc
        /\ \A k \in DOMAIN m \ {req[c].key} : m'[k] = m[k]
    BY <2>1 DEF With
  <2>3. Addressed'
    BY <1>2, <2>1, <2>2 DEF InTurn, Addressed, TakeTurns
  <2>4. OnPlace(c)'
    BY <2>1, <2>2 DEF OnPlace, Selected, Placing
  <2>5. FindsLatest'
    <3> SUFFICES ASSUME NEW k \in Keys PROVE Agrees(k)'
      BY DEF FindsLatest
    <3>1. Agrees(k) /\ Permits(k)' = Permits(k)
      BY <1>1, <1>3, <2>1 DEF InTurn, FindsLatest, Permits, TakeTurns, RecordKey, Go
    <3>2. CASE k = req[c].key
      BY <2>1, <3>1, <3>2 DEF Agrees, Placing
    <3>3. CASE k # req[c].key
      <4>1. Finds(k)' = Finds(k)
        BY <2>1, <2>2, <3>3 DEF Finds
      <4>2. \A d \in Clients : req[d].key # k
        BY <3>3 DEF TakeTurns
      <4> QED
        BY <2>1, <3>1, <4>1, <4>2 DEF Agrees
    <3> QED
      BY <3>2, <3>3
  <2> QED
    BY <2>1, <2>3, <2>4, <2>5 DEF InTurn, TakeTurns
<1>4. CASE Post(c)
  <2>1. /\ UNCHANGED <<arrays, m, stored, latest, answer>> /\ pc[c] = "s_post"
        /\ pc'[c] = "s_sent" /\ req' = [req EXCEPT ![c].loc = Selected(c).Loc]
    BY <1>4 DEF Post, Go, proxy, history, IInv, TypeOK
  <2>2. req'[c].loc = Selected(c).Loc /\ req'[c].key = req[c].key
    BY <2>1 DEF IInv, TypeOK, Request
  <2>3. Addressed'
    BY <2>1, StaysAddressed
  <2>4. OnPlace(c)'
    BY <2>1, <2>2 DEF InTurn, OnPlace, Placing
  <2>5. FindsLatest'
    BY <2>1, <2>2 DEF InTurn, FindsLatest, Agrees, Permits, Finds, Placing, TakeTurns
  <2> QED
    BY <2>1, <2>3, <2>4, <2>5 DEF InTurn, TakeTurns
<1> QED
  BY <1>3, <1>4

\* The worker that m names stores the value.
LEMMA StoresInTurn ==
  ASSUME TakeTurns, IInv, InTurn, NEW c \in Clients, WorkerStores(c)
  PROVE  InTurn' /\ UNCHANGED <<latest, answer>>
<1> DEFINE l == req[c].loc
           x == StoredAs[req[c].key]
<1>1. /\ UNCHANGED <<arrays, m, req, latest, answer>> /\ pc[c] = "s_sent" /\ pc'[c] = "s_reply"
      /\ stored' = [stored EXCEPT ![l] = With(stored[l], x, req[c].value)]
      /\ l \in Locs
  BY DEF WorkerStores, Go, TableAfter, proxy, history, IInv, TypeOK, Request
<1>2. /\ DOMAIN stored'[l] = DOMAIN stored[l] \cup {x}
      /\ stored'[l][x] = req[c].value
      /\ \A k \in DOMAIN stored[l] \ {x} : stored'[l][k] = stored[l][k]
      /\ \A loc \in Locs \ {l} : stored'[loc] = stored[loc]
  BY <1>1 DEF With, IInv, TypeOK
<1>3. Addressed'
  BY <1>1, StaysAddressed
<1>4. OnPlace(c)'
  BY <1>1, <1>2 DEF InTurn, OnPlace, Placing
<1>5. req[c].value \in Values
  BY <1>1 DEF IInv, RequestsInOrder, InOrder, StorePoints, TypeOK
<1>6. FindsLatest'
  <2> SUFFICES ASSUME NEW k \in Keys PROVE Agrees(k)'
    BY DEF FindsLatest
  <2>1. Agrees(k)
    BY DEF InTurn, FindsLatest
  <2>2. Permits(k) \subseteq Permits(k)' /\ (SoughtAs[k] = x => req[c].value \in Permits(k)')
    BY <1>1, <1>5 DEF Permits, TakeTurns, Same
  <2>3. ASSUME NEW loc \in Locs, SoughtAs[k] \in DOMAIN stored'[loc]
        PROVE  \/ stored'[loc][SoughtAs[k]] \in Permits(k)'
               \/ /\ SoughtAs[k] \in DOMAIN stored[loc]
                  /\ stored'[loc][SoughtAs[k]] = stored[loc][SoughtAs[k]]
    BY <1>2, <2>2, <2>3
  <2>4. ASSUME NEW loc \in Locs, SoughtAs[k] \notin DOMAIN stored'[loc]
        PROVE  SoughtAs[k] \notin DOMAIN stored[loc]
    BY <1>2, <2>4
  <2>5. CASE StoredAs[k] \in Keys
    <3>1. CASE k = req[c].key
      BY <1>1, <2>5, <3>1 DEF Agrees, Placing
    <3>2. CASE k # req[c].key
      <4>1. Finds(k) \in Permits(k)
        BY <2>1, <2>5, <3>2 DEF Agrees, TakeTurns
      <4>2. k \in DOMAIN m => m[k] \in Locs
        BY DEF InTurn, Addressed
      <4>3. Finds(k)' \in Permits(k)' \/ Finds(k)' = Finds(k)
        BY <1>1, <2>3, <2>4, <4>2 DEF Finds
      <4> QED
        BY <2>2, <2>5, <4>1, <4>3 DEF Agrees
    <3> QED
      BY <3>1, <3>2
  <2>6. CASE StoredAs[k] \notin Keys
    BY <1>1, <2>1, <2>2, <2>3, <2>6 DEF Agrees
  <2> QED
    BY <2>5, <2>6
<1> QED
  BY <1>1, <1>3, <1>4, <1>6 DEF InTurn, TakeTurns

\* A store that ends without success is one of a key that workers do not take.
LEMMA RefusedInTurn ==
  ASSUME TakeTurns, IInv, InTurn, NEW c \in Clients, NotStored(c) \/ PostFails(c)
  PROVE  InTurn' /\ UNCHANGED <<latest, answer>>
<1>1. /\ UNCHANGED <<arrays, m, stored, latest, answer>>
      /\ pc[c] \in {"s_sent", "s_reply"} /\ pc'[c] = "idle"
  BY DEF NotStored, PostFails, Return, proxy, history, IInv, TypeOK
<1>2. pc[c] = "s_sent" /\ StoredAs[req[c].key] \notin Keys
  <2>1. m[req[c].key] = req[c].loc /\ req[c].key \in DOMAIN m
    BY <1>1 DEF InTurn, OnPlace, Placing
  <2>2. req[c].loc # NoLoc
    BY <2>1, ConstantsAssumption DEF InTurn, Addressed
  <2>3. StoredAs[req[c].key] \in {NoRoute, NoURL}
    BY <2>2 DEF NotStored, PostFails, MayFail, TakeTurns
  <2>4. pc[c] = "s_reply" => StoredAs[req[c].key] \in Keys
    BY DEF IInv, RequestsInOrder, InOrder
  <2> QED
    BY <1>1, <2>3, <2>4, ConstantsAssumption
<1>3. Addressed'
  BY <1>1, StaysAddressed
<1>4. OnPlace(c)'
  BY <1>1 DEF OnPlace, Placing
<1>5. FindsLatest'
  <2> SUFFICES ASSUME NEW k \in Keys PROVE Agrees(k)'
    BY DEF FindsLatest
  <2>1. Agrees(k)
    BY DEF InTurn, FindsLatest
  <2>2. Permits(k)' = Permits(k) /\ Finds(k)' = Finds(k)
    BY <1>1, <1>2 DEF Permits, Finds, TakeTurns
  <2>3. StoredAs[k] \in Keys => Finds(k) \in Permits(k)
    BY <1>2, <2>1 DEF Agrees, TakeTurns
  <2> QED
    BY <1>1, <2>1, <2>2, <2>3 DEF Agrees
<1> QED
  BY <1>1, <1>3, <1>4, <1>5 DEF InTurn, TakeTurns

\* The client is answered: this is the promise's Store.
LEMMA ReplyInTurn ==
  ASSUME TakeTurns, IInv, InTurn, NEW c \in Clients, Reply(c)
  PROVE  /\ InTurn' /\ UNCHANGED answer
         /\ \E k \in Keys, v \in Values : latest' = AfterStore(k, v)
<1> DEFINE x == req[c].key
<1>1. /\ UNCHANGED <<arrays, m, stored, answer>> /\ pc[c] = "s_reply" /\ pc'[c] = "s_charge"
      /\ latest' = AfterStore(x, req[c].value)
  BY DEF Reply, Go, proxy, IInv, TypeOK
<1>2. x \in Keys /\ req[c].value \in Values /\ StoredAs[x] \in Keys
  BY <1>1 DEF IInv, RequestsInOrder, InOrder, StorePoints, TypeOK
<1>3. Addressed'
  BY <1>1, StaysAddressed
<1>4. OnPlace(c)'
  BY <1>1 DEF OnPlace, Placing
<1>5. FindsLatest'
  <2> SUFFICES ASSUME NEW k \in Keys PROVE Agrees(k)'
    BY DEF FindsLatest
  <2>1. Agrees(k) /\ Finds(k)' = Finds(k)
    BY <1>1 DEF InTurn, FindsLatest, Finds
  <2>2. CASE k = x
    <3>1. SoughtAs[x] = StoredAs[x]
      BY <1>2, ConstantsAssumption
    <3>2. Finds(k) = req[c].value
      BY <1>1, <2>2, <3>1 DEF InTurn, OnPlace, Placing, Finds
    <3>3. req[c].value \in latest'[k]
      BY <1>1, <1>2, <2>2 DEF AfterStore
    <3> QED
      BY <1>2, <2>1, <2>2, <3>2, <3>3 DEF Agrees, Permits
  <2>3. CASE k # x
    <3>1. latest'[k] = latest[k] \cup {v \in {req[c].value} : Same(x, k)}
      BY <1>1, <2>3 DEF AfterStore
    <3>2. Permits(k) = latest'[k]
      BY <1>1, <1>2, <3>1 DEF Permits, TakeTurns
    <3>3. latest'[k] \subseteq Permits(k)' /\ latest[k] \subseteq latest'[k]
      BY <3>1 DEF Permits
    <3>4. StoredAs[k] \in Keys => Finds(k) \in Permits(k)
      BY <2>1, <2>3 DEF Agrees, TakeTurns
    <3> QED
      BY <1>1, <2>1, <3>2, <3>3, <3>4 DEF Agrees
  <2> QED
    BY <2>2, <2>3
<1> QED
  BY <1>1, <1>2, <1>3, <1>4, <1>5 DEF InTurn, TakeTurns

\* Rem is written back into a cell, whose address stays.
LEMMA ChargeInTurn ==
  ASSUME TakeTurns, IInv, InTurn, NEW c \in Clients, Charge(c)
  PROVE  InTurn' /\ UNCHANGED <<latest, answer>>
<1> DEFINE a == req[c].array
           i == req[c].index
<1>1. /\ UNCHANGED <<m, stored, latest, answer>> /\ pc[c] = "s_charge" /\ pc'[c] = "idle"
      /\ arrays' = [arrays EXCEPT ![a].cells[i].Rem = Charged(c)]
  BY DEF Charge, Return, history, IInv, TypeOK
<1>2. a \in DOMAIN arrays /\ i \in 1 .. Len(arrays[a].cells)
  BY <1>1 DEF IInv, RequestsInOrder, InOrder, PointerPoints
<1>3. arrays[a] \in Array /\ arrays[a].cells \in Seq(Worker)
  BY <1>2, ArrayFacts DEF IInv
<1>4. arrays[a].cells[i] \in Worker
  BY <1>2, <1>3
<1>5. /\ DOMAIN arrays' = DOMAIN arrays
      /\ \A b \in DOMAIN arrays \ {a} : arrays'[b] = arrays[b]
      /\ arrays'[a].cells = [arrays[a].cells EXCEPT ![i].Rem = Charged(c)]
  BY <1>1, <1>2, <1>3 DEF Array
<1>6. /\ \A j \in 1 .. Len(arrays[a].cells) :
           j # i => arrays'[a].cells[j] = arrays[a].cells[j]
      /\ arrays'[a].cells[i] = [arrays[a].cells[i] EXCEPT !.Rem = Charged(c)]
      /\ Len(arrays'[a].cells) = Len(arrays[a].cells)
  BY <1>2, <1>3, <1>5
<1>7. arrays'[a].cells[i].Loc = arrays[a].cells[i].Loc
  BY <1>4, <1>6 DEF Worker
<1>8. Addressed'
  <2>1. \A j \in 1 .. Len(arrays'[a].cells) : arrays'[a].cells[j].Loc \in Locs
    BY <1>2, <1>6, <1>7 DEF InTurn, Addressed
  <2>2. \A b \in DOMAIN arrays' : \A j \in 1 .. Len(arrays'[b].cells) :
          arrays'[b].cells[j].Loc \in Locs
    BY <1>5, <2>1 DEF InTurn, Addressed
  <2> QED
    BY <1>1, <2>2 DEF InTurn, Addressed, TakeTurns
<1> QED
  BY <1>1, <1>8, StaysInTurn DEF Placing

\* A get answers what it may: this is the promise's Get.
LEMMA GetInTurn ==
  ASSUME TakeTurns, IInv, InTurn, NEW c \in Clients,
         Lookup(c) \/ UnknownKey(c) \/ WorkerGets(c) \/ GetFails(c)
  PROVE  /\ InTurn' /\ UNCHANGED latest
         /\ UNCHANGED answer \/ \E k \in Keys : \E b \in BOOLEAN : \E v \in latest[k] :
              answer' = [answer EXCEPT ![c] = [key |-> k, value |-> v, known |-> b]]
<1>1. /\ UNCHANGED <<arrays, m, stored, latest>> /\ pc[c] \in {"g_lookup", "g_fetch"}
      /\ pc'[c] \in {"g_fetch", "idle"}
  BY DEF Lookup, UnknownKey, WorkerGets, GetFails, Go, Return, proxy, history, IInv, TypeOK
<1>2. PICK k \in Keys : k = req[c].key
  BY <1>1 DEF IInv, RequestsInOrder, InOrder
<1>3. Permits(k) = latest[k] /\ req[c].known \in BOOLEAN
  BY <1>1 DEF Permits, TakeTurns, IInv, TypeOK, Request
<1>4. /\ StoredAs[k] \in Keys => Finds(k) \in latest[k]
      /\ StoredAs[k] \notin Keys =>
           /\ NoValue \in latest[k]
           /\ \A loc \in Locs : SoughtAs[k] \in DOMAIN stored[loc] =>
                stored[loc][SoughtAs[k]] \in latest[k]
  BY <1>1, <1>3 DEF InTurn, FindsLatest, Agrees, TakeTurns, Placing
<1>5. pc'[c] = "g_fetch" => req'[c].key \in DOMAIN m /\ m[req'[c].key] = req'[c].loc
  <2>1. CASE Lookup(c)
    <3>1. req' = [req EXCEPT ![c].loc = m[req[c].key]] /\ req[c].key \in DOMAIN m
      BY <2>1 DEF Lookup
    <3>2. req'[c].loc = m[req[c].key] /\ req'[c].key = req[c].key
      BY <3>1 DEF IInv, TypeOK, Request
    <3> QED
      BY <3>1, <3>2
  <2>2. CASE UnknownKey(c) \/ WorkerGets(c) \/ GetFails(c)
    BY <2>2 DEF UnknownKey, WorkerGets, GetFails, Return, IInv, TypeOK
  <2> QED
    BY <2>1, <2>2
<1>6. Addressed'
  BY <1>1, StaysAddressed
<1>7. InTurn'
  BY <1>1, <1>5, <1>6, StaysInTurn DEF Placing
<1>8. ASSUME UnknownKey(c) \/ WorkerGets(c) \/ GetFails(c)
      PROVE  \E v \in latest[k] : Answer(c, v)
  <2>1. CASE UnknownKey(c)
    <3>1. Answer(c, NoValue) /\ Finds(k) = NoValue
      BY <1>2, <2>1 DEF UnknownKey, Finds
    <3> QED
      BY <1>4, <3>1
  <2>2. CASE WorkerGets(c)
    <3>1. k \in DOMAIN m /\ m[k] = req[c].loc /\ req[c].loc \in Locs
      BY <1>2, <2>2 DEF WorkerGets, InTurn, OnPlace, Addressed
    <3>2. Found(c) = Finds(k)
      BY <1>2, <3>1 DEF Found, Finds
    <3>3. Found(c) \in latest[k]
      <4>1. CASE StoredAs[k] \in Keys
        BY <1>4, <3>2, <4>1
      <4>2. CASE StoredAs[k] \notin Keys
        BY <1>2, <1>4, <3>1, <4>2 DEF Found
      <4> QED
        BY <4>1, <4>2
    <3> QED
      BY <2>2, <3>3 DEF WorkerGets
  <2>3. CASE GetFails(c)
    <3>1. req[c].key \in DOMAIN m /\ m[req[c].key] = req[c].loc
      BY <2>3 DEF GetFails, InTurn, OnPlace
    <3>2. req[c].loc # NoLoc
      BY <3>1, ConstantsAssumption DEF InTurn, Addressed
    <3>3. SoughtAs[k] = NoURL
      BY <1>2, <2>3, <3>2 DEF GetFails, MayFail, TakeTurns
    <3>4. StoredAs[k] \notin Keys
      BY <3>3, ConstantsAssumption
    <3> QED
      BY <1>4, <2>3, <3>4 DEF GetFails
  <2> QED
    BY <1>8, <2>1, <2>2, <2>3
<1>9. CASE Lookup(c)
  BY <1>1, <1>7, <1>9 DEF Lookup, history
<1>10. CASE UnknownKey(c) \/ WorkerGets(c) \/ GetFails(c)
  BY <1>1, <1>2, <1>3, <1>7, <1>8, <1>10 DEF Answer
<1> QED
  BY <1>9, <1>10

\* What a step does to what the client knows: nothing, or the promise's Store or
\* Get.
PromisedStep ==
  \/ UNCHANGED <<latest, answer>>
  \/ /\ UNCHANGED answer
     /\ \E k \in Keys, v \in Values : latest' = AfterStore(k, v)
  \/ /\ UNCHANGED latest
     /\ \E c \in Clients, k \in Keys : \E b \in BOOLEAN : \E v \in latest[k] :
          answer' = [answer EXCEPT ![c] = [key |-> k, value |-> v, known |-> b]]

\* Every step keeps InTurn and is a step of the promise or none.
LEMMA NextInTurn ==
  ASSUME TakeTurns, IInv, InTurn, [Next]_vars
  PROVE  InTurn' /\ PromisedStep
<1>1. CASE UNCHANGED vars
  <2>1. UNCHANGED <<arrays, m, stored, pc, req, latest, answer>>
    BY <1>1 DEF vars, proxy, request, history
  <2> QED
    BY <2>1 DEF InTurn, Addressed, OnPlace, FindsLatest, Agrees, Permits, Finds, Selected,
                PromisedStep
<1>2. ASSUME NEW c \in Clients, Step(c) PROVE InTurn' /\ PromisedStep
  BY <1>2, AppendInTurn, SelectInTurn, PlaceInTurn, StoresInTurn, RefusedInTurn,
     ReplyInTurn, ChargeInTurn, GetInTurn DEF Step, PromisedStep
<1>3. ASSUME Next PROVE InTurn' /\ PromisedStep
  BY <1>2, <1>3, ArrivesInTurn DEF Next, PromisedStep, TakeTurns
<1> QED
  BY <1>1, <1>3

\* One client that adds workers, stores and gets is answered as KVPromise says,
\* although every key moves to another worker with each store and leaves its old
\* values behind, and workers take one key for another (proxy.go:67, 106).
THEOREM ImplementsPromise ==
  ASSUME \A c, d \in Clients : c = d, Failing = {}, ~ Malformed
  PROVE  Spec => KeepsPromise
<1>0. TakeTurns
  BY DEF TakeTurns
<1>1. Init => Promise!Init
  <2> SUFFICES ASSUME Init PROVE Promise!Init
    OBVIOUS
  <2>1. \A c \in Clients : answer[c] \in [key : Keys, value : {NoValue}, known : {FALSE}]
    BY DEF Init
  <2> QED
    BY <2>1 DEF Init, Promise!Init
<1>2. IInv /\ InTurn /\ [Next]_vars => InTurn'
  BY <1>0, NextInTurn
<1>3. IInv /\ InTurn /\ [Next]_vars =>
        [Promise!Next]_<<latest, [c \in Clients |-> [key |-> answer[c].key,
                                                     value |-> answer[c].value]]>>
  <2> SUFFICES ASSUME IInv, InTurn, [Next]_vars
               PROVE  [Promise!Next]_<<latest, [c \in Clients |-> [key |-> answer[c].key,
                                                     value |-> answer[c].value]]>>
    OBVIOUS
  <2> DEFINE told == [c \in Clients |-> [key |-> answer[c].key, value |-> answer[c].value]]
  <2>1. PromisedStep
    BY <1>0, NextInTurn
  <2>2. CASE UNCHANGED <<latest, answer>>
    BY <2>2
  <2>3. CASE /\ UNCHANGED answer
             /\ \E k \in Keys, v \in Values : latest' = AfterStore(k, v)
    <3>1. told' = told
      BY <2>3
    <3>2. PICK k \in Keys, v \in Values : latest' = AfterStore(k, v)
      BY <2>3
    <3>3. Promise!Store(k, v)
      BY <3>1, <3>2 DEF Promise!Store, AfterStore
    <3> QED
      BY <3>3 DEF Promise!Next
  <2>4. CASE /\ UNCHANGED latest
             /\ \E c \in Clients, k \in Keys : \E b \in BOOLEAN : \E v \in latest[k] :
                  answer' = [answer EXCEPT ![c] = [key |-> k, value |-> v, known |-> b]]
    <3>1. PICK c \in Clients, k \in Keys : \E b \in BOOLEAN : \E v \in latest[k] :
            answer' = [answer EXCEPT ![c] = [key |-> k, value |-> v, known |-> b]]
      BY <2>4
    <3>2. answer \in [Clients -> LastGet]
      BY DEF IInv, TypeOK
    <3>3. \E v \in latest[k] : told' = [told EXCEPT ![c] = [key |-> k, value |-> v]]
      BY <3>1, <3>2
    <3>4. Promise!Get(c, k)
      BY <2>4, <3>3 DEF Promise!Get
    <3> QED
      BY <3>4 DEF Promise!Next
  <2> QED
    BY <2>1, <2>2, <2>3, <2>4 DEF PromisedStep
<1> QED
  BY <1>1, <1>2, <1>3, InitInTurn, Invariance, PTL DEF Spec, KeepsPromise, Promise!Spec

\* Each key has one permitted answer.
OneAnswer == \A k \in Keys : \E v \in Values \cup {NoValue} : latest[k] = {v}

\* Where no two keys mean the same to a worker (proxy.go:67, 106), a key has one
\* permitted answer, nothing or the value of its last acknowledged store: then
\* what ImplementsPromise says is that one client sees a map.
THEOREM DistinctKeysHaveOneAnswer ==
  ASSUME \A j, k \in Keys : Same(j, k) => j = k
  PROVE  Spec => []OneAnswer
<1>1. Init => OneAnswer
  BY DEF Init, OneAnswer
<1>2. IInv /\ OneAnswer /\ [Next]_vars => OneAnswer'
  <2> SUFFICES ASSUME IInv, OneAnswer, [Next]_vars PROVE OneAnswer'
    OBVIOUS
  <2>1. CASE UNCHANGED latest
    BY <2>1 DEF OneAnswer
  <2>2. ASSUME NEW c \in Clients, Reply(c) PROVE OneAnswer'
    <3>1. latest' = AfterStore(req[c].key, req[c].value)
      BY <2>2 DEF Reply
    <3>2. req[c].key \in Keys /\ req[c].value \in Values
      BY <2>2 DEF Reply, Go, IInv, RequestsInOrder, InOrder, StorePoints, TypeOK
    <3>3. \A k \in Keys : latest'[k] = IF k = req[c].key THEN {req[c].value} ELSE latest[k]
      BY <3>1, <3>2 DEF AfterStore
    <3> QED
      BY <3>2, <3>3 DEF OneAnswer
  <2>3. UNCHANGED latest \/ \E c \in Clients : Reply(c)
    <3>1. CASE UNCHANGED vars
      BY <3>1 DEF vars, history
    <3>2. ASSUME NEW c \in Clients, Step(c) PROVE UNCHANGED latest \/ Reply(c)
      BY <3>2 DEF Step, AppendInPlace, AppendToNewArray, MostLeisureWorker, SelectWorker,
         NoWorker, RecordKey, Post, WorkerStores, NotStored, PostFails, Charge, Lookup,
         UnknownKey, WorkerGets, GetFails, history
    <3> QED
      BY <3>1, <3>2 DEF Next, AddWorker, StoreValue, GetValue, WorkerRestarts, history
  <2> QED
    BY <2>1, <2>2, <2>3
<1> QED
  BY <1>1, <1>2, Invariance, PTL DEF Spec

------------------------------------------------------------------------------
(* What is taken from Rem, and what was charged.  Updates of Rem are lost in a *)
(* way that depends on who read what when: C[a][i] is what was charged through *)
(* cell i of array a, or through the cell that it is a copy of.  No variable   *)
(* holds it, so the invariant says that there are such numbers.                *)

Charges == [Nat -> [Nat -> Nat]]
Filled(a) == Len(arrays[a].cells)
Total == SumFunctionOnSet(charged, Locs)
Cell(c) == arrays[req[c].array].cells[req[c].index]

\* The cells of one array were not charged for more than all stores together.
WithinTotal(C) ==
  \A a \in DOMAIN arrays : SumFunctionOnSet(C[a], 1 .. Filled(a)) <= Total

\* What is missing in a cell was charged through it ...
CoversCells(C) ==
  \A a \in DOMAIN arrays : \A i \in 1 .. Filled(a) :
    arrays[a].cells[i].Loc # NoLoc => Ram - arrays[a].cells[i].Rem <= C[a][i]

\* ... and so was what will be missing once a store has written it back.
CoversPending(C) ==
  \A c \in Clients : pc[c] = "s_charge" /\ Cell(c).Loc # NoLoc =>
    Ram - (req[c].Rem - req[c].value) <= C[req[c].array][req[c].index]

Accounted == \E C \in Charges : WithinTotal(C) /\ CoversCells(C) /\ CoversPending(C)

\* A cell of an array is a worker.
LEMMA CellFacts ==
  ASSUME IInv, NEW a \in DOMAIN arrays, NEW i \in 1 .. Filled(a)
  PROVE  /\ arrays[a].cells[i] \in Worker /\ arrays[a].cells[i].Rem \in Int
         /\ Filled(a) \in Nat /\ a \in Nat /\ i \in Nat
<1>1. arrays[a].cells \in Seq(Worker) /\ Filled(a) \in Nat /\ a \in Nat
  BY ArrayFacts DEF IInv, Filled
<1>2. arrays[a].cells[i] \in Worker
  BY <1>1 DEF Filled
<1> QED
  BY <1>1, <1>2 DEF Worker

\* A request that holds a pointer holds one to a cell that there is.
LEMMA PendingFacts ==
  ASSUME IInv, NEW c \in Clients, pc[c] \in PointerPoints
  PROVE  /\ req[c].array \in DOMAIN arrays /\ req[c].index \in 1 .. Filled(req[c].array)
         /\ req[c].Rem \in Int /\ req[c].value \in Nat
         /\ pc[c] \in {"s_reply", "s_charge"} => req[c].loc \in Locs
<1>1. InOrder(c) /\ req[c] \in Request
  BY DEF IInv, RequestsInOrder, TypeOK
<1>2. req[c].value \in Values \cup {0} /\ req[c].Rem \in Int
  BY <1>1 DEF Request
<1>3. req[c].value \in Nat
  <2>1. Values \cup {0} \subseteq Nat
    BY ConstantsAssumption
  <2> QED
    BY <1>2, <2>1, Zenon
<1>4. req[c].array \in DOMAIN arrays /\ req[c].index \in 1 .. Filled(req[c].array)
  BY <1>1 DEF InOrder, Filled
<1>5. pc[c] \in {"s_reply", "s_charge"} => req[c].loc \in Locs
  BY <1>1 DEF InOrder
<1> QED
  BY <1>2, <1>3, <1>4, <1>5

\* The total is a number, and it is not negative.
LEMMA TotalType ==
  ASSUME TypeOK
  PROVE  Total \in Nat
<1>1. IsFiniteSet(Locs) /\ \A loc \in Locs : charged[loc] \in Nat /\ charged[loc] \in Int
  BY ConstantsAssumption DEF TypeOK
<1>2. Total \in Int
  BY <1>1, SumType DEF Total
<1>3. IsFiniteSet(Locs) /\ {} \in SUBSET Locs /\ \A x \in Locs \ {} : charged[x] >= 0
  BY <1>1
<1>4. SumFunctionOnSet(charged, {}) <= SumFunctionOnSet(charged, Locs)
  BY ONLY <1>1, <1>3, SumGrows
<1>5. Total >= 0
  BY <1>2, <1>4, SumEmpty DEF Total
<1> QED
  BY <1>2, <1>5

\* The sum over the cells of an array, and over those of an array with one more.
LEMMA SumOfCells ==
  ASSUME NEW f \in [Nat -> Nat], NEW n \in Nat
  PROVE  /\ SumFunctionOnSet(f, 1 .. n) \in Int
         /\ SumFunctionOnSet(f, 1 .. n + 1) = f[n + 1] + SumFunctionOnSet(f, 1 .. n)
<1>1. IsFiniteSet(1 .. n) /\ IsFiniteSet(1 .. n + 1)
  <2>1. 1 \in Int /\ n \in Int /\ n + 1 \in Int
    OBVIOUS
  <2> QED
    BY ONLY <2>1, FS_Interval
<1>2. /\ n + 1 \in 1 .. n + 1 /\ (1 .. n + 1) \ {n + 1} = 1 .. n
      /\ 1 .. n \subseteq Nat /\ 1 .. n + 1 \subseteq Nat
  OBVIOUS
<1>3. (\A x \in 1 .. n : f[x] \in Int) /\ (\A x \in 1 .. n + 1 : f[x] \in Int)
  <2>1. \A x \in Nat : f[x] \in Int
    OBVIOUS
  <2> QED
    BY <1>2, <2>1
<1>4. /\ IsFiniteSet(1 .. n) /\ IsFiniteSet(1 .. n + 1)
      /\ n + 1 \in 1 .. n + 1 /\ (1 .. n + 1) \ {n + 1} = 1 .. n
      /\ \A x \in 1 .. n : f[x] \in Int
      /\ \A x \in 1 .. n + 1 : f[x] \in Int
  BY <1>1, <1>2, <1>3
<1>5. SumFunctionOnSet(f, 1 .. n) \in Int
  BY <1>4, SumType
<1>6. SumFunctionOnSet(f, 1 .. n + 1) = f[n + 1] + SumFunctionOnSet(f, (1 .. n + 1) \ {n + 1})
  BY <1>4, SumStep
<1> QED
  BY <1>4, <1>5, <1>6

\* Arrays with the same numbers in the cells have the same sum.
LEMMA SumOfSameCells ==
  ASSUME NEW f \in [Nat -> Nat], NEW e \in [Nat -> Nat], NEW n \in Nat,
         \A i \in 1 .. n : e[i] = f[i]
  PROVE  SumFunctionOnSet(e, 1 .. n) = SumFunctionOnSet(f, 1 .. n)
<1>1. IsFiniteSet(1 .. n) /\ \A i \in 1 .. n : e[i] = f[i] /\ e[i] \in Int
  BY FS_Interval
<1> QED
  BY <1>1, SumSame

\* At first there is no cell, and nothing has been charged.
LEMMA InitAccounted == Init => Accounted
<1> SUFFICES ASSUME Init PROVE Accounted
  OBVIOUS
<1> DEFINE C == [a \in Nat |-> [i \in Nat |-> 0]]
<1>1. C \in Charges
  BY DEF Charges
<1>2. /\ DOMAIN arrays = {1} /\ Filled(1) = 0 /\ 1 .. 0 = {}
      /\ \A c \in Clients : pc[c] # "s_charge"
  BY DEF Init, Filled
<1>3. Total \in Nat
  BY InitIInv, TotalType DEF IInv
<1> HIDE DEF C
<1>4. WithinTotal(C)
  BY <1>2, <1>3, SumEmpty DEF WithinTotal
<1>5. CoversCells(C) /\ CoversPending(C)
  BY <1>2 DEF CoversCells, CoversPending
<1> QED
  BY <1>1, <1>4, <1>5 DEF Accounted

\* A step that charges nothing, writes no cell and reads no Rem to write it back.
LEMMA AccountedSame ==
  ASSUME Accounted, UNCHANGED <<arrays, charged>>,
         \A c \in Clients : pc'[c] = "s_charge" => pc[c] = "s_charge" /\ req'[c] = req[c]
  PROVE  Accounted'
<1>1. PICK C \in Charges : WithinTotal(C) /\ CoversCells(C) /\ CoversPending(C)
  BY DEF Accounted
<1>2. WithinTotal(C)' /\ CoversCells(C)'
  BY <1>1 DEF WithinTotal, CoversCells, Filled, Total
<1>3. CoversPending(C)'
  BY <1>1 DEF CoversPending, Cell
<1> QED
  BY <1>1, <1>2, <1>3 DEF Accounted

\* The answer to a store charges the cell that it points to.
LEMMA ReplyAccounted ==
  ASSUME IInv, Accounted, NEW c \in Clients, Reply(c)
  PROVE  Accounted'
<1> DEFINE a == req[c].array
           i == req[c].index
           v == req[c].value
<1>1. /\ pc[c] = "s_reply" /\ pc' = [pc EXCEPT ![c] = "s_charge"]
      /\ req' = [req EXCEPT ![c].Rem = Cell(c).Rem]
      /\ charged' = [charged EXCEPT ![req[c].loc] = @ + v]
      /\ UNCHANGED arrays
  BY DEF Reply, Go, Selected, Cell, proxy
<1>2. /\ a \in DOMAIN arrays /\ i \in 1 .. Filled(a) /\ v \in Nat /\ req[c].loc \in Locs
      /\ Cell(c).Rem \in Int /\ Filled(a) \in Nat /\ a \in Nat /\ i \in Nat
  <2>1. a \in DOMAIN arrays /\ i \in 1 .. Filled(a) /\ v \in Nat /\ req[c].loc \in Locs
    BY <1>1, PendingFacts DEF PointerPoints
  <2> QED
    BY <2>1, CellFacts DEF Cell
<1>3. /\ req[c] \in Request /\ charged \in [Locs -> Nat] /\ IsFiniteSet(Locs)
      /\ req \in [Clients -> Request] /\ pc = [d \in Clients |-> pc[d]]
  BY ConstantsAssumption DEF IInv, TypeOK
<1>4. /\ req'[c].array = a /\ req'[c].index = i /\ req'[c].value = v
      /\ req'[c].Rem = Cell(c).Rem
      /\ \A d \in Clients \ {c} : req'[d] = req[d] /\ pc'[d] = pc[d]
  BY <1>1, <1>3 DEF Request
<1>5. Total' = Total + v /\ Total \in Int
  <2>1. PICK loc \in Locs : loc = req[c].loc
    BY <1>2
  <2>2. PICK e \in [Locs -> Nat] : e = charged'
    <3>1. charged[req[c].loc] + v \in Nat
      BY <1>2, <1>3
    <3> QED
      BY <1>1, <1>3, <3>1
  <2>3. e[loc] = charged[loc] + v /\ \A x \in Locs \ {loc} : e[x] = charged[x]
    BY <1>1, <1>3, <2>1, <2>2
  <2>4. IsFiniteSet(Locs) /\ \A x \in Locs : charged[x] \in Int /\ e[x] \in Int
    BY <1>3, <2>2
  <2>5. /\ SumFunctionOnSet(e, Locs) = SumFunctionOnSet(charged, Locs) + (e[loc] - charged[loc])
        /\ SumFunctionOnSet(charged, Locs) \in Int
    <3>1. loc \in Locs
      BY <2>1
    <3> QED
      BY ONLY <3>1, <2>3, <2>4, SumChanged
  <2> HIDE DEF v
  <2>6. e[loc] - charged[loc] = v
    BY <1>2, <1>3, <2>3 DEF v
  <2> QED
    BY <2>2, <2>5, <2>6 DEF Total
<1> HIDE DEF a, i, v
<1>6. PICK C \in Charges : WithinTotal(C) /\ CoversCells(C) /\ CoversPending(C)
  BY DEF Accounted
<1>7. PICK D \in Charges : /\ \A b \in Nat \ {a} : D[b] = C[b]
                           /\ D[a][i] = C[a][i] + v
                           /\ \A j \in Nat \ {i} : D[a][j] = C[a][j]
  <2> DEFINE D == [C EXCEPT ![a] = [C[a] EXCEPT ![i] = C[a][i] + v]]
  <2>0. C[a] \in [Nat -> Nat]
    BY <1>2, <1>6 DEF Charges
  <2>1. C[a] \in [Nat -> Nat] /\ C[a][i] + v \in Nat
    <3>1. C[a][i] \in Nat
      BY <1>2, <2>0
    <3> QED
      BY <1>2, <2>0, <3>1
  <2>2. D \in Charges
    BY <1>2, <1>6, <2>1 DEF Charges
  <2>3. /\ \A b \in Nat \ {a} : D[b] = C[b]
        /\ D[a] = [C[a] EXCEPT ![i] = C[a][i] + v]
    BY <1>2, <1>6 DEF Charges
  <2> HIDE DEF D
  <2> QED
    BY <1>2, <2>1, <2>2, <2>3
<1>8. \A b \in Nat : C[b] \in [Nat -> Nat] /\ D[b] \in [Nat -> Nat]
  BY <1>6, <1>7 DEF Charges
<1>9. WithinTotal(D)'
  <2> SUFFICES ASSUME NEW b \in DOMAIN arrays
               PROVE  SumFunctionOnSet(D[b], 1 .. Filled(b)) <= Total'
    BY <1>1 DEF WithinTotal, Filled
  <2>0. Filled(b) \in Nat /\ b \in Nat
    BY ArrayFacts DEF IInv, Filled
  <2>1. SumFunctionOnSet(C[b], 1 .. Filled(b)) <= Total
    BY <1>6 DEF WithinTotal
  <2>2. SumFunctionOnSet(C[b], 1 .. Filled(b)) \in Int
    BY <1>8, <2>0, SumOfCells
  <2>3. CASE b # a
    BY <1>2, <1>5, <1>7, <2>0, <2>1, <2>2, <2>3
  <2>4. CASE b = a
    <3> DEFINE f == C[a]
               e == D[a]
               S == 1 .. Filled(a)
    <3>1. IsFiniteSet(S)
      BY <1>2, FS_Interval
    <3>2. i \in S /\ (\A j \in S : f[j] \in Int /\ e[j] \in Int)
          /\ \A j \in S \ {i} : e[j] = f[j]
      BY <1>2, <1>7, <1>8
    <3> HIDE DEF f, e, S
    <3>3. SumFunctionOnSet(e, S) = SumFunctionOnSet(f, S) + (e[i] - f[i])
      BY ONLY <3>1, <3>2, SumChanged
    <3>4. e[i] - f[i] = v
      BY <1>2, <1>7, <3>2 DEF f, e
    <3> QED
      BY <1>2, <1>5, <2>1, <2>2, <2>4, <3>3, <3>4 DEF f, e, S
  <2> QED
    BY <2>3, <2>4
<1>10. ASSUME NEW b \in Nat, NEW j \in Nat
       PROVE  C[b][j] <= D[b][j] /\ C[b][j] \in Nat /\ D[b][j] \in Nat
  <2>1. C[b][j] \in Nat /\ D[b][j] \in Nat
    BY <1>8
  <2>2. D[b][j] = C[b][j] \/ D[b][j] = C[b][j] + v
    BY <1>7
  <2> QED
    BY <1>2, <2>1, <2>2
<1>11. CoversCells(D)'
  <2> SUFFICES ASSUME NEW b \in DOMAIN arrays, NEW j \in 1 .. Filled(b),
                      arrays[b].cells[j].Loc # NoLoc
               PROVE  Ram - arrays[b].cells[j].Rem <= D[b][j]
    BY <1>1 DEF CoversCells, Filled
  <2>1. Ram - arrays[b].cells[j].Rem <= C[b][j]
    BY <1>6 DEF CoversCells
  <2>2. arrays[b].cells[j].Rem \in Int /\ b \in Nat /\ j \in Nat
    BY CellFacts
  <2> QED
    BY <1>10, <2>1, <2>2, ConstantsAssumption
<1>12. CoversPending(D)'
  <2> SUFFICES ASSUME NEW d \in Clients, pc'[d] = "s_charge", Cell(d)'.Loc # NoLoc
               PROVE  Ram - (req'[d].Rem - req'[d].value) <= D[req'[d].array][req'[d].index]
    BY DEF CoversPending
  <2>1. CASE d # c
    <3>1. pc[d] = "s_charge" /\ req'[d] = req[d] /\ Cell(d)' = Cell(d)
      BY <1>1, <1>4, <2>1 DEF Cell
    <3>2. Ram - (req[d].Rem - req[d].value) <= C[req[d].array][req[d].index]
      BY <1>6, <3>1 DEF CoversPending
    <3>3. /\ req[d].array \in DOMAIN arrays /\ req[d].index \in 1 .. Filled(req[d].array)
          /\ req[d].Rem \in Int /\ req[d].value \in Nat
      BY <3>1, PendingFacts DEF PointerPoints
    <3>4. req[d].array \in Nat /\ req[d].index \in Nat
      BY <3>3, CellFacts
    <3> QED
      BY <1>10, <3>1, <3>2, <3>3, <3>4, ConstantsAssumption
  <2>2. CASE d = c
    <3>1. Cell(c)' = Cell(c) /\ Cell(c) = arrays[a].cells[i]
      BY <1>1, <1>4 DEF Cell, a, i
    <3>2. Ram - Cell(c).Rem <= C[a][i]
      BY <1>2, <1>6, <2>2, <3>1 DEF CoversCells
    <3>3. Ram - (Cell(c).Rem - v) <= C[a][i] + v
      BY <1>2, <1>10, <3>2, ConstantsAssumption
    <3> QED
      BY <1>4, <1>7, <2>2, <3>3
  <2> QED
    BY <2>1, <2>2
<1> QED
  BY <1>7, <1>9, <1>11, <1>12 DEF Accounted

\* A store writes back what is covered by then.
LEMMA ChargeAccounted ==
  ASSUME IInv, Accounted, NEW c \in Clients, Charge(c)
  PROVE  Accounted'
<1>1. pc[c] = "s_charge"
  BY DEF Charge
<1>2. PICK a \in DOMAIN arrays : a = req[c].array
  BY <1>1, PendingFacts DEF PointerPoints
<1>3. PICK i \in 1 .. Filled(a) : i = req[c].index
  BY <1>1, <1>2, PendingFacts DEF PointerPoints
<1>4. /\ pc[c] = "s_charge" /\ Return(c)
      /\ arrays' = [arrays EXCEPT ![a].cells[i].Rem = Charged(c)]
      /\ UNCHANGED charged
  BY <1>2, <1>3 DEF Charge, history
<1>5. /\ a \in DOMAIN arrays /\ i \in 1 .. Filled(a)
      /\ req[c].Rem \in Int /\ req[c].value \in Nat
  BY <1>4, PendingFacts DEF PointerPoints
<1>6. /\ arrays[a] \in Array /\ arrays[a].cells \in Seq(Worker) /\ arrays[a].cells[i] \in Worker
      /\ arrays \in Seq(Array)
  BY <1>5, ArrayFacts, CellFacts DEF IInv, TypeOK
<1>7. /\ DOMAIN arrays' = DOMAIN arrays
      /\ \A b \in DOMAIN arrays \ {a} : arrays'[b] = arrays[b]
      /\ arrays'[a].cells = [arrays[a].cells EXCEPT ![i].Rem = Charged(c)]
  BY <1>4, <1>5, <1>6 DEF Array
<1>8. /\ \A j \in 1 .. Filled(a) : j # i => arrays'[a].cells[j] = arrays[a].cells[j]
      /\ arrays'[a].cells[i] = [arrays[a].cells[i] EXCEPT !.Rem = Charged(c)]
      /\ Filled(a)' = Filled(a)
  <2>0. PICK old \in Seq(Worker) : old = arrays[a].cells
    BY <1>6
  <2>1. PICK j \in DOMAIN old : j = i
    BY <1>5, <2>0 DEF Filled
  <2>2. PICK w : w = [old[j] EXCEPT !.Rem = Charged(c)]
    OBVIOUS
  <2>3. /\ arrays'[a].cells = [old EXCEPT ![j] = w]
        /\ Len([old EXCEPT ![j] = w]) = Len(old)
    BY <1>7, <2>0, <2>1, <2>2
  <2> QED
    BY <2>0, <2>1, <2>2, <2>3 DEF Filled
<1>9. arrays'[a].cells[i].Loc = arrays[a].cells[i].Loc /\ arrays'[a].cells[i].Rem = Charged(c)
  BY <1>6, <1>8 DEF Worker
<1>10. \A d \in Clients : pc'[d] = "s_charge" =>
        d # c /\ pc[d] = "s_charge" /\ req'[d] = req[d]
  BY <1>4, ReturnFacts DEF IInv
<1>11. PICK C \in Charges : WithinTotal(C) /\ CoversCells(C) /\ CoversPending(C)
  BY DEF Accounted
<1>12. \A b \in DOMAIN arrays : Filled(b)' = Filled(b)
  BY <1>7, <1>8 DEF Filled
<1>13. WithinTotal(C)'
  <2>1. Total' = Total
    BY <1>4 DEF Total
  <2> QED
    BY <1>7, <1>11, <1>12, <2>1 DEF WithinTotal
<1>14. \A b \in DOMAIN arrays : \A j \in 1 .. Filled(b) :
         arrays'[b].cells[j].Loc = arrays[b].cells[j].Loc
  BY <1>7, <1>8, <1>9
<1>15. CoversCells(C)'
  <2> SUFFICES ASSUME NEW b \in DOMAIN arrays, NEW j \in 1 .. Filled(b),
                      arrays'[b].cells[j].Loc # NoLoc
               PROVE  Ram - arrays'[b].cells[j].Rem <= C[b][j]
    BY <1>7, <1>12 DEF CoversCells
  <2>1. arrays[b].cells[j].Loc # NoLoc
    BY <1>14
  <2>2. CASE b = a /\ j = i
    <3>1. Ram - (req[c].Rem - req[c].value) <= C[a][i]
      BY <1>4, <1>11, <1>2, <1>3, <2>1, <2>2 DEF CoversPending, Cell
    <3> QED
      BY <1>9, <2>2, <3>1 DEF Charged
  <2>3. CASE ~ (b = a /\ j = i)
    <3>1. arrays'[b].cells[j] = arrays[b].cells[j]
      BY <1>7, <1>8, <2>3
    <3> QED
      BY <1>11, <2>1, <3>1 DEF CoversCells
  <2> QED
    BY <2>2, <2>3
<1>16. CoversPending(C)'
  <2> SUFFICES ASSUME NEW d \in Clients, pc'[d] = "s_charge", Cell(d)'.Loc # NoLoc
               PROVE  Ram - (req'[d].Rem - req'[d].value) <= C[req'[d].array][req'[d].index]
    BY DEF CoversPending
  <2>1. pc[d] = "s_charge" /\ req'[d] = req[d]
    BY <1>10
  <2>2. req[d].array \in DOMAIN arrays /\ req[d].index \in 1 .. Filled(req[d].array)
    BY <2>1, PendingFacts DEF PointerPoints
  <2>3. Cell(d).Loc # NoLoc
    BY <1>14, <2>1, <2>2 DEF Cell
  <2> QED
    BY <1>11, <2>1, <2>3 DEF CoversPending
<1> QED
  BY <1>11, <1>13, <1>15, <1>16 DEF Accounted

\* append, where it writes over nobody: array b has one cell more than array a
\* has had, the new worker's, and no other array changes.
Extends(a, b, c) ==
  /\ DOMAIN arrays' = DOMAIN arrays \cup {b}
  /\ b \in Nat /\ a \in DOMAIN arrays
  /\ Filled(b)' = Filled(a) + 1
  /\ \A i \in 1 .. Filled(a) : arrays'[b].cells[i] = arrays[a].cells[i]
  /\ arrays'[b].cells[Filled(a) + 1] = NewWorker(c)
  /\ \A d \in DOMAIN arrays \ {b} : arrays'[d] = arrays[d]
  /\ b \in DOMAIN arrays => b = a

\* The new array, or the array with a new cell, takes over the numbers of the
\* cells that it copies; nothing has been charged through the new one.
LEMMA AppendAccounted ==
  ASSUME IInv, Accounted, NEW c \in Clients, Return(c), UNCHANGED charged,
         NEW a, NEW b, Extends(a, b, c)
  PROVE  Accounted'
<1>1. PICK C \in Charges : WithinTotal(C) /\ CoversCells(C) /\ CoversPending(C)
  BY DEF Accounted
<1>2. /\ a \in Nat /\ b \in Nat /\ a \in DOMAIN arrays
      /\ \A d \in DOMAIN arrays : Filled(d) \in Nat /\ d \in Nat
  BY ArrayFacts DEF IInv, Filled, Extends
<1>3. PICK n \in Nat : n = Filled(a)
  BY <1>2
<1>4. \A d \in Nat : C[d] \in [Nat -> Nat]
  BY <1>1 DEF Charges
<1>5. PICK D \in Charges : /\ \A d \in Nat \ {b} : D[d] = C[d]
                           /\ \A j \in Nat \ {n + 1} : D[b][j] = C[a][j]
                           /\ D[b][n + 1] = 0
  <2> DEFINE f == [C[a] EXCEPT ![n + 1] = 0]
             D == [C EXCEPT ![b] = f]
  <2>1. f \in [Nat -> Nat] /\ f[n + 1] = 0 /\ \A j \in Nat \ {n + 1} : f[j] = C[a][j]
    BY <1>2, <1>4
  <2> HIDE DEF f
  <2>2. D \in Charges /\ D[b] = f /\ \A d \in Nat \ {b} : D[d] = C[d]
    BY <1>1, <1>2, <2>1 DEF Charges
  <2> HIDE DEF D
  <2> QED
    BY <2>1, <2>2
<1>6. D[b] \in [Nat -> Nat]
  BY <1>2, <1>5 DEF Charges
<1>7. \A d \in Clients : pc'[d] = "s_charge" =>
        d # c /\ pc[d] = "s_charge" /\ req'[d] = req[d]
  BY ReturnFacts DEF IInv
<1>8. WithinTotal(D)'
  <2>0. Total' = Total /\ \A d \in DOMAIN arrays \ {b} : Filled(d)' = Filled(d)
    BY DEF Total, Extends, Filled
  <2>1. ASSUME NEW d \in DOMAIN arrays, d # b
        PROVE  SumFunctionOnSet(D[d], 1 .. Filled(d)') <= Total'
    BY <1>1, <1>2, <1>5, <2>0, <2>1 DEF WithinTotal
  <2>2. SumFunctionOnSet(D[b], 1 .. Filled(b)') <= Total'
    <3>1. SumFunctionOnSet(C[a], 1 .. n) <= Total
      BY <1>1, <1>2, <1>3 DEF WithinTotal
    <3>2. \A j \in 1 .. n : D[b][j] = C[a][j]
      BY <1>5
    <3>3. SumFunctionOnSet(D[b], 1 .. n) = SumFunctionOnSet(C[a], 1 .. n)
      BY <1>2, <1>4, <1>6, <3>2, SumOfSameCells
    <3>4. /\ SumFunctionOnSet(D[b], 1 .. n) \in Int
          /\ SumFunctionOnSet(D[b], 1 .. n + 1) = D[b][n + 1] + SumFunctionOnSet(D[b], 1 .. n)
      BY <1>6, SumOfCells
    <3>5. SumFunctionOnSet(D[b], 1 .. n + 1) = SumFunctionOnSet(D[b], 1 .. n)
      BY <1>5, <3>4
    <3>6. Filled(b)' = n + 1
      BY <1>3 DEF Extends
    <3> QED
      BY <2>0, <3>1, <3>3, <3>5, <3>6
  <2> QED
    BY <2>1, <2>2 DEF WithinTotal, Extends
<1>9. CoversCells(D)'
  <2> SUFFICES ASSUME NEW d \in DOMAIN arrays', NEW j \in 1 .. Filled(d)',
                      arrays'[d].cells[j].Loc # NoLoc
               PROVE  Ram - arrays'[d].cells[j].Rem <= D[d][j]
    BY DEF CoversCells
  <2>1. CASE d # b
    <3>1. d \in DOMAIN arrays /\ arrays'[d] = arrays[d] /\ Filled(d)' = Filled(d)
      BY <2>1 DEF Extends, Filled
    <3> QED
      BY <1>1, <1>2, <1>5, <2>1, <3>1 DEF CoversCells
  <2>2. CASE d = b /\ j # n + 1
    <3>1. j \in 1 .. Filled(a) /\ j \in Nat
      BY <1>3, <2>2 DEF Extends
    <3>2. arrays'[d].cells[j] = arrays[a].cells[j]
      BY <2>2, <3>1 DEF Extends
    <3> QED
      BY <1>1, <1>2, <1>5, <2>2, <3>1, <3>2 DEF CoversCells
  <2>3. CASE d = b /\ j = n + 1
    <3>1. arrays'[d].cells[j] = NewWorker(c)
      BY <1>3, <2>3 DEF Extends
    <3>2. arrays'[d].cells[j].Rem = Ram
      BY <3>1 DEF NewWorker
    <3>3. Ram - arrays'[d].cells[j].Rem = 0
      BY <3>2, ConstantsAssumption
    <3> QED
      BY <1>5, <2>3, <3>3
  <2> QED
    BY <2>1, <2>2, <2>3
<1>10. CoversPending(D)'
  <2> SUFFICES ASSUME NEW d \in Clients, pc'[d] = "s_charge", Cell(d)'.Loc # NoLoc
               PROVE  Ram - (req'[d].Rem - req'[d].value) <= D[req'[d].array][req'[d].index]
    BY DEF CoversPending
  <2>1. pc[d] = "s_charge" /\ req'[d] = req[d]
    BY <1>7
  <2>2. PICK e \in DOMAIN arrays : e = req[d].array
    BY <2>1, PendingFacts DEF PointerPoints
  <2>3. PICK j \in 1 .. Filled(e) : j = req[d].index
    BY <2>1, <2>2, PendingFacts DEF PointerPoints
  <2>4. e \in Nat /\ j \in Nat
    BY <1>2
  <2>5. arrays'[e].cells[j] = arrays[e].cells[j] /\ D[e][j] = C[e][j]
    <3>1. CASE e # b
      BY <1>5, <2>4, <3>1 DEF Extends
    <3>2. CASE e = b
      <4>1. e = a /\ j \in 1 .. n /\ j # n + 1
        BY <1>3, <3>2 DEF Extends
      <4> QED
        BY <1>3, <1>5, <2>4, <3>2, <4>1 DEF Extends
    <3> QED
      BY <3>1, <3>2
  <2>6. Cell(d)' = arrays'[e].cells[j] /\ Cell(d) = arrays[e].cells[j]
    BY <2>1, <2>2, <2>3 DEF Cell
  <2>7. Ram - (req[d].Rem - req[d].value) <= C[e][j]
    BY <1>1, <2>1, <2>2, <2>5, <2>6, <2>3 DEF CoversPending
  <2> QED
    BY <2>1, <2>2, <2>5, <2>7, <2>3
<1> QED
  BY <1>5, <1>8, <1>9, <1>10 DEF Accounted

\* Both ways of append are of this kind, if nobody is written over.
LEMMA AppendExtends ==
  ASSUME IInv, NEW c \in Clients, ~ overwritten',
         AppendInPlace(c) \/ AppendToNewArray(c)
  PROVE  \E a, b : Extends(a, b, c)
<1>1. PICK a \in DOMAIN arrays : a = req[c].array
  BY DEF AppendInPlace, AppendToNewArray, IInv, RequestsInOrder, InOrder
<1>2. a \in DOMAIN arrays /\ req[c].len \in Nat /\ req[c].len <= Filled(a)
  BY <1>1 DEF AppendInPlace, AppendToNewArray, IInv, RequestsInOrder, InOrder, TypeOK, Request, Filled
<1>3. /\ arrays[a] \in Array /\ arrays[a].cells \in Seq(Worker) /\ a \in Nat
      /\ Filled(a) \in Nat /\ Filled(a) <= arrays[a].capacity /\ arrays[a].capacity \in Nat
      /\ arrays \in Seq(Array) /\ NewWorker(c) \in Worker
  BY <1>2, ArrayFacts, NewWorkerType DEF IInv, TypeOK, Filled
<1>4. CASE AppendInPlace(c)
  <2> DEFINE n == req[c].len + 1
  <2>1. /\ ~ (n <= Filled(a))
        /\ arrays' = [arrays EXCEPT ![a].cells = Written(arrays[a].cells, n, NewWorker(c))]
    BY <1>1, <1>4 DEF AppendInPlace, Filled
  <2>2. n = Filled(a) + 1
    BY <1>2, <1>3, <2>1
  <2>3. PICK old \in Seq(Worker), w \in Worker : old = arrays[a].cells /\ w = NewWorker(c)
    BY <1>3
  <2>4. Len(old) \in Nat /\ n = Len(old) + 1 /\ n \in Nat \ {0}
    BY <1>2, <2>2, <2>3 DEF Filled
  <2> HIDE DEF n
  <2>5. /\ Len(Written(old, n, w)) = n /\ Written(old, n, w)[n] = w
        /\ \A i \in 1 .. Len(old) : Written(old, n, w)[i] = old[i]
    BY <2>4, WrittenFacts
  <2>6. /\ DOMAIN arrays' = DOMAIN arrays
        /\ \A d \in DOMAIN arrays \ {a} : arrays'[d] = arrays[d]
        /\ arrays'[a].cells = Written(old, n, w)
    BY <1>2, <1>3, <2>1, <2>3 DEF Array
  <2>7. Filled(a)' = n /\ Filled(a) = Len(old)
    BY <2>3, <2>5, <2>6 DEF Filled
  <2>8. Extends(a, a, c)
    BY <1>2, <1>3, <2>3, <2>4, <2>5, <2>6, <2>7 DEF Extends
  <2> QED
    BY <2>8
<1>5. CASE AppendToNewArray(c)
  <2>0. PICK b, old, w : b = Len(arrays) + 1 /\ old = arrays[a].cells /\ w = NewWorker(c)
    OBVIOUS
  <2> DEFINE cells == Append(old, w)
  <2>1. PICK new : arrays' = Append(arrays, new) /\ new.cells = cells
    BY <1>1, <1>5, <2>0 DEF AppendToNewArray
  <2>2. /\ b \in Nat /\ b \notin DOMAIN arrays /\ DOMAIN arrays' = DOMAIN arrays \cup {b}
        /\ arrays'[b] = new /\ \A d \in DOMAIN arrays : arrays'[d] = arrays[d]
    BY <1>3, <2>0, <2>1
  <2>3. /\ Len(cells) = Filled(a) + 1 /\ cells[Filled(a) + 1] = NewWorker(c)
        /\ \A i \in 1 .. Filled(a) : cells[i] = arrays[a].cells[i]
    BY <1>3, <2>0 DEF Filled
  <2> HIDE DEF cells
  <2>4. Filled(b)' = Len(cells) /\ arrays'[b].cells = cells
    BY <2>1, <2>2 DEF Filled
  <2>5. Extends(a, b, c)
    BY <1>2, <2>2, <2>3, <2>4 DEF Extends
  <2> QED
    BY <2>5
<1> QED
  BY <1>4, <1>5

\* Every step keeps the account, until an append writes over a worker.
LEMMA NextAccounted ==
  ASSUME IInv, overwritten \/ Accounted, [Next]_vars
  PROVE  (overwritten \/ Accounted)'
<1> SUFFICES ASSUME ~ overwritten' PROVE Accounted'
  OBVIOUS
<1>1. CASE UNCHANGED vars
  BY <1>1, AccountedSame DEF vars, proxy, request, history
<1>2. CASE Next
  <2>1. Accounted
    BY <1>2, NextAddressesKept
  <2>2. ASSUME NEW c \in Clients, AppendInPlace(c) \/ AppendToNewArray(c) PROVE Accounted'
    <3>1. Return(c) /\ UNCHANGED charged
      BY <2>2 DEF AppendInPlace, AppendToNewArray, history
    <3>2. PICK a, b : Extends(a, b, c)
      BY <2>2, AppendExtends
    <3> QED
      BY <2>1, <3>1, <3>2, AppendAccounted
  <2>3. ASSUME NEW c \in Clients,
               \/ \E loc \in Locs \cup {NoLoc} : AddWorker(c, loc)
               \/ \E k \in Keys, v \in Values : StoreValue(c, k, v)
               \/ \E k \in Keys : GetValue(c, k)
               \/ MostLeisureWorker(c) \/ SelectWorker(c) \/ NoWorker(c)
               \/ RecordKey(c) \/ Post(c) \/ WorkerStores(c) \/ NotStored(c)
               \/ PostFails(c) \/ Lookup(c) \/ UnknownKey(c) \/ WorkerGets(c) \/ GetFails(c)
        PROVE  Accounted'
    <3>1. UNCHANGED <<arrays, charged>>
      BY <2>3 DEF AddWorker, StoreValue, GetValue, MostLeisureWorker, SelectWorker, NoWorker,
         RecordKey, Post, WorkerStores, NotStored, PostFails, Lookup, UnknownKey, WorkerGets,
           GetFails,
         proxy, history
    <3>2. /\ pc = [d \in Clients |-> pc[d]] /\ req = [d \in Clients |-> req[d]]
      BY DEF IInv, TypeOK
    <3>3. PICK p, r : /\ pc' = [pc EXCEPT ![c] = p] /\ p # "s_charge"
                      /\ req' = [req EXCEPT ![c] = r]
      <4>1. PICK p : pc' = [pc EXCEPT ![c] = p] /\ p # "s_charge"
        BY <2>3 DEF AddWorker, StoreValue, GetValue, MostLeisureWorker, SelectWorker, NoWorker,
           RecordKey, Post, WorkerStores, NotStored, PostFails, Lookup, UnknownKey, WorkerGets,
           GetFails,
           Arrives, Go, Return
      <4>2. \/ req' = req
            \/ \E r : req' = [req EXCEPT ![c] = r]
        BY <2>3, <3>2 DEF AddWorker, StoreValue, GetValue, MostLeisureWorker, SelectWorker, NoWorker,
           RecordKey, Post, WorkerStores, NotStored, PostFails, Lookup, UnknownKey, WorkerGets,
           GetFails,
           Arrives, Return
      <4>3. req = [req EXCEPT ![c] = req[c]]
        BY <3>2
      <4> QED
        BY <4>1, <4>2, <4>3
    <3>4. \A d \in Clients : pc'[d] = "s_charge" => pc[d] = "s_charge" /\ req'[d] = req[d]
      BY <3>2, <3>3
    <3> QED
      BY <2>1, <3>1, <3>4, AccountedSame
  <2>4. ASSUME NEW loc \in Failing, WorkerRestarts(loc) PROVE Accounted'
    BY <2>1, <2>4, AccountedSame DEF WorkerRestarts, proxy, request, history
  <2>5. ASSUME NEW c \in Clients, Reply(c) \/ Charge(c) PROVE Accounted'
    BY <2>1, <2>5, ReplyAccounted, ChargeAccounted
  <2> QED
    BY <1>2, <2>2, <2>3, <2>4, <2>5 DEF Next, Step
<1> QED
  BY <1>1, <1>2

\* What the slice says is taken from the workers' memory is never more than the
\* stores answered with success were charged: whoever reads and writes Rem in
\* between, in whichever array, and wherever append moves the slice, as long as
\* no append writes over another one's worker.
THEOREM RemIsNeverOvercharged == Spec => []NeverOvercharged
<1>1. IInv /\ (overwritten \/ Accounted) /\ [Next]_vars => (overwritten \/ Accounted)'
  BY NextAccounted
<1>2. ASSUME IInv, overwritten \/ Accounted PROVE NeverOvercharged
  <2> DEFINE P == {i \in Indices : Cells[i].Loc # NoLoc}
             a == Workers.array
             f == [i \in P |-> Ram - Cells[i].Rem]
  <2> SUFFICES ASSUME ~ overwritten
               PROVE  SumFunction(f) <= SumFunction(charged)
    BY DEF NeverOvercharged, Taken
  <2>1. PICK C \in Charges : WithinTotal(C) /\ CoversCells(C)
    BY <1>2 DEF Accounted
  <2>2. /\ a \in DOMAIN arrays /\ Workers.len \in Nat /\ Workers.len <= Filled(a)
        /\ a \in Nat /\ Filled(a) \in Nat /\ Cells = arrays[a].cells
    <3>1. a \in DOMAIN arrays /\ Workers.len \in Nat /\ Workers.len <= Filled(a)
      BY <1>2 DEF IInv, TypeOK, Cells, Filled
    <3> QED
      BY <1>2, <3>1, ArrayFacts DEF IInv, Filled, Cells
  <2> DEFINE S == 1 .. Filled(a)
             e == C[a]
  <2>3. IsFiniteSet(S) /\ P \in SUBSET S
    <3>1. IsFiniteSet(S)
      <4>1. 1 \in Int /\ Filled(a) \in Int
        BY <2>2
      <4> QED
        BY ONLY <4>1, FS_Interval DEF S
    <3>2. Indices \subseteq S
      BY <2>2 DEF Indices
    <3> QED
      BY <3>1, <3>2
  <2>4. \A i \in P : f[i] \in Int /\ f[i] <= e[i]
    <3> TAKE i \in P
    <3>1. i \in 1 .. Filled(a) /\ Cells[i].Loc # NoLoc
      BY <2>3
    <3>2. Cells[i].Rem \in Int
      BY <1>2, <2>2, <3>1, CellFacts
    <3>3. Ram - Cells[i].Rem <= C[a][i]
      BY <2>1, <2>2, <3>1 DEF CoversCells
    <3> QED
      BY <3>2, <3>3, ConstantsAssumption
  <2>5. \A i \in S : e[i] \in Int /\ e[i] >= 0
    <3>1. C[a] \in [Nat -> Nat]
      BY <2>1, <2>2 DEF Charges
    <3> TAKE i \in S
    <3>2. i \in Nat
      BY <2>2
    <3> HIDE DEF S
    <3>3. C[a][i] \in Nat
      BY <3>1, <3>2
    <3> QED
      BY <3>3
  <2>6. SumFunctionOnSet(e, S) <= Total
    BY <2>1, <2>2 DEF WithinTotal
  <2>7. SumFunction(f) = SumFunctionOnSet(f, P)
    BY DEF SumFunction
  <2>8. SumFunction(charged) = Total
    BY <1>2 DEF SumFunction, Total, IInv, TypeOK
  <2>9. Total \in Int
    BY <1>2, TotalType DEF IInv
  <2>10. SumFunctionOnSet(e, S) \in Int /\ SumFunctionOnSet(f, P) \in Int
         /\ SumFunctionOnSet(f, P) <= SumFunctionOnSet(e, S)
    <3>1. IsFiniteSet(P)
      BY <2>3, FS_Subset
    <3> HIDE DEF P, S, f, e
    <3>2. \A i \in S : e[i] \in Int
      BY <2>5
    <3>3. \A i \in S \ P : e[i] >= 0
      BY <2>5
    <3>4. \A i \in P : f[i] \in Int
      BY <2>4
    <3>5. SumFunctionOnSet(e, S) \in Int
      BY ONLY <2>3, <3>2, SumType
    <3>6. SumFunctionOnSet(f, P) \in Int
      BY ONLY <3>1, <3>4, SumType
    <3>7. SumFunctionOnSet(f, P) <= SumFunctionOnSet(e, S)
      BY ONLY <2>3, <2>4, <3>2, <3>3, SumGrows
    <3> QED
      BY <3>5, <3>6, <3>7
  <2> HIDE DEF P, S, f, e
  <2> QED
    BY <2>6, <2>7, <2>8, <2>9, <2>10
<1> QED
  BY <1>1, <1>2, InitAccounted, Invariance, PTL DEF Spec
==============================================================================
