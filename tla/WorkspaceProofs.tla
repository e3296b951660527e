-------------------------- MODULE WorkspaceProofs --------------------------
(* Proofs about Workspace: who owns the databases of the traces, what the  *)
(* loader and the handlers find when they go on, and the counts of the     *)
(* windows, for any number of traces, windows, layouts and handlers that   *)
(* wait.                                                                   *)
EXTENDS Workspace, FiniteSetTheorems, SequenceTheorems, TLAPS

-----------------------------------------------------------------------------
(* The inductive invariant.                                                *)

TraceRecord == [db : Nat, id : Int]

(* The open traces: one for each database, with its place as its id.       *)
TracesOK ==
    /\ traces \in Seq(TraceRecord)
    /\ \A j, k \in DOMAIN traces : traces[j].db = traces[k].db => j = k

(* A database has the number of the order in which it was made.            *)
DBsOK == opened \in Nat /\ dbs \subseteq 1..opened

CallsOK ==
    /\ calls \in Seq(Range(calls))
    /\ \A k \in DOMAIN calls : "call" \in DOMAIN calls[k]

(* LoaderAlive, and a handler of the loader waits only while loading.      *)
LoaderOK ==
    /\ loading \in BOOLEAN
    /\ loading <=> dreamsdb # NULL
    /\ dreamsdb # NULL => dreamsdb \in dbs \ OpenTraces
    /\ timer \/ progress => loading /\ Loaders = {}
    /\ \A j, k \in Loaders : j = k
    /\ \A k \in Loaders : calls[k].db = dreamsdb
    /\ Loaders # {} => loading
    /\ loading => timer \/ Loaders # {}

IInv == TracesOK /\ TraceIds /\ DBsOK /\ CallsOK /\ DBsOwned /\ LoaderOK

LEMMA InitIInv == Init => IInv
<1> SUFFICES ASSUME Init PROVE IInv
  OBVIOUS
<1>1. TracesOK /\ TraceIds
  BY DEF Init, TracesOK, TraceIds
<1>2. OpenTraces = {} /\ Loaders = {}
  BY DEF Init, OpenTraces, Loaders
<1>3. CallsOK
  BY DEF Init, CallsOK, Range
<1>4. DBsOK /\ DBsOwned /\ LoaderOK
  BY <1>2 DEF Init, DBsOK, DBsOwned, LoaderOK
<1>5. QED
  BY <1>1, <1>3, <1>4 DEF IInv

(* There is one handler of the loader at most.                             *)
LEMMA IInvAlive == IInv => LoaderAlive
<1> SUFFICES ASSUME IInv PROVE LoaderAlive
  OBVIOUS
<1>1. Cardinality(Loaders) <= 1
  <2>1. CASE Loaders = {}
    BY <2>1, FS_EmptySet
  <2>2. CASE Loaders # {}
    <3>1. PICK k \in Loaders : TRUE
      BY <2>2
    <3>2. Loaders = {k}
      BY <3>1 DEF IInv, LoaderOK
    <3>3. QED
      BY <3>2, FS_Singleton
  <2>3. QED
    BY <2>1, <2>2
<1>2. QED
  BY <1>1 DEF IInv, LoaderOK, LoaderAlive

-----------------------------------------------------------------------------
(* The stack of the handlers.                                              *)

LEMMA AppendAny ==
    ASSUME NEW s, s \in Seq(Range(s)), NEW e
    PROVE  /\ Append(s, e) \in Seq(Range(Append(s, e)))
           /\ DOMAIN Append(s, e) = 1..(Len(s) + 1)
           /\ DOMAIN s = 1..Len(s) /\ Len(s) \in Nat
           /\ \A k \in 1..Len(s) : Append(s, e)[k] = s[k]
           /\ Append(s, e)[Len(s) + 1] = e
<1> DEFINE S == Range(s) \cup {e}
           t == Append(s, e)
<1>1. s \in Seq(S)
  BY DEF Range
<1>2. /\ t \in Seq(S) /\ DOMAIN t = 1..(Len(s) + 1)
      /\ Len(s) \in Nat /\ DOMAIN s = 1..Len(s) /\ Len(t) = Len(s) + 1
  BY <1>1
<1>3. (\A k \in 1..Len(s) : t[k] = s[k]) /\ t[Len(s) + 1] = e
  BY <1>1
<1>4. t \in Seq(Range(t))
  BY <1>2, <1>3 DEF Range
<1> QED
  BY <1>2, <1>3, <1>4

LEMMA FrontAny ==
    ASSUME NEW s, s \in Seq(Range(s)), s # <<>>
    PROVE  /\ Front(s) \in Seq(Range(Front(s)))
           /\ DOMAIN Front(s) = 1..(Len(s) - 1) /\ Len(Front(s)) = Len(s) - 1
           /\ DOMAIN s = 1..Len(s) /\ Len(s) \in Nat \ {0}
           /\ \A k \in 1..(Len(s) - 1) : Front(s)[k] = s[k]
           /\ Last(s) = s[Len(s)]
<1> DEFINE t == Front(s)
<1>1. DOMAIN s = 1..Len(s) /\ Len(s) \in Nat \ {0}
  OBVIOUS
<1>2. t = [k \in 1..(Len(s) - 1) |-> s[k]]
  BY <1>1 DEF Front
<1>3. t \in Seq(Range(t))
  <2>1. \A k \in 1..(Len(s) - 1) : t[k] \in Range(t)
    BY <1>2 DEF Range
  <2>2. t = [k \in 1..(Len(s) - 1) |-> t[k]] /\ Len(s) - 1 \in Nat
    BY <1>1, <1>2
  <2>3. QED
    BY <2>1, <2>2
<1>4. Len(t) = Len(s) - 1
  <2>1. Len(s) - 1 \in Nat /\ DOMAIN t = 1..(Len(s) - 1)
    BY <1>1, <1>2
  <2>2. QED
    BY <1>3, <2>1
<1> QED
  BY <1>1, <1>2, <1>3, <1>4 DEF Last

-----------------------------------------------------------------------------
(* The open traces.                                                        *)

(* What is left of a sequence without one of its elements.                *)
LEMMA RemoveAtFacts ==
    ASSUME NEW S, NEW s \in Seq(S), NEW p \in 1..Len(s)
    PROVE  /\ RemoveAt(s, p) \in Seq(S) /\ Len(RemoveAt(s, p)) = Len(s) - 1
           /\ DOMAIN RemoveAt(s, p) = 1..(Len(s) - 1)
           /\ \A k \in 1..(Len(s) - 1) : RemoveAt(s, p)[k] = s[IF k < p THEN k ELSE k + 1]
<1> DEFINE n == Len(s)
           a == SubSeq(s, 1, p - 1)
           b == SubSeq(s, p + 1, n)
<1>1. n \in Nat /\ p \in Nat /\ 1 <= p /\ p <= n
  OBVIOUS
<1>2. a \in Seq(S) /\ Len(a) = p - 1 /\ \A k \in 1..(p - 1) : a[k] = s[k]
  <2>1. p - 1 \in 0..n
    BY <1>1
  <2>2. QED
    BY <1>1, <2>1
<1>3. b \in Seq(S) /\ Len(b) = n - p /\ \A k \in 1..(n - p) : b[k] = s[p + k]
  <2>1. b = [k \in 1..(n - p) |-> s[k + (p + 1) - 1]]
    BY <1>1
  <2>2. \A k \in 1..(n - p) : k + (p + 1) - 1 = p + k /\ p + k \in 1..n
    BY <1>1
  <2>3. \A k \in 1..(n - p) : b[k] = s[p + k] /\ b[k] \in S
    BY <2>1, <2>2
  <2>4. n - p \in Nat
    BY <1>1
  <2>5. b \in Seq(S) /\ DOMAIN b = 1..(n - p)
    BY <2>1, <2>3, <2>4
  <2>6. Len(b) = n - p
    BY <2>4, <2>5
  <2>7. QED
    BY <2>3, <2>5, <2>6
<1>4. RemoveAt(s, p) = a \o b
  BY DEF RemoveAt
<1> HIDE DEF a, b, n
<1>5. /\ a \o b \in Seq(S) /\ Len(a \o b) = n - 1 /\ DOMAIN (a \o b) = 1..(n - 1)
      /\ \A k \in 1..(n - 1) : (a \o b)[k] = IF k <= p - 1 THEN a[k] ELSE b[k - (p - 1)]
  <2>1. Len(a) + Len(b) = n - 1
    BY <1>1, <1>2, <1>3
  <2>2. a \o b \in Seq(S) /\ Len(a \o b) = Len(a) + Len(b)
    BY <1>2, <1>3, ConcatProperties
  <2>3. \A k \in 1..(Len(a) + Len(b)) :
           (a \o b)[k] = IF k <= Len(a) THEN a[k] ELSE b[k - Len(a)]
    BY <1>2, <1>3, ConcatProperties
  <2>4. Len(a \o b) = n - 1 /\ DOMAIN (a \o b) = 1..(n - 1)
    BY <2>1, <2>2
  <2>5. \A k \in 1..(n - 1) : (a \o b)[k] = IF k <= p - 1 THEN a[k] ELSE b[k - (p - 1)]
    BY <1>2, <2>1, <2>3
  <2>6. QED
    BY <2>2, <2>4, <2>5
<1>6. ASSUME NEW k \in 1..(n - 1) PROVE (a \o b)[k] = s[IF k < p THEN k ELSE k + 1]
  <2>1. CASE k < p
    BY <1>1, <1>2, <1>5, <2>1
  <2>2. CASE k >= p
    <3>1. k - (p - 1) \in 1..(n - p) /\ p + (k - (p - 1)) = k + 1 /\ ~(k <= p - 1) /\ ~(k < p)
      BY <1>1, <2>2
    <3>2. b[k - (p - 1)] = s[k + 1]
      BY <1>3, <3>1
    <3>3. QED
      BY <1>5, <3>1, <3>2
  <2>3. k < p \/ k >= p
    BY <1>1
  <2>4. QED
    BY <2>1, <2>2, <2>3, Zenon
<1>7. QED
  BY <1>4, <1>5, <1>6 DEF n

(* removeTrace takes one trace out and gives the others their new places.  *)
LEMMA RemovedTraces ==
    ASSUME TracesOK, TraceIds, NEW db \in OpenTraces, Removed(db)
    PROVE  /\ TracesOK' /\ TraceIds'
           /\ OpenTraces' = OpenTraces \ {db} /\ dbs' = dbs \ {db}
<1> DEFINE p == CHOOSE k \in DOMAIN traces : traces[k].db = db
<1>1. p \in DOMAIN traces /\ traces[p].db = db
  BY DEF OpenTraces
<1>2. /\ traces' = [k \in DOMAIN RemoveAt(traces, p) |-> Renumbered(k, RemoveAt(traces, p)[k])]
      /\ dbs' = dbs \ {db}
  BY DEF Removed
<1> HIDE DEF p
<1>3. PICK s : s = traces
  OBVIOUS
<1>4. PICK t : t = traces'
  OBVIOUS
<1>5. PICK q : q = p
  OBVIOUS
<1>6. /\ s \in Seq(TraceRecord) /\ \A k \in DOMAIN s : s[k].id = k - 1
      /\ \A j, k \in DOMAIN s : s[j].db = s[k].db => j = k
      /\ q \in DOMAIN s /\ s[q].db = db
      /\ t = [k \in DOMAIN RemoveAt(s, q) |-> Renumbered(k, RemoveAt(s, q)[k])]
  BY <1>1, <1>2, <1>3, <1>4, <1>5 DEF TracesOK, TraceIds
<1>7. /\ t \in Seq(TraceRecord) /\ \A k \in DOMAIN t : t[k].id = k - 1
      /\ \A j, k \in DOMAIN t : t[j].db = t[k].db => j = k
      /\ {t[k].db : k \in DOMAIN t} = {s[k].db : k \in DOMAIN s} \ {s[q].db}
  <2>1. PICK n \in Nat : n = Len(s)
    BY <1>6
  <2>2. DOMAIN s = 1..n /\ q \in 1..n
    BY <1>6, <2>1
  <2> DEFINE from == [k \in 1..(n - 1) |-> IF k < q THEN k ELSE k + 1]
  <2>a. PICK at : at = from
    OBVIOUS
  <2>b. \A k \in 1..(n - 1) : at[k] = IF k < q THEN k ELSE k + 1
    BY <2>a
  <2>3. DOMAIN t = 1..(n - 1) /\ \A k \in 1..(n - 1) : t[k] = Renumbered(k, s[at[k]])
    <3>1. PICK left : left = RemoveAt(s, q)
      OBVIOUS
    <3>2. DOMAIN left = 1..(n - 1) /\ \A k \in 1..(n - 1) : left[k] = s[at[k]]
      <4>1. /\ DOMAIN left = 1..(Len(s) - 1)
            /\ \A k \in 1..(Len(s) - 1) : left[k] = s[IF k < q THEN k ELSE k + 1]
        <5>1. q \in 1..Len(s)
          BY <2>1, <2>2
        <5>2. QED
          BY <1>6, <3>1, <5>1, RemoveAtFacts
      <4>2. QED
        BY <2>1, <2>b, <4>1
    <3>3. t = [k \in DOMAIN left |-> Renumbered(k, left[k])]
      BY <1>6, <3>1
    <3>4. QED
      BY <3>2, <3>3
  <2>4. \A k \in 1..(n - 1) : at[k] \in 1..n /\ at[k] # q /\ (at[k] = k \/ at[k] = k + 1)
    BY <2>2, <2>b
  <2>5. \A j, k \in 1..(n - 1) : at[j] = at[k] => j = k
    BY <2>2, <2>b
  <2>6. \A j \in 1..n : j # q => \E k \in 1..(n - 1) : at[k] = j
    <3> SUFFICES ASSUME NEW j \in 1..n, j # q PROVE \E k \in 1..(n - 1) : at[k] = j
      OBVIOUS
    <3>1. CASE j < q
      BY <2>2, <2>b, <3>1
    <3>2. CASE j > q
      <4>1. j - 1 \in 1..(n - 1) /\ at[j - 1] = j
        BY <2>2, <2>b, <3>2
      <4>2. QED
        BY <4>1
    <3>3. QED
      BY <2>2, <3>1, <3>2
  <2> HIDE DEF from
  <2>7. ASSUME NEW k \in 1..(n - 1)
        PROVE  t[k] \in TraceRecord /\ t[k].db = s[at[k]].db /\ t[k].id = k - 1
    <3>1. PICK u \in TraceRecord : u = s[at[k]]
      BY <1>6, <2>1, <2>2, <2>4
    <3>2. u.id = at[k] - 1
      BY <1>6, <2>2, <2>4, <3>1
    <3>3. t[k] = IF u.id >= k THEN [u EXCEPT !.id = @ - 1] ELSE u
      BY <2>3, <3>1 DEF Renumbered
    <3>4. t[k] \in TraceRecord /\ t[k].db = u.db /\ t[k].id = k - 1
      <4>1. CASE at[k] = k
        BY <3>2, <3>3, <4>1 DEF TraceRecord
      <4>2. CASE at[k] = k + 1
        <5>1. k \in Int /\ u.id = k
          BY <3>2, <4>2
        <5>2. t[k] = [u EXCEPT !.id = u.id - 1]
          BY <3>3, <5>1
        <5>3. QED
          BY <5>1, <5>2 DEF TraceRecord
      <4>3. QED
        BY <2>4, <4>1, <4>2
    <3>5. QED
      BY <3>1, <3>4
  <2>8. t \in Seq(TraceRecord)
    <3>1. t = [k \in 1..(n - 1) |-> t[k]]
      BY <1>6, <2>3
    <3>2. n - 1 \in Nat
      BY <2>2
    <3>3. QED
      BY <2>7, <3>1, <3>2
  <2>9. ASSUME NEW j \in 1..(n - 1), NEW k \in 1..(n - 1), t[j].db = t[k].db
        PROVE  j = k
    <3>1. s[at[j]].db = s[at[k]].db
      BY <2>7, <2>9
    <3>2. at[j] = at[k]
      BY <1>6, <2>2, <2>4, <3>1
    <3>3. QED
      BY <2>5, <3>2
  <2>10. {t[k].db : k \in DOMAIN t} = {s[k].db : k \in DOMAIN s} \ {s[q].db}
    <3>1. ASSUME NEW k \in DOMAIN t
          PROVE  t[k].db \in {s[j].db : j \in DOMAIN s} /\ t[k].db # s[q].db
      <4>1. t[k].db = s[at[k]].db /\ at[k] \in DOMAIN s /\ at[k] # q
        BY <2>2, <2>3, <2>4, <2>7
      <4>2. QED
        BY <1>6, <4>1
    <3>2. ASSUME NEW j \in DOMAIN s, s[j].db # s[q].db
          PROVE  \E k \in DOMAIN t : t[k].db = s[j].db
      <4>1. PICK k \in 1..(n - 1) : at[k] = j
        BY <2>2, <2>6, <3>2
      <4>2. QED
        BY <2>3, <2>7, <4>1
    <3>3. QED
      BY <3>1, <3>2
  <2>11. QED
    BY <2>3, <2>7, <2>8, <2>9, <2>10
<1>8. TracesOK' /\ TraceIds'
  <2>1. /\ traces' \in Seq(TraceRecord) /\ \A k \in DOMAIN traces' : traces'[k].id = k - 1
        /\ \A j, k \in DOMAIN traces' : traces'[j].db = traces'[k].db => j = k
    BY <1>4, <1>7, Zenon
  <2>2. QED
    BY <2>1, Zenon DEF TracesOK, TraceIds
<1>9. OpenTraces' = OpenTraces \ {db}
  <2>1. OpenTraces' = {t[k].db : k \in DOMAIN t}
    BY <1>4, Zenon DEF OpenTraces
  <2>2. OpenTraces = {s[k].db : k \in DOMAIN s}
    BY <1>3, Zenon DEF OpenTraces
  <2>3. QED
    BY <1>6, <1>7, <2>1, <2>2
<1>10. QED
  BY <1>2, <1>8, <1>9

-----------------------------------------------------------------------------
(* Steps that leave the loader alone.                                      *)

LoaderCalls == {"open", "stopRead", "cancelRead"}

(* The handlers of the loader wait where they waited, for the same trace.  *)
CallsKept ==
    /\ CallsOK'
    /\ Loaders' = Loaders
    /\ \A k \in Loaders : calls'[k].db = calls[k].db

LEMMA SameCalls == ASSUME CallsOK, calls' = calls PROVE CallsKept
BY DEF CallsOK, CallsKept, Loaders

LEMMA PushedCalls ==
    ASSUME CallsOK, NEW e, "call" \in DOMAIN e, e.call \notin LoaderCalls, calls' = Append(calls, e)
    PROVE  CallsKept
<1>1. /\ calls' \in Seq(Range(calls')) /\ DOMAIN calls' = 1..(Len(calls) + 1)
      /\ Len(calls) \in Nat /\ DOMAIN calls = 1..Len(calls)
      /\ \A k \in 1..Len(calls) : calls'[k] = calls[k]
      /\ calls'[Len(calls) + 1] = e
  BY AppendAny DEF CallsOK
<1>2. CallsOK'
  BY <1>1 DEF CallsOK
<1>3. Loaders' = Loaders /\ \A k \in Loaders : calls'[k].db = calls[k].db
  BY <1>1 DEF Loaders, LoaderCalls
<1>4. QED
  BY <1>2, <1>3 DEF CallsKept

LEMMA PoppedCalls ==
    ASSUME CallsOK, calls # <<>>, Top.call \notin LoaderCalls, calls' = Front(calls)
    PROVE  CallsKept
<1>1. /\ calls' \in Seq(Range(calls')) /\ DOMAIN calls' = 1..(Len(calls) - 1)
      /\ Len(calls) \in Nat \ {0} /\ DOMAIN calls = 1..Len(calls)
      /\ \A k \in 1..(Len(calls) - 1) : calls'[k] = calls[k]
      /\ Top = calls[Len(calls)]
  BY FrontAny DEF CallsOK, Top
<1>2. CallsOK'
  BY <1>1 DEF CallsOK
<1>3. Loaders' = Loaders /\ \A k \in Loaders : calls'[k].db = calls[k].db
  BY <1>1 DEF Loaders, LoaderCalls
<1>4. QED
  BY <1>2, <1>3 DEF CallsKept

LEMMA ReplacedCalls ==
    ASSUME CallsOK, calls # <<>>, Top.call \notin LoaderCalls,
           NEW e, "call" \in DOMAIN e, e.call \notin LoaderCalls, calls' = Append(Front(calls), e)
    PROVE  CallsKept
<1>1. PICK f : f = Front(calls)
  OBVIOUS
<1>2. /\ f \in Seq(Range(f)) /\ DOMAIN f = 1..(Len(calls) - 1) /\ Len(f) = Len(calls) - 1
      /\ Len(calls) \in Nat \ {0} /\ DOMAIN calls = 1..Len(calls)
      /\ \A k \in 1..(Len(calls) - 1) : f[k] = calls[k]
      /\ Top = calls[Len(calls)]
  BY <1>1, FrontAny DEF CallsOK, Top
<1>3. /\ calls' \in Seq(Range(calls')) /\ DOMAIN calls' = 1..Len(calls)
      /\ \A k \in 1..(Len(calls) - 1) : calls'[k] = calls[k]
      /\ calls'[Len(calls)] = e
  <2>1. /\ Append(f, e) \in Seq(Range(Append(f, e))) /\ DOMAIN Append(f, e) = 1..(Len(f) + 1)
        /\ \A k \in 1..Len(f) : Append(f, e)[k] = f[k]
        /\ Append(f, e)[Len(f) + 1] = e
    BY <1>2, AppendAny
  <2>2. calls' = Append(f, e)
    BY <1>1
  <2>3. QED
    BY <1>2, <2>1, <2>2
<1>4. CallsOK'
  BY <1>3 DEF CallsOK
<1>5. Loaders' = Loaders /\ \A k \in Loaders : calls'[k].db = calls[k].db
  <2>1. ASSUME NEW k \in DOMAIN calls
        PROVE  /\ calls'[k].call \in LoaderCalls <=> calls[k].call \in LoaderCalls
               /\ calls[k].call \in LoaderCalls => calls'[k] = calls[k]
    <3>1. CASE k = Len(calls)
      BY <1>2, <1>3, <3>1
    <3>2. CASE k \in 1..(Len(calls) - 1)
      BY <1>3, <3>2
    <3>3. k = Len(calls) \/ k \in 1..(Len(calls) - 1)
      BY <1>2
    <3>4. QED
      BY <3>1, <3>2, <3>3, Zenon
  <2>2. QED
    BY <1>2, <1>3, <2>1 DEF Loaders, LoaderCalls
<1>6. QED
  BY <1>4, <1>5 DEF CallsKept

(* What the windows change in the handlers that close a trace.             *)
LEMMA MovedOffCalls ==
    ASSUME CallsOK, NEW w, NEW c, c = MovedOff(w)
    PROVE  /\ c \in Seq(Range(c)) /\ DOMAIN c = DOMAIN calls
           /\ \A k \in DOMAIN calls :
                 calls[k].call \in LoaderCalls => c[k] = calls[k]
           /\ \A k \in DOMAIN calls : c[k].call = calls[k].call /\ "call" \in DOMAIN c[k]
           /\ \A k \in DOMAIN calls :
                 ~(calls[k].call = "traceClose" /\ calls[k].next = w) => c[k] = calls[k]
<1> DEFINE to == LET rest == Only(mdiList, ToSet(mdiList) \ {w})
                 IN  IF Following(w) # 0 \/ rest = <<>> THEN Following(w) ELSE Last(rest)
<1>1. DOMAIN c = DOMAIN calls /\ \A k \in DOMAIN calls :
          c[k] = IF calls[k].call = "traceClose" /\ calls[k].next = w
                 THEN [calls[k] EXCEPT !.next = to] ELSE calls[k]
  BY Zenon DEF MovedOff
<1> HIDE DEF to
<1>2. ASSUME NEW k \in DOMAIN calls
      PROVE  /\ calls[k].call \in LoaderCalls => c[k] = calls[k]
             /\ c[k].call = calls[k].call /\ "call" \in DOMAIN c[k]
             /\ ~(calls[k].call = "traceClose" /\ calls[k].next = w) => c[k] = calls[k]
  <2>1. CASE calls[k].call = "traceClose" /\ calls[k].next = w
    <3>1. c[k] = [calls[k] EXCEPT !.next = to] /\ "call" \in DOMAIN calls[k]
      BY <1>1, <2>1 DEF CallsOK
    <3>2. c[k].call = calls[k].call /\ "call" \in DOMAIN c[k]
      BY <3>1
    <3>3. QED
      BY <2>1, <3>2 DEF LoaderCalls
  <2>2. CASE ~(calls[k].call = "traceClose" /\ calls[k].next = w)
    BY <1>1, <2>2 DEF CallsOK
  <2>3. QED
    BY <2>1, <2>2
<1>3. c \in Seq(Range(c))
  <2>1. DOMAIN calls = 1..Len(calls) /\ Len(calls) \in Nat
    BY DEF CallsOK
  <2>2. c = [k \in DOMAIN calls |-> c[k]]
    BY DEF MovedOff
  <2>3. \A k \in DOMAIN calls : c[k] \in Range(c)
    BY <1>1 DEF Range
  <2>4. QED
    BY <2>1, <2>2, <2>3
<1>4. QED
  BY <1>1, <1>2, <1>3

LEMMA MovedCalls ==
    ASSUME CallsOK, NEW w, calls' = MovedOff(w)
    PROVE  CallsKept
<1>1. PICK c : c = MovedOff(w)
  OBVIOUS
<1>2. /\ c \in Seq(Range(c)) /\ DOMAIN c = DOMAIN calls
      /\ \A k \in DOMAIN calls : calls[k].call \in LoaderCalls => c[k] = calls[k]
      /\ \A k \in DOMAIN calls : c[k].call = calls[k].call /\ "call" \in DOMAIN c[k]
  BY <1>1, MovedOffCalls
<1>3. calls' = c
  BY <1>1
<1>4. QED
  BY <1>2, <1>3 DEF CallsOK, CallsKept, Loaders, LoaderCalls

(* The handler on top has closed its window.                               *)
LEMMA ClosedCalls ==
    ASSUME CallsOK, calls # <<>>, Top.call \notin LoaderCalls, NEW w, CloseNext(w)
    PROVE  /\ CallsKept
           /\ DOMAIN calls' = 1..Len(calls)
           /\ \A k \in DOMAIN calls : calls'[k].call = calls[k].call
           /\ ~(Top.call = "traceClose" /\ Top.next = w)
                 => calls'[Len(calls)] = [Top EXCEPT !.closed = TRUE]
<1>1. PICK c : c = IF Erases THEN MovedOff(w) ELSE calls
  OBVIOUS
<1>2. /\ c \in Seq(Range(c)) /\ DOMAIN c = DOMAIN calls
      /\ \A k \in DOMAIN calls : calls[k].call \in LoaderCalls => c[k] = calls[k]
      /\ \A k \in DOMAIN calls : c[k].call = calls[k].call /\ "call" \in DOMAIN c[k]
      /\ \A k \in DOMAIN calls :
            ~(calls[k].call = "traceClose" /\ calls[k].next = w) => c[k] = calls[k]
  <2>1. CASE Erases
    BY <1>1, <2>1, MovedOffCalls
  <2>2. CASE ~Erases
    BY <1>1, <2>2 DEF CallsOK
  <2>3. QED
    BY <2>1, <2>2
<1>3. calls' = [c EXCEPT ![Len(calls)].closed = TRUE]
  BY <1>1 DEF CloseNext
<1>4. /\ DOMAIN calls = 1..Len(calls) /\ Len(calls) \in DOMAIN calls
      /\ calls[Len(calls)].call \notin LoaderCalls /\ Top = calls[Len(calls)]
  BY FrontAny DEF CallsOK, Top
<1>5. PICK r : r = [c[Len(calls)] EXCEPT !.closed = TRUE]
  OBVIOUS
<1>6. r.call = c[Len(calls)].call /\ "call" \in DOMAIN r
  BY <1>2, <1>4, <1>5
<1>7. calls' = [k \in DOMAIN calls |-> IF k = Len(calls) THEN r ELSE c[k]]
  BY <1>2, <1>3, <1>4, <1>5
<1>8. /\ DOMAIN calls' = 1..Len(calls) /\ Len(calls) \in Nat
      /\ \A k \in DOMAIN calls : calls'[k] = IF k = Len(calls) THEN r ELSE c[k]
  BY <1>4, <1>7 DEF CallsOK
<1>9. calls' \in Seq(Range(calls'))
  <2>1. \A k \in 1..Len(calls) : calls'[k] \in Range(calls')
    BY <1>8 DEF Range
  <2>2. calls' = [k \in 1..Len(calls) |-> calls'[k]]
    BY <1>4, <1>7
  <2>3. QED
    BY <1>8, <2>1, <2>2
<1>10. CallsOK'
  BY <1>2, <1>4, <1>6, <1>8, <1>9 DEF CallsOK
<1>11. Loaders' = Loaders /\ \A k \in Loaders : calls'[k].db = calls[k].db
  BY <1>2, <1>4, <1>6, <1>8 DEF Loaders, LoaderCalls
<1>12. CallsKept
  BY <1>10, <1>11 DEF CallsKept
<1>13. \A k \in DOMAIN calls : calls'[k].call = calls[k].call
  BY <1>2, <1>4, <1>6, <1>8
<1>14. ASSUME ~(Top.call = "traceClose" /\ Top.next = w)
       PROVE  calls'[Len(calls)] = [Top EXCEPT !.closed = TRUE]
  BY <1>2, <1>4, <1>5, <1>8, <1>14
<1>15. QED
  BY <1>8, <1>12, <1>13, <1>14

(* As long as the traces that go take their databases with them.           *)
LEMMA KeptIInv ==
    ASSUME IInv, UNCHANGED <<loading, dreamsdb, timer, progress, opened>>, CallsKept,
           TracesOK', TraceIds', OpenTraces' \subseteq OpenTraces,
           dbs' = dbs \ (OpenTraces \ OpenTraces')
    PROVE  IInv'
<1>1. DBsOK' /\ DBsOwned' /\ CallsOK'
  BY DEF IInv, DBsOK, DBsOwned, LoaderOK, CallsKept
<1>2. LoaderOK'
  BY DEF IInv, LoaderOK, CallsKept
<1>3. QED
  BY <1>1, <1>2 DEF IInv

LEMMA SameTracesIInv ==
    ASSUME IInv, UNCHANGED <<loading, dreamsdb, timer, progress, opened, traces, dbs>>, CallsKept
    PROVE  IInv'
<1>1. TracesOK' /\ TraceIds' /\ OpenTraces' = OpenTraces
  BY DEF IInv, TracesOK, TraceIds, OpenTraces
<1>2. QED
  BY <1>1, KeptIInv

(* Closing a trace, and everything.                                        *)
LEMMA WalkOnIInv ==
    ASSUME IInv, UNCHANGED <<loading, dreamsdb, timer, progress, opened>>,
           NEW db \in OpenTraces, NEW p, NEW below, WalkOn(db, p, below),
           calls' = below => CallsKept,
           \A e : "call" \in DOMAIN e /\ e.call \notin LoaderCalls /\ calls' = Append(below, e)
                      => CallsKept
    PROVE  IInv'
<1>1. CASE FirstOf(db, p) = 0
  <2>1. Removed(db) /\ CallsKept
    BY <1>1 DEF WalkOn
  <2>2. /\ TracesOK' /\ TraceIds'
        /\ OpenTraces' = OpenTraces \ {db} /\ dbs' = dbs \ {db}
    BY <2>1, RemovedTraces DEF IInv
  <2>3. QED
    BY <2>1, <2>2, KeptIInv
<1>2. CASE FirstOf(db, p) # 0
  <2> DEFINE e == [call |-> "traceClose", db |-> db, at |-> FirstOf(db, p),
                   next |-> Following(FirstOf(db, p)), closed |-> FALSE]
  <2>1. calls' = Append(below, e) /\ UNCHANGED <<traces, dbs>>
    BY <1>2 DEF WalkOn
  <2>2. "call" \in DOMAIN e /\ e.call \notin LoaderCalls
    BY DEF LoaderCalls
  <2> HIDE DEF e
  <2>3. CallsKept
    BY <2>1, <2>2
  <2>4. QED
    BY <2>1, <2>3, SameTracesIInv
<1>3. QED
  BY <1>1, <1>2

LEMMA AllClosedIInv ==
    ASSUME IInv, UNCHANGED <<loading, dreamsdb, timer, progress, opened>>, AllClosed, CallsKept
    PROVE  IInv'
<1>1. traces' = <<>> /\ dbs' = dbs \ OpenTraces
  BY DEF AllClosed
<1>2. TracesOK' /\ TraceIds' /\ OpenTraces' = {}
  BY <1>1 DEF TracesOK, TraceIds, OpenTraces
<1>3. QED
  BY <1>1, <1>2, KeptIInv

LEMMA TraceCloseIInv == ASSUME IInv, NEW k, TraceClose(k) PROVE IInv'
<1>1. /\ UNCHANGED <<loading, dreamsdb, timer, progress, opened>>
      /\ traces[k].db \in OpenTraces /\ WalkOn(traces[k].db, HeadOr0(mdiList), calls)
  BY DEF TraceClose, loadVars, OpenTraces
<1>2. CallsOK
  BY DEF IInv
<1>3. calls' = calls => CallsKept
  BY <1>2, SameCalls
<1>4. \A e : "call" \in DOMAIN e /\ e.call \notin LoaderCalls /\ calls' = Append(calls, e)
                 => CallsKept
  BY <1>2, PushedCalls
<1>5. QED
  BY <1>1, <1>3, <1>4, WalkOnIInv

LEMMA TraceCloseStepIInv == ASSUME IInv, TraceCloseStep PROVE IInv'
<1>1. CallsOK /\ calls # <<>> /\ Top.call \notin LoaderCalls /\ Top.db \in OpenTraces
  BY DEF IInv, TraceCloseStep, Waiting, LoaderCalls
<1>2. CASE CloseNext(Top.at)
  <2>1. CallsKept
    BY <1>1, <1>2, ClosedCalls
  <2>2. UNCHANGED <<loading, dreamsdb, timer, progress, opened, traces, dbs>>
    BY <1>2 DEF CloseNext, loadVars, traceVars
  <2>3. QED
    BY <2>1, <2>2, SameTracesIInv
<1>3. CASE ~CloseNext(Top.at)
  <2>1. /\ UNCHANGED <<loading, dreamsdb, timer, progress, opened>>
        /\ WalkOn(Top.db, Top.next, Front(calls))
    BY <1>3 DEF TraceCloseStep, loadVars
  <2>2. calls' = Front(calls) => CallsKept
    BY <1>1, PoppedCalls
  <2>3. \A e : "call" \in DOMAIN e /\ e.call \notin LoaderCalls
                 /\ calls' = Append(Front(calls), e) => CallsKept
    BY <1>1, ReplacedCalls
  <2>4. QED
    BY <1>1, <2>1, <2>2, <2>3, WalkOnIInv
<1>4. QED
  BY <1>2, <1>3

LEMMA CloseAllIInv == ASSUME IInv, CloseAll PROVE IInv'
<1>1. UNCHANGED <<loading, dreamsdb, timer, progress, opened>> /\ CallsOK
  BY DEF CloseAll, loadVars, IInv
<1>2. CASE windows = {}
  <2>1. AllClosed /\ calls' = calls
    BY <1>2 DEF CloseAll
  <2>2. QED
    BY <1>1, <2>1, SameCalls, AllClosedIInv
<1>3. CASE windows # {}
  <2> DEFINE e == [call |-> "closeAll", left |-> Copy, closed |-> FALSE]
  <2>1. calls' = Append(calls, e) /\ UNCHANGED <<traces, dbs>>
    BY <1>3 DEF CloseAll
  <2>2. "call" \in DOMAIN e /\ e.call \notin LoaderCalls
    BY DEF LoaderCalls
  <2> HIDE DEF e
  <2>3. CallsKept
    BY <1>1, <2>1, <2>2, PushedCalls
  <2>4. QED
    BY <1>1, <2>1, <2>3, SameTracesIInv
<1>4. QED
  BY <1>2, <1>3

LEMMA CloseAllStepIInv == ASSUME IInv, CloseAllStep PROVE IInv'
<1>1. /\ CallsOK /\ calls # <<>> /\ Top.call \notin LoaderCalls /\ Top.call = "closeAll"
      /\ "call" \in DOMAIN Top
  <2>1. CallsOK /\ calls # <<>> /\ Top.call = "closeAll"
    BY DEF IInv, CloseAllStep, Waiting
  <2>2. Top = calls[Len(calls)] /\ Len(calls) \in DOMAIN calls
    BY <2>1, FrontAny DEF CallsOK, Top
  <2>3. QED
    BY <2>1, <2>2 DEF CallsOK, LoaderCalls
<1>2. CASE CloseNext(Top.left[1])
  <2>1. CallsKept
    BY <1>1, <1>2, ClosedCalls
  <2>2. UNCHANGED <<loading, dreamsdb, timer, progress, opened, traces, dbs>>
    BY <1>2 DEF CloseNext, loadVars, traceVars
  <2>3. QED
    BY <2>1, <2>2, SameTracesIInv
<1>3. CASE ~CloseNext(Top.left[1])
  <2>1. UNCHANGED <<loading, dreamsdb, timer, progress, opened>>
    BY <1>3 DEF CloseAllStep, loadVars
  <2>2. CASE Len(Top.left) = 1
    <3>1. AllClosed /\ calls' = Front(calls)
      BY <1>3, <2>2 DEF CloseAllStep, Pop
    <3>2. QED
      BY <1>1, <2>1, <3>1, PoppedCalls, AllClosedIInv
  <2>3. CASE Len(Top.left) # 1
    <3>1. PICK e : e = [Top EXCEPT !.left = Tail(@), !.closed = FALSE]
      OBVIOUS
    <3>2. calls' = Append(Front(calls), e) /\ UNCHANGED <<traces, dbs>>
      BY <1>3, <2>3, <3>1 DEF CloseAllStep
    <3>3. "call" \in DOMAIN e /\ e.call \notin LoaderCalls
      BY <1>1, <3>1
    <3>4. CallsKept
      BY <1>1, <3>2, <3>3, ReplacedCalls
    <3>5. QED
      BY <2>1, <3>2, <3>4, SameTracesIInv
  <2>4. QED
    BY <2>2, <2>3
<1>4. QED
  BY <1>2, <1>3

-----------------------------------------------------------------------------
(* Steps of the loader.                                                    *)

LEMMA InterruptedIInv ==
    ASSUME IInv, timer \/ progress, NEW call \in LoaderCalls, Interrupted(call)
    PROVE  IInv'
<1> DEFINE e == [call |-> call, db |-> dreamsdb]
<1>1. /\ calls' = Append(calls, e) /\ timer' = FALSE /\ progress' = FALSE
      /\ UNCHANGED <<loading, dreamsdb, opened, traces, dbs>>
  BY DEF Interrupted, Hidden, traceVars
<1>2. "call" \in DOMAIN e /\ e.call \in LoaderCalls /\ e.db = dreamsdb
  OBVIOUS
<1> HIDE DEF e
<1>3. /\ calls' \in Seq(Range(calls')) /\ DOMAIN calls' = 1..(Len(calls) + 1)
      /\ Len(calls) \in Nat /\ DOMAIN calls = 1..Len(calls)
      /\ \A k \in 1..Len(calls) : calls'[k] = calls[k]
      /\ calls'[Len(calls) + 1] = e
  BY <1>1, AppendAny DEF IInv, CallsOK
<1>4. CallsOK'
  BY <1>2, <1>3 DEF IInv, CallsOK
<1>5. Loaders = {} /\ loading = TRUE
  BY DEF IInv, LoaderOK
<1>6. Loaders' = {Len(calls) + 1} /\ calls'[Len(calls) + 1].db = dreamsdb
  BY <1>2, <1>3, <1>5 DEF Loaders, LoaderCalls
<1>7. OpenTraces' = OpenTraces /\ TracesOK' /\ TraceIds' /\ DBsOK' /\ DBsOwned'
  BY <1>1 DEF IInv, OpenTraces, TracesOK, TraceIds, DBsOK, DBsOwned
<1>8. LoaderOK'
  BY <1>1, <1>5, <1>6, <1>7 DEF IInv, LoaderOK
<1>9. QED
  BY <1>4, <1>7, <1>8 DEF IInv

(* Handlers that wait, none of them of the loader                          *)
NoLoader(s) ==
    /\ s \in Seq(Range(s))
    /\ \A k \in DOMAIN s : "call" \in DOMAIN s[k] /\ s[k].call \notin LoaderCalls

(* The handler of the loader goes on, and it is the only one.              *)
LEMMA LoaderGoesOn ==
    ASSUME IInv, calls # <<>>, Top.call \in LoaderCalls
    PROVE  NoLoader(Front(calls)) /\ loading /\ ~timer /\ dreamsdb # NULL
<1>1. PICK f : f = Front(calls)
  OBVIOUS
<1>2. /\ f \in Seq(Range(f)) /\ DOMAIN f = 1..(Len(calls) - 1)
      /\ Len(calls) \in Nat \ {0} /\ DOMAIN calls = 1..Len(calls)
      /\ \A k \in 1..(Len(calls) - 1) : f[k] = calls[k]
      /\ Top = calls[Len(calls)]
  BY <1>1, FrontAny DEF IInv, CallsOK, Top
<1>3. Len(calls) \in Loaders
  BY <1>2 DEF Loaders, LoaderCalls
<1>4. ASSUME NEW k \in DOMAIN f PROVE "call" \in DOMAIN f[k] /\ f[k].call \notin LoaderCalls
  <2>1. k \in DOMAIN calls /\ k # Len(calls) /\ f[k] = calls[k]
    BY <1>2
  <2>2. k \notin Loaders
    BY <1>3, <2>1 DEF IInv, LoaderOK
  <2>3. QED
    BY <2>1, <2>2 DEF IInv, CallsOK, Loaders, LoaderCalls
<1>5. NoLoader(f)
  BY <1>2, <1>4 DEF NoLoader
<1>6. QED
  BY <1>1, <1>3, <1>5 DEF IInv, LoaderOK

LEMMA NoLoaderLeft ==
    ASSUME NEW below, NoLoader(below), calls' = below
    PROVE  CallsOK' /\ Loaders' = {}
BY DEF NoLoader, CallsOK, Loaders, LoaderCalls

(* The handler that opens a trace waits on top of them.                    *)
LEMMA OpeningCalls ==
    ASSUME NEW below, NoLoader(below), NEW db,
           calls' = Append(below, [call |-> "open", db |-> db])
    PROVE  CallsOK' /\ (\A j, k \in Loaders' : j = k) /\ Loaders' # {}
           /\ \A k \in Loaders' : calls'[k].db = db
<1> DEFINE e == [call |-> "open", db |-> db]
<1>1. "call" \in DOMAIN e /\ e.call \in LoaderCalls /\ e.db = db
  BY DEF LoaderCalls
<1>2. calls' = Append(below, e)
  OBVIOUS
<1> HIDE DEF e
<1>3. /\ calls' \in Seq(Range(calls')) /\ DOMAIN calls' = 1..(Len(below) + 1)
      /\ Len(below) \in Nat /\ DOMAIN below = 1..Len(below)
      /\ \A k \in 1..Len(below) : calls'[k] = below[k]
      /\ calls'[Len(below) + 1] = e
  BY <1>2, AppendAny DEF NoLoader
<1>4. CallsOK'
  BY <1>1, <1>3 DEF NoLoader, CallsOK
<1>5. Loaders' = {Len(below) + 1}
  BY <1>1, <1>3 DEF NoLoader, Loaders, LoaderCalls
<1>6. QED
  BY <1>1, <1>3, <1>4, <1>5

LEMMA IdleIInv ==
    ASSUME IInv, Idle, UNCHANGED opened, CallsOK', Loaders' = {},
           TracesOK', TraceIds', OpenTraces' = dbs', dbs' \subseteq dbs
    PROVE  IInv'
BY DEF IInv, Idle, DBsOK, DBsOwned, LoaderOK

(* The next trace is opened, or there is none.                             *)
LEMMA OpenNextIInv ==
    ASSUME IInv, NEW left \in SUBSET dbs, NEW below, NoLoader(below), OpenNext(left, below),
           TracesOK', TraceIds', OpenTraces' = left
    PROVE  IInv'
<1>1. CASE Idle /\ dbs' = left /\ calls' = below /\ UNCHANGED opened
  BY <1>1, NoLoaderLeft, IdleIInv
<1>2. CASE /\ opened' = opened + 1 /\ dbs' = left \cup {opened'} /\ dreamsdb' = opened'
           /\ loading' = TRUE /\ timer' = FALSE /\ progress' = FALSE
           /\ calls' = Append(below, [call |-> "open", db |-> opened'])
  <2>1. opened \in Nat /\ left \subseteq 1..opened
    BY DEF IInv, DBsOK
  <2>2. DBsOK' /\ dreamsdb' \in Nat /\ dreamsdb' \notin left
    BY <1>2, <2>1 DEF DBsOK
  <2>3. dreamsdb' # NULL
    BY <2>2, NullAssumption
  <2>4. /\ CallsOK' /\ (\A j, k \in Loaders' : j = k) /\ Loaders' # {}
        /\ \A k \in Loaders' : calls'[k].db = dreamsdb'
    <3>1. PICK n : n = opened'
      OBVIOUS
    <3>2. QED
      BY <1>2, <3>1, OpeningCalls
  <2>5. DBsOwned' /\ LoaderOK'
    BY <1>2, <2>2, <2>3, <2>4 DEF DBsOwned, LoaderOK
  <2>6. QED
    BY <2>2, <2>4, <2>5 DEF IInv
<1>3. QED
  BY <1>1, <1>2 DEF OpenNext

LEMMA OpenIInv == ASSUME IInv, Open PROVE IInv'
<1>1. ~loading /\ OpenNext(dbs, calls) /\ traces' = traces
  BY DEF Open
<1>2. dbs = OpenTraces /\ Loaders = {}
  BY <1>1 DEF IInv, LoaderOK, DBsOwned
<1>3. NoLoader(calls)
  BY <1>2 DEF IInv, CallsOK, NoLoader, Loaders, LoaderCalls
<1>4. TracesOK' /\ TraceIds' /\ OpenTraces' = dbs
  BY <1>1, <1>2 DEF IInv, TracesOK, TraceIds, OpenTraces
<1>5. QED
  BY <1>1, <1>3, <1>4, OpenNextIInv

(* The load comes to nothing.                                              *)
LEMMA NoLoadIInv ==
    ASSUME IInv, calls # <<>>, Top.call \in LoaderCalls, Pop,
           Idle, dbs' = dbs \ {dreamsdb}, UNCHANGED <<opened, traces>>
    PROVE  IInv'
<1>1. NoLoader(Front(calls)) /\ dreamsdb # NULL
  BY LoaderGoesOn
<1>2. CallsOK' /\ Loaders' = {}
  BY <1>1, NoLoaderLeft DEF Pop
<1>3. TracesOK' /\ TraceIds' /\ OpenTraces' = OpenTraces
  BY DEF IInv, TracesOK, TraceIds, OpenTraces
<1>4. dbs' = OpenTraces
  BY <1>1 DEF IInv, DBsOwned, LoaderOK
<1>5. QED
  BY <1>2, <1>3, <1>4, IdleIInv

LEMMA LoadCancelIInv == ASSUME IInv, LoadCancel PROVE IInv'
BY NoLoadIInv DEF LoadCancel, Waiting, LoaderCalls

LEMMA ADFParsedIInv == ASSUME IInv, ADFParsed PROVE IInv'
<1>1. calls # <<>> /\ Top.call \in LoaderCalls /\ Pop /\ UNCHANGED <<opened, traces>>
  BY DEF ADFParsed, Waiting, LoaderCalls
<1>2. CASE timer' = TRUE /\ progress' = TRUE /\ UNCHANGED <<loading, dreamsdb, dbs>>
  <2>1. NoLoader(Front(calls)) /\ loading
    BY <1>1, LoaderGoesOn
  <2>2. CallsOK' /\ Loaders' = {}
    BY <1>1, <2>1, NoLoaderLeft DEF Pop
  <2>3. OpenTraces' = OpenTraces /\ TracesOK' /\ TraceIds' /\ DBsOK' /\ DBsOwned'
    BY <1>1, <1>2 DEF IInv, OpenTraces, TracesOK, TraceIds, DBsOK, DBsOwned
  <2>4. LoaderOK'
    BY <1>2, <2>1, <2>2, <2>3 DEF IInv, LoaderOK
  <2>5. QED
    BY <2>2, <2>3, <2>4 DEF IInv
<1>3. CASE Idle /\ dbs' = dbs \ {dreamsdb}
  BY <1>1, <1>3, NoLoadIInv
<1>4. QED
  BY <1>2, <1>3 DEF ADFParsed

(* A trace that was loaded joins the others.                               *)
LEMMA JoinedTraces ==
    ASSUME IInv, dreamsdb # NULL,
           traces' = Append(traces, [db |-> dreamsdb, id |-> Len(traces)])
    PROVE  TracesOK' /\ TraceIds' /\ OpenTraces' = dbs
<1>1. dreamsdb \in Nat /\ dreamsdb \in dbs \ OpenTraces
  <2>1. dreamsdb \in dbs \ OpenTraces
    BY DEF IInv, LoaderOK
  <2>2. opened \in Nat /\ dbs \subseteq 1..opened
    BY DEF IInv, DBsOK
  <2>3. QED
    BY <2>1, <2>2
<1>2. PICK n \in Nat : n = Len(traces)
  BY DEF IInv, TracesOK
<1>3. PICK r \in TraceRecord : r = [db |-> dreamsdb, id |-> n]
  <2>1. [db |-> dreamsdb, id |-> n] \in TraceRecord
    BY <1>1 DEF TraceRecord
  <2>2. QED
    BY <2>1
<1>4. r.db = dreamsdb /\ r.id = n
  BY <1>3
<1>5. /\ traces' \in Seq(TraceRecord) /\ DOMAIN traces' = 1..(n + 1)
      /\ DOMAIN traces = 1..n /\ \A k \in 1..n : traces'[k] = traces[k]
      /\ traces'[n + 1] = r
  <2>1. traces' = Append(traces, r) /\ traces \in Seq(TraceRecord)
    BY <1>2, <1>3 DEF IInv, TracesOK
  <2>2. QED
    BY <1>2, <2>1
<1>6. \A k \in 1..n : traces'[k].db \in OpenTraces /\ traces'[k].id = k - 1
  BY <1>5 DEF IInv, TraceIds, OpenTraces
<1>7. TraceIds'
  BY <1>4, <1>5, <1>6 DEF TraceIds
<1>8. TracesOK'
  <2>1. ASSUME NEW j \in 1..(n + 1), NEW k \in 1..(n + 1), traces'[j].db = traces'[k].db
        PROVE  j = k
    <3>1. CASE j \in 1..n /\ k \in 1..n
      BY <1>5, <2>1, <3>1 DEF IInv, TracesOK
    <3>2. CASE j = n + 1 \/ k = n + 1
      <4>1. \A i \in 1..n : traces'[i].db # dreamsdb
        BY <1>1, <1>6
      <4>2. traces'[n + 1].db = dreamsdb
        BY <1>4, <1>5
      <4>3. QED
        BY <2>1, <3>2, <4>1, <4>2
    <3>3. QED
      BY <3>1, <3>2
  <2>2. QED
    BY <1>5, <2>1 DEF TracesOK
<1>9. OpenTraces' = OpenTraces \cup {dreamsdb}
  <2>1. OpenTraces' = {traces'[k].db : k \in 1..(n + 1)}
    BY <1>5 DEF OpenTraces
  <2>2. OpenTraces = {traces'[k].db : k \in 1..n}
    BY <1>5 DEF OpenTraces
  <2>3. QED
    BY <1>4, <1>5, <2>1, <2>2
<1>10. dbs = OpenTraces \cup {dreamsdb}
  BY DEF IInv, DBsOwned
<1>11. QED
  BY <1>7, <1>8, <1>9, <1>10

LEMMA LoadFinishIInv == ASSUME IInv, LoadFinish PROVE IInv'
<1> DEFINE Then(left) == IF files > 0 THEN OpenNext(left, Front(calls))
                         ELSE Idle /\ dbs' = left /\ Pop /\ UNCHANGED <<files, opened>>
<1>1. calls # <<>> /\ Top.call \in LoaderCalls
  BY DEF LoadFinish, Waiting, LoaderCalls
<1>2. NoLoader(Front(calls)) /\ dreamsdb # NULL
  BY <1>1, LoaderGoesOn
<1>3. dbs \ {dreamsdb} = OpenTraces
  BY <1>2 DEF IInv, DBsOwned, LoaderOK
<1>4. traces' = traces => TracesOK' /\ TraceIds' /\ OpenTraces' = OpenTraces
  BY DEF IInv, TracesOK, TraceIds, OpenTraces
<1>5. ASSUME NEW left \in SUBSET dbs, Then(left), TracesOK', TraceIds', OpenTraces' = left
      PROVE  IInv'
  <2>1. CASE OpenNext(left, Front(calls))
    BY <1>2, <1>5, <2>1, OpenNextIInv
  <2>2. CASE Idle /\ dbs' = left /\ Pop /\ UNCHANGED <<files, opened>>
    <3>1. CallsOK' /\ Loaders' = {}
      BY <1>2, <2>2, NoLoaderLeft DEF Pop
    <3>2. QED
      BY <1>5, <2>2, <3>1, IdleIInv
  <2>3. QED
    BY <1>5, <2>1, <2>2
<1>6. CASE /\ traces' = Append(traces, [db |-> dreamsdb, id |-> Len(traces)])
           /\ Then(dbs)
  <2>1. TracesOK' /\ TraceIds' /\ OpenTraces' = dbs
    BY <1>2, <1>6, JoinedTraces
  <2> HIDE DEF Then
  <2>2. QED
    BY <1>5, <1>6, <2>1
<1>7. CASE Idle /\ dbs' = dbs \ {dreamsdb} /\ Pop /\ UNCHANGED <<opened, traces>>
  BY <1>1, <1>7, NoLoadIInv
<1>8. CASE Then(dbs \ {dreamsdb}) /\ traces' = traces
  <2> HIDE DEF Then
  <2>1. QED
    BY <1>3, <1>4, <1>5, <1>8
<1>9. QED
  BY <1>6, <1>7, <1>8 DEF LoadFinish

-----------------------------------------------------------------------------
(* All steps.                                                              *)

LEMMA NextIInv == ASSUME IInv, [Next]_vars PROVE IInv'
<1>1. CASE Open
  BY <1>1, OpenIInv
<1>2. CASE ReadOn
  <2>1. /\ UNCHANGED <<loading, dreamsdb, timer, progress, opened, traces, dbs>>
        /\ calls' = calls
    BY <1>2 DEF ReadOn, traceVars
  <2>2. QED
    BY <2>1, SameCalls, SameTracesIInv DEF IInv
<1>3. CASE ReadEnd \/ StopButton \/ AbortButton
  BY <1>3, InterruptedIInv DEF ReadEnd, StopButton, AbortButton, LoaderCalls
<1>4. CASE LoadFinish
  BY <1>4, LoadFinishIInv
<1>5. CASE LoadCancel
  BY <1>5, LoadCancelIInv
<1>6. CASE \E k \in 1 .. MaxTraces : TraceClose(k)
  BY <1>6, TraceCloseIInv
<1>7. ASSUME NEW k \in 1 .. MaxTraces,
             CloseTraceWindows(k) \/ \E kind \in Kinds : NewWindow(k, kind)
      PROVE  IInv'
  <2>1. /\ UNCHANGED <<loading, dreamsdb, timer, progress, opened, traces, dbs>>
        /\ calls' = calls
    BY <1>7 DEF CloseTraceWindows, NewWindow, loadVars, traceVars
  <2>2. QED
    BY <2>1, SameCalls, SameTracesIInv DEF IInv
<1>8. ASSUME NEW w \in 1 .. MaxWindows, CloseWindow(w) PROVE IInv'
  <2>1. /\ UNCHANGED <<loading, dreamsdb, timer, progress, opened, traces, dbs>>
        /\ calls' = MovedOff(w) \/ calls' = calls
    BY <1>8 DEF CloseWindow, loadVars, traceVars
  <2>2. CallsKept
    BY <2>1, MovedCalls, SameCalls DEF IInv
  <2>3. QED
    BY <2>1, <2>2, SameTracesIInv
<1>9. CASE (\E w \in 1 .. MaxWindows : Play(w)) \/ StopPlay \/ UNCHANGED vars
  <2>1. /\ UNCHANGED <<loading, dreamsdb, timer, progress, opened, traces, dbs>>
        /\ calls' = calls
    BY <1>9 DEF Play, StopPlay, vars, loadVars, traceVars
  <2>2. QED
    BY <2>1, SameCalls, SameTracesIInv DEF IInv
<1>10. CASE CloseAll
  BY <1>10, CloseAllIInv
<1>11. CASE TraceCloseStep
  BY <1>11, TraceCloseStepIInv
<1>12. CASE CloseAllStep
  BY <1>12, CloseAllStepIInv
<1>13. CASE ADFParsed
  BY <1>13, ADFParsedIInv
<1>14. QED
  BY <1>1, <1>2, <1>3, <1>4, <1>5, <1>6, <1>7, <1>8, <1>9, <1>10, <1>11, <1>12,
     <1>13 DEF Next

LEMMA SpecIInv == Spec => []IInv
<1>1. Init => IInv
  BY InitIInv
<1>2. IInv /\ [Next]_vars => IInv'
  BY NextIInv
<1>3. QED
  BY <1>1, <1>2, PTL DEF Spec

(* Whatever the user does while handlers wait in the event loop, the one   *)
(* that opens a trace (do_genericOpen, in the events parseADF processes),  *)
(* the timer, and the handlers that end the load find the trace they are   *)
(* for when they go on, and exactly one of them will go on.                *)
THEOREM SpecLoaderAlive == Spec => []LoaderAlive
<1>1. IInv => LoaderAlive
  BY IInvAlive
<1>2. QED
  BY <1>1, SpecIInv, PTL

(* No database of a trace is lost, and none is used after its deletion     *)
(* (Dreams::removeTrace, loadFinish, loadCancel).                          *)
THEOREM SpecDBsOwned == Spec => []DBsOwned
<1>1. IInv => DBsOwned
  BY DEF IInv
<1>2. QED
  BY <1>1, SpecIInv, PTL

(* The id of a trace is its place among the open ones, however they were   *)
(* closed (DreamsTraceData::decId).                                        *)
THEOREM SpecTraceIds == Spec => []TraceIds
<1>1. IInv => TraceIds
  BY DEF IInv
<1>2. QED
  BY <1>1, SpecIInv, PTL

-----------------------------------------------------------------------------
(* What is left of a list: Only.                                           *)

(* The elements of s that are in S are found at the places at, one after   *)
(* the other.                                                              *)
OnlyAt(s, S, at) ==
    /\ DOMAIN at = 1..Len(Only(s, S)) /\ \A n \in DOMAIN at : at[n] \in DOMAIN s
    /\ \A n \in DOMAIN at : Only(s, S)[n] = s[at[n]] /\ s[at[n]] \in S
    /\ \A i, j \in DOMAIN at : i < j => at[i] < at[j]
    /\ \A k \in DOMAIN s : s[k] \in S => \E n \in DOMAIN at : at[n] = k

LEMMA OnlyFacts ==
    ASSUME NEW T, NEW s \in Seq(T), NEW S
    PROVE  /\ Only(s, S) \in Seq(T)
           /\ \E at : OnlyAt(s, S, at)
<1> DEFINE ks == {k \in DOMAIN s : s[k] \in S}
           m == Cardinality(ks)
           upto(k) == {j \in ks : j <= k}
           rank == [k \in ks |-> Cardinality(upto(k))]
           at == [n \in 1..m |-> CHOOSE k \in ks : Cardinality(upto(k)) = n]
<1>1. ks \subseteq 1..Len(s) /\ Len(s) \in Nat /\ DOMAIN s = 1..Len(s)
  OBVIOUS
<1>2. IsFiniteSet(ks) /\ m \in Nat
  <2>1. IsFiniteSet(1..Len(s))
    BY <1>1, FS_Interval
  <2> HIDE DEF ks
  <2>2. QED
    BY <1>1, <2>1, FS_Subset, FS_CardinalityType
<1>3. ASSUME NEW k \in ks
      PROVE  IsFiniteSet(upto(k)) /\ Cardinality(upto(k)) \in 1..m
  <2>1. upto(k) \subseteq ks /\ k \in upto(k)
    BY <1>1
  <2>2. IsFiniteSet(upto(k)) /\ Cardinality(upto(k)) \in Nat /\ Cardinality(upto(k)) <= m
    BY <1>2, <2>1, FS_Subset, FS_CardinalityType
  <2>3. Cardinality(upto(k)) # 0
    BY <2>1, <2>2, FS_EmptySet
  <2>4. QED
    BY <1>2, <2>2, <2>3
<1>4. ASSUME NEW i \in ks, NEW k \in ks, i < k
      PROVE  Cardinality(upto(i)) < Cardinality(upto(k))
  <2>1. upto(i) \subseteq upto(k) /\ k \in upto(k) /\ k \notin upto(i)
    BY <1>1, <1>4
  <2>2. IsFiniteSet(upto(k)) /\ IsFiniteSet(upto(i))
    BY <1>3
  <2> HIDE DEF upto
  <2>3. /\ Cardinality(upto(i)) <= Cardinality(upto(k))
        /\ Cardinality(upto(i)) = Cardinality(upto(k)) => upto(i) = upto(k)
    BY <2>1, <2>2, FS_Subset
  <2>4. Cardinality(upto(i)) \in Nat /\ Cardinality(upto(k)) \in Nat
    BY <2>2, FS_CardinalityType
  <2>5. QED
    BY <2>1, <2>3, <2>4
<1>5. \A n \in 1..m : \E k \in ks : Cardinality(upto(k)) = n
  <2>1. rank \in Injection(ks, 1..m)
    <3>1. rank \in [ks -> 1..m]
      BY <1>3
    <3>2. ASSUME NEW i \in ks, NEW k \in ks, rank[i] = rank[k] PROVE i = k
      <4>1. ~(i < k) /\ ~(k < i)
        <5>1. Cardinality(upto(i)) = Cardinality(upto(k)) /\ Cardinality(upto(i)) \in Nat
          <6>1. rank[i] = Cardinality(upto(i)) /\ rank[k] = Cardinality(upto(k))
            OBVIOUS
          <6>2. Cardinality(upto(i)) \in 1..m
            BY <1>3
          <6>3. Cardinality(upto(i)) \in Nat
            <7> HIDE DEF upto, m
            <7>1. QED
              BY <1>2, <6>2
          <6>4. QED
            BY <3>2, <6>1, <6>3, Zenon
        <5> HIDE DEF upto, ks, rank
        <5>2. i < k => Cardinality(upto(i)) < Cardinality(upto(k))
          BY <1>4
        <5>3. k < i => Cardinality(upto(k)) < Cardinality(upto(i))
          BY <1>4
        <5>4. QED
          BY <5>1, <5>2, <5>3
      <4>2. QED
        BY <1>1, <4>1
    <3>3. QED
      BY <3>1, <3>2 DEF Injection, IsInjective
  <2>2. IsFiniteSet(1..m) /\ Cardinality(1..m) = m
    BY <1>2, FS_Interval
  <2>3. rank \in Surjection(ks, 1..m)
    <3> HIDE DEF rank, ks
    <3>1. QED
      BY <2>1, <2>2, FS_Injection
  <2>4. QED
    BY <2>3 DEF Surjection
<1>6. \A n \in 1..m : at[n] \in ks /\ Cardinality(upto(at[n])) = n
  BY <1>5
<1>7. Only(s, S) = [n \in 1..m |-> s[at[n]]]
  BY DEF Only
<1>8. Only(s, S) \in Seq(T) /\ Len(Only(s, S)) = m
  <2>1. \A n \in 1..m : s[at[n]] \in T
    <3>1. \A n \in 1..m : at[n] \in 1..Len(s)
      BY <1>1, <1>6, Zenon
    <3> HIDE DEF at, m
    <3>2. QED
      BY <1>1, <3>1, ElementOfSeq
  <2> HIDE DEF at, m
  <2>2. [n \in 1..m |-> s[at[n]]] \in Seq(T)
    BY <1>2, <2>1
  <2>3. QED
    BY <1>2, <1>7, <2>2
<1>9. \A i, j \in 1..m : i < j => at[i] < at[j]
  <2> SUFFICES ASSUME NEW i \in 1..m, NEW j \in 1..m, i < j PROVE at[i] < at[j]
    OBVIOUS
  <2>1. at[i] \in ks /\ at[j] \in ks /\ Cardinality(upto(at[i])) = i /\ Cardinality(upto(at[j])) = j
    BY <1>6
  <2>2. at[i] # at[j] /\ ~(at[j] < at[i])
    <3> HIDE DEF at, upto, ks, m
    <3>1. at[i] # at[j]
      BY <2>1
    <3>2. ~(at[j] < at[i])
      BY <1>4, <2>1
    <3>3. QED
      BY <3>1, <3>2
  <2>3. at[i] \in Nat /\ at[j] \in Nat
    BY <1>1, <2>1
  <2> HIDE DEF at
  <2>4. QED
    BY <2>2, <2>3
<1>10. \A k \in ks : \E n \in 1..m : at[n] = k
  <2> SUFFICES ASSUME NEW k \in ks PROVE \E n \in 1..m : at[n] = k
    OBVIOUS
  <2>1. PICK n \in 1..m : n = Cardinality(upto(k))
    BY <1>3
  <2>2. at[n] \in ks /\ Cardinality(upto(at[n])) = n
    BY <1>6
  <2>3. ~(k < at[n]) /\ ~(at[n] < k)
    <3> HIDE DEF at, upto, ks, m
    <3>1. QED
      BY <1>4, <2>1, <2>2
  <2>4. k \in Nat /\ at[n] \in Nat
    BY <1>1, <2>2
  <2>5. at[n] = k
    <3> HIDE DEF at
    <3>1. QED
      BY <2>3, <2>4
  <2>6. QED
    BY <2>5
<1>11. OnlyAt(s, S, at)
  <2>1. DOMAIN at = 1..m /\ ks = {k \in DOMAIN s : s[k] \in S}
    OBVIOUS
  <2>2. \A n \in 1..m : Only(s, S)[n] = s[at[n]]
    BY <1>7
  <2> HIDE DEF at, m, ks
  <2>3. QED
    BY <1>6, <1>8, <1>9, <1>10, <2>1, <2>2 DEF OnlyAt
<1>12. QED
  BY <1>8, <1>11

LEMMA OnlySet ==
    ASSUME NEW T, NEW s \in Seq(T), NEW S
    PROVE  /\ Only(s, S) \in Seq(T)
           /\ ToSet(Only(s, S)) = ToSet(s) \cap S
           /\ IsInjective(s) => IsInjective(Only(s, S))
<1>1. Only(s, S) \in Seq(T)
  BY OnlyFacts
<1>2. PICK at : OnlyAt(s, S, at)
  BY OnlyFacts
<1>3. PICK o \in Seq(T) : o = Only(s, S)
  BY <1>1
<1>4. /\ DOMAIN at = 1..Len(o) /\ \A n \in DOMAIN at : at[n] \in DOMAIN s
      /\ \A n \in DOMAIN at : o[n] = s[at[n]] /\ s[at[n]] \in S
      /\ \A i, j \in DOMAIN at : i < j => at[i] < at[j]
      /\ \A k \in DOMAIN s : s[k] \in S => \E n \in DOMAIN at : at[n] = k
  BY <1>2, <1>3 DEF OnlyAt
<1>5. DOMAIN o = DOMAIN at /\ Len(o) \in Nat /\ DOMAIN s = 1..Len(s) /\ Len(s) \in Nat
  BY <1>3, <1>4
<1>6. ToSet(o) = ToSet(s) \cap S
  BY <1>4, <1>5 DEF ToSet
<1>7. IsInjective(s) => IsInjective(o)
  <2> SUFFICES ASSUME IsInjective(s), NEW i \in DOMAIN o, NEW j \in DOMAIN o, o[i] = o[j]
               PROVE  i = j
    BY DEF IsInjective
  <2>1. at[i] = at[j]
    BY <1>4, <1>5 DEF IsInjective
  <2>2. ~(i < j) /\ ~(j < i)
    <3>1. at[i] \in Nat /\ at[j] \in Nat
      BY <1>4, <1>5
    <3>2. QED
      BY <1>4, <1>5, <2>1, <3>1
  <2>3. i \in Nat /\ j \in Nat
    BY <1>4, <1>5
  <2>4. QED
    BY <2>2, <2>3
<1>8. QED
  BY <1>1, <1>3, <1>6, <1>7

-----------------------------------------------------------------------------
(* Iterators into a list s: From and Following, of any list.               *)

FromIn(s, p) ==
    IF \E k \in DOMAIN s : s[k] = p
    THEN SubSeq(s, CHOOSE k \in DOMAIN s : s[k] = p, Len(s)) ELSE <<>>
FollowingIn(s, w) == HeadOr0(IF FromIn(s, w) = <<>> THEN <<>> ELSE Tail(FromIn(s, w)))

LEMMA FromFacts ==
    ASSUME NEW T, NEW s \in Seq(T), IsInjective(s), NEW i \in DOMAIN s
    PROVE  /\ FromIn(s, s[i]) \in Seq(T) /\ Len(FromIn(s, s[i])) = Len(s) - i + 1
           /\ \A j \in 1..(Len(s) - i + 1) : FromIn(s, s[i])[j] = s[i + j - 1]
           /\ ToSet(FromIn(s, s[i])) = {s[j] : j \in i..Len(s)}
           /\ FollowingIn(s, s[i]) = IF i = Len(s) THEN 0 ELSE s[i + 1]
<1>1. PICK n \in Nat : n = Len(s)
  OBVIOUS
<1>2. DOMAIN s = 1..n /\ i \in 1..n /\ i \in Nat
  BY <1>1
<1>3. (CHOOSE k \in DOMAIN s : s[k] = s[i]) = i
  BY DEF IsInjective
<1>4. PICK f : f = SubSeq(s, i, n)
  OBVIOUS
<1>5. FromIn(s, s[i]) = f
  BY <1>1, <1>3, <1>4 DEF FromIn
<1>6. /\ f \in Seq(T) /\ Len(f) = n - i + 1
      /\ \A j \in 1..(n - i + 1) : f[j] = s[i + j - 1]
  <2>1. \A j \in i..n : s[j] \in T
    BY <1>1, <1>2, ElementOfSeq
  <2>2. i \in Int /\ n \in Int /\ i <= n
    BY <1>2
  <2>3. QED
    BY <1>4, <2>1, <2>2, SubSeqProperties
<1>7. DOMAIN f = 1..(n - i + 1)
  BY <1>6
<1>8. ToSet(f) = {s[j] : j \in i..n}
  <2>1. \A j \in i..n : \E l \in 1..(n - i + 1) : f[l] = s[j]
    <3> SUFFICES ASSUME NEW j \in i..n PROVE \E l \in 1..(n - i + 1) : f[l] = s[j]
      OBVIOUS
    <3>1. j - i + 1 \in 1..(n - i + 1) /\ i + (j - i + 1) - 1 = j
      BY <1>2
    <3>2. f[j - i + 1] = s[j]
      BY <1>6, <3>1
    <3>3. QED
      BY <3>1, <3>2
  <2>2. \A l \in 1..(n - i + 1) : i + l - 1 \in i..n
    BY <1>2
  <2>3. {s[j] : j \in i..n} \subseteq ToSet(f)
    BY <1>7, <2>1 DEF ToSet
  <2>4. ToSet(f) \subseteq {s[j] : j \in i..n}
    BY <1>6, <1>7, <2>2 DEF ToSet
  <2>5. QED
    BY <2>3, <2>4
<1>9. FollowingIn(s, s[i]) = IF i = n THEN 0 ELSE s[i + 1]
  <2>1. f # <<>> /\ FollowingIn(s, s[i]) = HeadOr0(Tail(f))
    BY <1>2, <1>5, <1>6 DEF FollowingIn
  <2>2. CASE i = n
    <3>1. Len(Tail(f)) = 0 /\ Tail(f) \in Seq(T)
      BY <1>2, <1>6, <2>1, <2>2, HeadTailProperties
    <3>2. Tail(f) = <<>>
      BY <3>1, EmptySeq
    <3>3. QED
      BY <2>1, <2>2, <3>2 DEF HeadOr0
  <2>3. CASE i # n
    <3>1. 2 \in 1..(n - i + 1) /\ i + 2 - 1 = i + 1
      BY <1>2, <2>3
    <3>2. f[2] = s[i + 1]
      BY <1>6, <3>1
    <3>3. Tail(f) # <<>> /\ Tail(f)[1] = f[2]
      <4>1. Len(Tail(f)) = n - i
        BY <1>2, <1>6, <2>1, HeadTailProperties
      <4>2. PICK g \in Seq(T) : g = Tail(f)
        BY <1>6, <2>1, HeadTailProperties
      <4>3. Len(g) = n - i /\ n - i \in Nat \ {0}
        BY <1>2, <2>3, <4>1, <4>2
      <4>4. 1 \in 1..Len(g) /\ g # <<>>
        BY <4>3
      <4>5. g[1] = f[1 + 1]
        BY <1>6, <2>1, <4>2, <4>4, HeadTailProperties
      <4>6. QED
        BY <4>2, <4>4, <4>5
    <3>4. QED
      BY <2>1, <2>3, <3>2, <3>3 DEF HeadOr0
  <2>4. QED
    BY <2>2, <2>3
<1>10. QED
  BY <1>1, <1>5, <1>6, <1>8, <1>9

LEMMA FromElements ==
    ASSUME NEW T, NEW s \in Seq(T), IsInjective(s), NEW i \in DOMAIN s, NEW j \in i..Len(s)
    PROVE  s[j] \in ToSet(FromIn(s, s[i]))
BY FromFacts

LEMMA FromNowhere ==
    ASSUME NEW T, NEW s \in Seq(T), NEW p, p \notin ToSet(s)
    PROVE  FromIn(s, p) = <<>>
BY DEF FromIn, ToSet

(* The first element that is in S, from an iterator on.                    *)
LEMMA FirstFacts ==
    ASSUME NEW T, 0 \notin T, NEW s \in Seq(T), IsInjective(s), NEW i \in DOMAIN s, NEW S,
           NEW w, w = HeadOr0(Only(FromIn(s, s[i]), S))
    PROVE  /\ w = 0 => \A j \in i..Len(s) : s[j] \notin S
           /\ w # 0 => \E k \in i..Len(s) :
                          /\ w = s[k] /\ s[k] \in S
                          /\ \A j \in i..Len(s) : s[j] \in S => k <= j
<1>1. PICK f : f = FromIn(s, s[i])
  OBVIOUS
<1>2. PICK n \in Nat : n = Len(s)
  OBVIOUS
<1>3. /\ f \in Seq(T) /\ Len(f) = n - i + 1
      /\ \A j \in 1..(n - i + 1) : f[j] = s[i + j - 1]
  BY <1>1, <1>2, FromFacts
<1>4. DOMAIN f = 1..(n - i + 1) /\ i \in 1..n
  BY <1>2, <1>3
<1>5. PICK at : OnlyAt(f, S, at)
  BY <1>3, OnlyFacts
<1>6. PICK o \in Seq(T) : o = Only(f, S)
  BY <1>3, OnlyFacts
<1>7. /\ DOMAIN at = 1..Len(o) /\ \A m \in DOMAIN at : at[m] \in DOMAIN f
      /\ \A m \in DOMAIN at : o[m] = f[at[m]] /\ f[at[m]] \in S
      /\ \A l, m \in DOMAIN at : l < m => at[l] < at[m]
      /\ \A k \in DOMAIN f : f[k] \in S => \E m \in DOMAIN at : at[m] = k
  BY <1>5, <1>6 DEF OnlyAt
<1>8. \A j \in i..n : /\ j - i + 1 \in DOMAIN f /\ f[j - i + 1] = s[j]
  <2> SUFFICES ASSUME NEW j \in i..n PROVE j - i + 1 \in DOMAIN f /\ f[j - i + 1] = s[j]
    OBVIOUS
  <2>1. j - i + 1 \in 1..(n - i + 1) /\ i + (j - i + 1) - 1 = j
    BY <1>4
  <2>2. QED
    BY <1>3, <1>4, <2>1
<1>9. CASE o = <<>>
  <2>1. w = 0
    BY <1>1, <1>6, <1>9 DEF HeadOr0
  <2>2. DOMAIN at = {}
    BY <1>7, <1>9
  <2>3. QED
    BY <1>2, <1>7, <1>8, <2>1, <2>2
<1>10. CASE o # <<>>
  <2>1. w = o[1] /\ 1 \in 1..Len(o) /\ Len(o) \in Nat
    BY <1>1, <1>6, <1>10 DEF HeadOr0
  <2>2. w = f[at[1]] /\ f[at[1]] \in S /\ at[1] \in 1..(n - i + 1)
    BY <1>4, <1>7, <2>1
  <2>3. PICK k \in i..n : k = i + at[1] - 1
    BY <1>4, <2>2
  <2>4. w = s[k] /\ s[k] \in S
    BY <1>3, <2>2, <2>3
  <2>5. ASSUME NEW j \in i..n, s[j] \in S PROVE k <= j
    <3>1. PICK m \in DOMAIN at : at[m] = j - i + 1
      BY <1>7, <1>8, <2>5
    <3>2. at[1] <= at[m]
      <4>1. m = 1 \/ 1 < m
        BY <1>7, <2>1
      <4>2. at[1] \in Int /\ at[m] \in Int
        BY <1>4, <1>7, <2>2
      <4>3. QED
        BY <1>7, <2>1, <4>1, <4>2
    <3>3. at[1] \in Int /\ i \in Int /\ j \in Int
      BY <1>4, <2>2
    <3>4. QED
      BY <2>3, <3>1, <3>2, <3>3
  <2>6. w # 0
    <3>1. w \in T
      BY <1>6, <2>1, ElementOfSeq
    <3>2. QED
      BY <3>1
  <2>7. QED
    BY <1>2, <2>4, <2>5, <2>6
<1>11. QED
  BY <1>9, <1>10

(* The iterator that follows an element is past none of those after it,    *)
(* also when the element has left the list.                                *)
LEMMA FollowingKept ==
    ASSUME NEW T, 0 \notin T, NEW s \in Seq(T), IsInjective(s), NEW i \in DOMAIN s,
           NEW t, t = Only(s, ToSet(s) \ {s[i]}),
           NEW next, next = FollowingIn(s, s[i])
    PROVE  /\ next \in {0} \cup ToSet(t)
           /\ ToSet(FromIn(s, s[i])) \ {s[i]} \subseteq ToSet(FromIn(t, next))
<1>1. PICK n \in Nat : n = Len(s)
  OBVIOUS
<1>2. DOMAIN s = 1..n /\ i \in 1..n
  BY <1>1
<1>3. /\ ToSet(FromIn(s, s[i])) = {s[j] : j \in i..n}
      /\ next = IF i = n THEN 0 ELSE s[i + 1]
  BY <1>1, FromFacts
<1>4. /\ t \in Seq(T) /\ IsInjective(t) /\ ToSet(t) = ToSet(s) \ {s[i]}
  <2>1. ToSet(s) \cap (ToSet(s) \ {s[i]}) = ToSet(s) \ {s[i]}
    OBVIOUS
  <2>2. QED
    BY <2>1, OnlySet
<1>5. CASE i = n
  <2>1. {s[j] : j \in i..n} = {s[i]}
    BY <1>2, <1>5
  <2>2. QED
    BY <1>3, <1>5, <2>1
<1>6. CASE i # n
  <2>1. i + 1 \in 1..n /\ next = s[i + 1]
    BY <1>2, <1>3, <1>6
  <2>2. \A j \in 1..n : j # i => s[j] \in ToSet(s) \ {s[i]}
    BY <1>2 DEF ToSet, IsInjective
  <2>3. PICK at : OnlyAt(s, ToSet(s) \ {s[i]}, at)
    BY OnlyFacts
  <2>4. /\ DOMAIN at = 1..Len(t) /\ \A m \in DOMAIN at : at[m] \in 1..n
        /\ \A m \in DOMAIN at : t[m] = s[at[m]]
        /\ \A l, m \in DOMAIN at : l < m => at[l] < at[m]
        /\ \A k \in 1..n : s[k] \in ToSet(s) \ {s[i]} => \E m \in DOMAIN at : at[m] = k
    BY <1>2, <2>3 DEF OnlyAt
  <2>5. DOMAIN t = 1..Len(t) /\ Len(t) \in Nat
    BY <1>4
  <2>6. PICK m \in 1..Len(t) : at[m] = i + 1
    <3>1. i + 1 # i
      BY <1>2
    <3>2. QED
      BY <2>1, <2>2, <2>4, <3>1
  <2>7. next = t[m]
    BY <2>1, <2>4, <2>6
  <2>8. \A l \in m..Len(t) : t[l] \in ToSet(FromIn(t, next))
    <3>1. t \in Seq(T) /\ IsInjective(t) /\ m \in DOMAIN t
      BY <1>4, <2>5
    <3>2. QED
      BY <2>7, <3>1, FromElements
  <2>9. ASSUME NEW j \in i..n, s[j] # s[i] PROVE s[j] \in ToSet(FromIn(t, next))
    <3>1. j \in 1..n /\ j # i
      BY <1>2, <2>9
    <3>2. PICK l \in 1..Len(t) : at[l] = j
      BY <2>2, <2>4, <3>1
    <3>3. ~(l < m)
      <4>1. at[m] <= at[l]
        BY <1>2, <2>6, <3>1, <3>2
      <4>2. at[m] \in Int /\ at[l] \in Int
        BY <1>2, <2>6, <3>2
      <4>3. l < m => at[l] < at[m]
        BY <2>4, <2>6, <3>2
      <4>4. QED
        BY <4>1, <4>2, <4>3
    <3>4. l \in m..Len(t)
      BY <2>5, <3>3
    <3>5. t[l] = s[j]
      BY <2>4, <3>2
    <3>6. QED
      BY <2>8, <3>4, <3>5
  <2>10. next \in ToSet(t)
    BY <2>5, <2>6, <2>7 DEF ToSet
  <2>11. QED
    BY <1>3, <2>9, <2>10
<1>7. QED
  BY <1>5, <1>6

-----------------------------------------------------------------------------
(* The types of the variables.                                             *)

WindowTypes ==
    /\ made \in Seq([db : 1 .. opened, kind : Kinds]) /\ Len(made) <= MaxWindows
    /\ windows \subseteq DOMAIN made /\ mdiList \in Seq(DOMAIN made)
    /\ numPlayWindow \in Int /\ numWFWindow \in Int
    /\ playing \in BOOLEAN /\ curClock \in {NULL} \cup 1 .. opened

CallTypes ==
    /\ \A k \in DOMAIN calls :
        calls[k].call \in {"open", "stopRead", "cancelRead", "traceClose", "closeAll"}
    /\ Len(calls) <= MaxCalls

OtherTypes ==
    /\ timer \in BOOLEAN /\ progress \in BOOLEAN /\ hasty \in BOOLEAN
    /\ unread \in 0 .. MaxSteps /\ files \in 0 .. MaxTraces /\ opened \in 0 .. MaxTraces

Types == WindowTypes /\ CallTypes /\ OtherTypes

LEMMA IsSeqOf ==
    ASSUME NEW S, NEW n \in Nat, NEW s, s = [k \in 1..n |-> s[k]], \A k \in 1..n : s[k] \in S
    PROVE  s \in Seq(S)
OBVIOUS

(* There are no more open traces than were made.                           *)
LEMMA OpenTracesBounded == ASSUME IInv PROVE Len(traces) \in Nat /\ Len(traces) <= opened
<1>1. PICK n \in Nat : n = Len(traces)
  BY DEF IInv, TracesOK
<1>2. DOMAIN traces = 1..n /\ opened \in Nat
  BY <1>1 DEF IInv, TracesOK, DBsOK
<1> DEFINE g == [k \in 1..n |-> traces[k].db]
<1>3. g \in [1..n -> 1..opened]
  <2>1. \A k \in 1..n : traces[k].db \in dbs
    BY <1>2 DEF IInv, DBsOwned, OpenTraces
  <2>2. QED
    BY <2>1 DEF IInv, DBsOK
<1>4. \A j, k \in 1..n : j # k => g[j] # g[k]
  BY <1>2 DEF IInv, TracesOK
<1>5. /\ IsFiniteSet(1..n) /\ Cardinality(1..n) = n
      /\ IsFiniteSet(1..opened) /\ Cardinality(1..opened) = opened
  BY <1>2, FS_Interval
<1>6. ~(opened < n)
  <2> HIDE DEF g
  <2>1. QED
    BY <1>3, <1>4, <1>5, FS_PigeonHole
<1>7. QED
  BY <1>1, <1>2, <1>6

LEMMA TypesTypeOK == IInv /\ Types => TypeOK
<1> SUFFICES ASSUME IInv, Types PROVE TypeOK
  OBVIOUS
<1>1. opened \in 0..MaxTraces
  BY DEF Types, OtherTypes
<1>2. dreamsdb \in {NULL} \cup 1 .. opened /\ loading \in BOOLEAN /\ dbs \subseteq 1..opened
  BY DEF IInv, LoaderOK, DBsOK
<1>3. traces \in Seq([db : 1 .. opened, id : 0 .. MaxTraces])
  <2> DEFINE R == [db : 1 .. opened, id : 0 .. MaxTraces]
  <2>1. PICK n \in Nat : n = Len(traces) /\ n <= opened
    BY OpenTracesBounded
  <2>2. DOMAIN traces = 1..n
    BY <2>1 DEF IInv, TracesOK
  <2>3. ASSUME NEW k \in 1..n
        PROVE  traces[k] \in R
    <3>1. traces[k] \in TraceRecord /\ traces[k].id = k - 1
      BY <2>1, <2>2 DEF IInv, TracesOK, TraceIds
    <3>2. traces[k].db \in 1..opened
      BY <1>2, <2>2 DEF IInv, DBsOwned, OpenTraces
    <3>3. k - 1 \in 0 .. MaxTraces
      BY <1>1, <2>1, BoundsAssumption
    <3>4. QED
      BY <3>1, <3>2, <3>3 DEF TraceRecord
  <2>4. traces = [k \in 1..n |-> traces[k]]
    BY <2>1, <2>2 DEF IInv, TracesOK
  <2>5. traces \in Seq(R)
    <3> HIDE DEF R
    <3>1. QED
      BY <2>3, <2>4, IsSeqOf
  <2>6. QED
    BY <2>5
<1>4. QED
  BY <1>1, <1>2, <1>3 DEF Types, WindowTypes, CallTypes, OtherTypes, TypeOK

LEMMA InitTypes == Init => Types
<1> SUFFICES ASSUME Init PROVE Types
  OBVIOUS
<1>1. WindowTypes
  <2>1. made = <<>> /\ windows = {} /\ mdiList = <<>> /\ playing = FALSE /\ curClock = NULL
    BY DEF Init
  <2>2. made \in Seq([db : 1 .. opened, kind : Kinds]) /\ mdiList \in Seq(DOMAIN made)
    BY <2>1, EmptySeq
  <2>3. Len(made) = 0
    BY <2>1, EmptySeq
  <2>4. windows \subseteq DOMAIN made /\ playing \in BOOLEAN /\ curClock \in {NULL} \cup 1 .. opened
    BY <2>1, Zenon
  <2>5. QED
    BY <2>2, <2>3, <2>4, BoundsAssumption DEF Init, WindowTypes
<1>2. CallTypes
  BY EmptySeq, BoundsAssumption DEF Init, CallTypes
<1>a. timer \in BOOLEAN /\ progress \in BOOLEAN /\ hasty \in BOOLEAN
  BY Zenon DEF Init
<1>b. unread \in 0 .. MaxSteps /\ files \in 0 .. MaxTraces /\ opened \in 0 .. MaxTraces
  BY BoundsAssumption DEF Init
<1>3. QED
  BY <1>1, <1>2, <1>a, <1>b DEF Types, OtherTypes

(* The windows of W that are of a kind.                                    *)
Count(M, W, kind) == Cardinality({w \in W : M[w].kind = kind})

LEMMA CountType ==
    ASSUME NEW M, NEW W, IsFiniteSet(W), NEW kind
    PROVE  /\ Count(M, W, kind) \in Nat
           /\ IsFiniteSet({w \in W : M[w].kind = kind})
<1>1. {w \in W : M[w].kind = kind} \in SUBSET W
  OBVIOUS
<1>2. QED
  BY <1>1, FS_Subset, FS_CardinalityType DEF Count

LEMMA WindowsFinite ==
    ASSUME WindowTypes
    PROVE  IsFiniteSet(windows) /\ IsFiniteSet(ToSet(mdiList)) /\ ToSet(mdiList) \subseteq DOMAIN made
<1>1. IsFiniteSet(DOMAIN made)
  BY FS_Interval DEF WindowTypes
<1>2. ToSet(mdiList) \in SUBSET DOMAIN made /\ windows \in SUBSET DOMAIN made
  BY DEF WindowTypes, ToSet
<1>3. QED
  BY <1>1, <1>2, FS_Subset

LEMMA ClosedTypes ==
    ASSUME WindowTypes, NEW ws, IsFiniteSet(ws), Closed(ws), opened' = opened
    PROVE  WindowTypes'
<1>1. made' = made /\ curClock' = curClock /\ windows' = windows \ ws
  BY DEF Closed
<1>2. Count(made, ws, "play") \in Nat /\ Count(made, ws, "waterfall") \in Nat
  BY CountType
<1>3. mdiList' \in Seq(DOMAIN made) /\ numPlayWindow' \in Int /\ numWFWindow' \in Int
  <2>1. CASE ~Erases
    BY <2>1 DEF Closed, WindowTypes, countVars
  <2>2. CASE Erases
    <3>1. mdiList' = Only(mdiList, ToSet(mdiList) \ ws)
      BY <2>2 DEF Closed
    <3>2. /\ numPlayWindow' \in {0, numPlayWindow - Count(made, ws, "play")}
          /\ numWFWindow' \in {0, numWFWindow - Count(made, ws, "waterfall")}
      BY <2>2 DEF Closed, Count
    <3>3. mdiList' \in Seq(DOMAIN made)
      BY <3>1, OnlySet DEF WindowTypes
    <3>4. QED
      BY <1>2, <3>2, <3>3 DEF WindowTypes
  <2>3. QED
    BY <2>1, <2>2
<1>4. playing' \in BOOLEAN
  <2>1. CASE ~Erases
    BY <2>1 DEF Closed, WindowTypes
  <2>2. CASE Erases
    <3>1. playing' = (playing /\ ~(Count(made, ws, "play") > 0
                                   /\ LastOne(numPlayWindow - Count(made, ws, "play"))))
      BY <2>2, Zenon DEF Closed, Count
    <3>2. QED
      BY <3>1
  <2>3. QED
    BY <2>1, <2>2
<1>5. QED
  BY <1>1, <1>3, <1>4 DEF WindowTypes

(* The windows that Opened adds.                                           *)
LEMMA OpenedFacts ==
    ASSUME WindowTypes, NEW db, NEW ks \in Seq(Kinds), Opened(db, ks)
    PROVE  LET m == Len(made)
               new == {m + k : k \in DOMAIN ks}
           IN  /\ m \in Nat /\ Len(ks) \in Nat /\ DOMAIN made = 1..m
               /\ m + Len(ks) <= MaxWindows /\ DOMAIN ks = 1..Len(ks)
               /\ DOMAIN made' = 1..(m + Len(ks)) /\ Len(made') = m + Len(ks)
               /\ made' \in Seq([db : {db} \cup 1..opened, kind : Kinds])
               /\ \A w \in 1..m : made'[w] = made[w]
               /\ \A k \in DOMAIN ks : made'[m + k] = [db |-> db, kind |-> ks[k]]
               /\ windows' = windows \cup new
               /\ mdiList' \in Seq(DOMAIN made') /\ ToSet(mdiList') = ToSet(mdiList) \cup new
               /\ IsInjective(mdiList) => IsInjective(mdiList')
<1>1. PICK m \in Nat : m = Len(made)
  BY DEF WindowTypes
<1>2. PICK l \in Nat : l = Len(ks)
  OBVIOUS
<1> DEFINE R == [db : {db} \cup 1..opened, kind : Kinds]
           add == [k \in DOMAIN ks |-> [db |-> db, kind |-> ks[k]]]
           new == [k \in DOMAIN ks |-> m + k]
<1>3. DOMAIN ks = 1..l /\ DOMAIN made = 1..m /\ m + l <= MaxWindows
  BY <1>1, <1>2 DEF WindowTypes, Opened
<1>4. made \in Seq(R)
  <2>1. made \in Seq([db : 1 .. opened, kind : Kinds])
    BY DEF WindowTypes
  <2>2. \A k \in 1..m : made[k] \in R
    <3>1. \A k \in 1..m : made[k] \in [db : 1 .. opened, kind : Kinds]
      BY <1>1, <2>1, ElementOfSeq
    <3>2. QED
      BY <3>1
  <2>3. made = [k \in 1..m |-> made[k]]
    BY <1>1, <2>1
  <2> HIDE DEF R
  <2>4. QED
    BY <2>2, <2>3
<1>5. add \in Seq(R) /\ Len(add) = l /\ \A k \in 1..l : add[k] = [db |-> db, kind |-> ks[k]]
  <2>1. \A k \in 1..l : ks[k] \in Kinds
    BY <1>2
  <2>2. \A k \in 1..l : [db |-> db, kind |-> ks[k]] \in R
    BY <2>1
  <2>3. add = [k \in 1..l |-> [db |-> db, kind |-> ks[k]]]
    BY <1>3
  <2> HIDE DEF R, add
  <2>4. add \in Seq(R)
    BY <2>2, <2>3
  <2>5. QED
    BY <2>3, <2>4
<1>6. new \in Seq(1..(m + l)) /\ Len(new) = l /\ \A k \in 1..l : new[k] = m + k
  <2>1. new = [k \in 1..l |-> m + k]
    BY <1>3
  <2>2. \A k \in 1..l : m + k \in 1..(m + l)
    OBVIOUS
  <2> HIDE DEF new
  <2>3. new \in Seq(1..(m + l))
    BY <2>1, <2>2
  <2>4. QED
    BY <2>1, <2>3
<1>7. made' = made \o add /\ mdiList' = mdiList \o new /\ windows' = windows \cup ToSet(new)
  BY <1>1 DEF Opened
<1>8. mdiList \in Seq(1..m) /\ mdiList \in Seq(1..(m + l))
  <2>1. mdiList \in Seq(1..m)
    BY <1>3 DEF WindowTypes
  <2>2. 1..m \subseteq 1..(m + l)
    OBVIOUS
  <2>3. QED
    BY <2>1, <2>2, SeqMonotonic
<1>9. PICK n \in Nat : n = Len(mdiList) /\ DOMAIN mdiList = 1..n
  BY <1>8
<1> HIDE DEF R, add, new
<1>10. /\ made' \in Seq(R) /\ Len(made') = m + l
       /\ \A k \in 1..(m + l) : made'[k] = IF k <= m THEN made[k] ELSE add[k - m]
  BY <1>1, <1>4, <1>5, <1>7, ConcatProperties
<1>11. DOMAIN made' = 1..(m + l)
  BY <1>10
<1>12. /\ mdiList' \in Seq(1..(m + l)) /\ Len(mdiList') = n + l
       /\ \A k \in 1..(n + l) : mdiList'[k] = IF k <= n THEN mdiList[k] ELSE new[k - n]
  BY <1>6, <1>7, <1>8, <1>9, ConcatProperties
<1>13. DOMAIN mdiList' = 1..(n + l)
  BY <1>12
<1>14. \A w \in 1..m : made'[w] = made[w]
  BY <1>10
<1>15. ASSUME NEW k \in 1..l PROVE made'[m + k] = [db |-> db, kind |-> ks[k]]
  <2>1. m + k \in 1..(m + l) /\ ~(m + k <= m) /\ (m + k) - m = k
    OBVIOUS
  <2>2. QED
    BY <1>5, <1>10, <2>1
<1>16. ToSet(new) = {m + k : k \in 1..l}
  <2>1. DOMAIN new = 1..l
    BY <1>6
  <2>2. QED
    BY <1>6, <2>1 DEF ToSet
<1>17. /\ \A k \in 1..n : k \in 1..(n + l) /\ mdiList'[k] = mdiList[k] /\ mdiList[k] \in 1..m
       /\ \A k \in 1..l : n + k \in 1..(n + l) /\ mdiList'[n + k] = m + k
       /\ \A k \in 1..(n + l) : k \in 1..n \/ \E j \in 1..l : k = n + j
  <2>1. \A k \in 1..n : k \in 1..(n + l) /\ mdiList'[k] = mdiList[k] /\ mdiList[k] \in 1..m
    BY <1>8, <1>9, <1>12
  <2>2. ASSUME NEW k \in 1..l PROVE n + k \in 1..(n + l) /\ mdiList'[n + k] = m + k
    <3>1. n + k \in 1..(n + l) /\ ~(n + k <= n) /\ (n + k) - n = k
      OBVIOUS
    <3>2. QED
      BY <1>6, <1>12, <3>1
  <2>3. ASSUME NEW k \in 1..(n + l), k \notin 1..n PROVE \E j \in 1..l : k = n + j
    <3>1. k - n \in 1..l /\ k = n + (k - n)
      BY <2>3
    <3>2. QED
      BY <3>1
  <2>4. QED
    BY <2>1, <2>2, <2>3
<1>18. ToSet(mdiList') = ToSet(mdiList) \cup {m + k : k \in 1..l}
  <2>1. ToSet(mdiList') = {mdiList'[k] : k \in 1..(n + l)} /\ ToSet(mdiList) = {mdiList[k] : k \in 1..n}
    BY <1>9, <1>13 DEF ToSet
  <2>2. ToSet(mdiList') \subseteq ToSet(mdiList) \cup {m + k : k \in 1..l}
    <3>1. ASSUME NEW k \in 1..(n + l)
          PROVE  mdiList'[k] \in ToSet(mdiList) \cup {m + j : j \in 1..l}
      <4>1. CASE k \in 1..n
        BY <1>17, <2>1, <4>1
      <4>2. ASSUME NEW j \in 1..l, k = n + j
            PROVE  mdiList'[k] \in {m + i : i \in 1..l}
        <5>1. mdiList'[k] = m + j
          BY <1>17, <4>2
        <5>2. QED
          BY <5>1
      <4>3. QED
        BY <1>17, <4>1, <4>2
    <3>2. QED
      BY <2>1, <3>1
  <2>3. ToSet(mdiList) \subseteq ToSet(mdiList')
    BY <1>17, <2>1
  <2>4. ASSUME NEW k \in 1..l PROVE m + k \in ToSet(mdiList')
    <3>1. n + k \in 1..(n + l) /\ mdiList'[n + k] = m + k
      BY <1>17
    <3>2. QED
      BY <2>1, <3>1
  <2>5. QED
    BY <2>2, <2>3, <2>4
<1>19. ASSUME IsInjective(mdiList) PROVE IsInjective(mdiList')
  <2> SUFFICES ASSUME NEW i \in 1..(n + l), NEW j \in 1..(n + l), mdiList'[i] = mdiList'[j]
               PROVE  i = j
    BY <1>13 DEF IsInjective
  <2>1. CASE i \in 1..n /\ j \in 1..n
    BY <1>9, <1>17, <1>19, <2>1 DEF IsInjective
  <2>2. ASSUME NEW x \in 1..l, NEW y \in 1..l, i = n + x, j = n + y PROVE i = j
    <3>1. mdiList'[n + x] = m + x /\ mdiList'[n + y] = m + y
      BY <1>17
    <3>2. m + x = m + y
      BY <2>2, <3>1
    <3>3. QED
      BY <2>2, <3>2
  <2>3. ASSUME NEW x \in 1..n, NEW y \in 1..l PROVE mdiList'[x] # mdiList'[n + y]
    BY <1>17
  <2>4. \/ i \in 1..n \/ \E x \in 1..l : i = n + x
    BY <1>17
  <2>5. \/ j \in 1..n \/ \E x \in 1..l : j = n + x
    BY <1>17
  <2>6. QED
    BY <2>1, <2>2, <2>3, <2>4, <2>5
<1>20. QED
  <2>1. windows' = windows \cup {m + k : k \in 1..l}
    BY <1>7, <1>16
  <2>2. QED
    BY <1>1, <1>2, <1>3, <1>10, <1>11, <1>12, <1>14, <1>15, <1>18, <1>19, <2>1 DEF R

(* Steps that leave the windows alone, and those that add some.            *)
LEMMA SameWindowTypes ==
    ASSUME IInv, WindowTypes, UNCHANGED windowVars, opened' \in {opened, opened + 1}
    PROVE  WindowTypes'
<1>1. opened \in Nat /\ 1..opened \subseteq 1..opened'
  BY DEF IInv, DBsOK
<1>2. UNCHANGED <<made, windows, mdiList, numPlayWindow, numWFWindow, playing, curClock>>
  BY DEF windowVars, countVars, playVars
<1>3. [db : 1 .. opened, kind : Kinds] \subseteq [db : 1 .. opened', kind : Kinds]
  BY <1>1
<1>4. made' \in Seq([db : 1 .. opened', kind : Kinds])
  BY <1>2, <1>3, SeqMonotonic DEF WindowTypes
<1>5. QED
  BY <1>1, <1>2, <1>4 DEF WindowTypes

LEMMA OpenedTypes ==
    ASSUME IInv, WindowTypes, NEW db \in 1..opened, NEW ks \in Seq(Kinds), Opened(db, ks),
           opened' \in {opened, opened + 1}
    PROVE  WindowTypes'
<1>1. opened \in Nat /\ 1..opened \subseteq 1..opened'
  BY DEF IInv, DBsOK
<1> DEFINE m == Len(made)
           A == [db : {db} \cup 1..opened, kind : Kinds]
           B == [db : 1 .. opened', kind : Kinds]
<1>2. m \in Nat /\ DOMAIN made = 1..m
  BY DEF WindowTypes
<1>3. /\ DOMAIN ks = 1..Len(ks) /\ Len(ks) \in Nat /\ m + Len(ks) <= MaxWindows
      /\ DOMAIN made' = 1..(m + Len(ks)) /\ Len(made') = m + Len(ks)
      /\ made' \in Seq(A)
      /\ windows' = windows \cup {m + k : k \in DOMAIN ks}
      /\ mdiList' \in Seq(DOMAIN made')
  BY OpenedFacts, Zenon
<1>4. A \subseteq B
  BY <1>1
<1>5. made' \in Seq(B)
  <2> HIDE DEF A, B
  <2>1. QED
    BY <1>3, <1>4, SeqMonotonic
<1>6. windows' \subseteq DOMAIN made'
  <2>1. windows \subseteq 1..m
    BY <1>2 DEF WindowTypes
  <2>2. \A k \in 1..Len(ks) : m + k \in 1..(m + Len(ks))
    BY <1>2, <1>3
  <2> HIDE DEF m
  <2>3. 1..m \subseteq 1..(m + Len(ks))
    BY <1>2, <1>3
  <2>4. QED
    BY <1>3, <2>1, <2>2, <2>3
<1>7. numPlayWindow' \in Int /\ numWFWindow' \in Int
  <2>1. IsFiniteSet(DOMAIN ks)
    BY <1>3, FS_Interval
  <2>2. \A kind : Cardinality({k \in DOMAIN ks : ks[k] = kind}) \in Nat
    <3> SUFFICES ASSUME NEW kind PROVE Cardinality({k \in DOMAIN ks : ks[k] = kind}) \in Nat
      OBVIOUS
    <3>1. {k \in DOMAIN ks : ks[k] = kind} \in SUBSET DOMAIN ks
      OBVIOUS
    <3>2. QED
      BY <2>1, <3>1, FS_Subset, FS_CardinalityType
  <2>3. /\ numPlayWindow' = numPlayWindow + Cardinality({k \in DOMAIN ks : ks[k] = "play"})
        /\ numWFWindow' = numWFWindow + Cardinality({k \in DOMAIN ks : ks[k] = "waterfall"})
    BY DEF Opened
  <2>4. QED
    BY <2>2, <2>3 DEF WindowTypes
<1>8. playing' \in BOOLEAN /\ curClock' \in {NULL} \cup 1..opened'
  <2>1. playing' = playing /\ curClock' = curClock
    BY DEF Opened, playVars
  <2>2. QED
    BY <1>1, <2>1 DEF WindowTypes
<1>9. QED
  BY <1>3, <1>5, <1>6, <1>7, <1>8 DEF WindowTypes

(* The handlers that wait.                                                 *)
CallNames == {"open", "stopRead", "cancelRead", "traceClose", "closeAll"}

LEMMA PushedTypes ==
    ASSUME CallsOK, CallTypes, NEW e, e.call \in CallNames, calls' = Append(calls, e),
           Len(calls) < MaxCalls
    PROVE  CallTypes'
<1>1. /\ calls' \in Seq(Range(calls')) /\ DOMAIN calls' = 1..(Len(calls) + 1)
      /\ Len(calls) \in Nat /\ DOMAIN calls = 1..Len(calls)
      /\ \A k \in 1..Len(calls) : calls'[k] = calls[k]
      /\ calls'[Len(calls) + 1] = e
  BY AppendAny DEF CallsOK
<1>2. Len(calls') = Len(calls) + 1
  BY <1>1
<1>3. ASSUME NEW k \in DOMAIN calls' PROVE calls'[k].call \in CallNames
  <2>1. k \in 1..Len(calls) \/ k = Len(calls) + 1
    BY <1>1
  <2>2. QED
    BY <1>1, <2>1 DEF CallTypes, CallNames
<1>4. QED
  BY <1>1, <1>2, <1>3, BoundsAssumption DEF CallTypes, CallNames

LEMMA PoppedTypes ==
    ASSUME CallsOK, CallTypes, calls # <<>>, calls' = Front(calls)
    PROVE  CallTypes'
<1>1. /\ DOMAIN calls' = 1..(Len(calls) - 1) /\ Len(calls') = Len(calls) - 1
      /\ Len(calls) \in Nat \ {0} /\ DOMAIN calls = 1..Len(calls)
      /\ \A k \in 1..(Len(calls) - 1) : calls'[k] = calls[k]
  BY FrontAny DEF CallsOK
<1>2. QED
  BY <1>1, BoundsAssumption DEF CallTypes

LEMMA ReplacedTypes ==
    ASSUME CallsOK, CallTypes, calls # <<>>, NEW e, e.call \in CallNames,
           calls' = Append(Front(calls), e)
    PROVE  CallTypes'
<1>1. PICK f : f = Front(calls)
  OBVIOUS
<1>2. /\ f \in Seq(Range(f)) /\ DOMAIN f = 1..(Len(calls) - 1) /\ Len(f) = Len(calls) - 1
      /\ Len(calls) \in Nat \ {0} /\ DOMAIN calls = 1..Len(calls)
      /\ \A k \in 1..(Len(calls) - 1) : f[k] = calls[k]
  BY <1>1, FrontAny DEF CallsOK
<1>3. PICK g : g = Append(f, e)
  OBVIOUS
<1>4. /\ g \in Seq(Range(g)) /\ DOMAIN g = 1..(Len(f) + 1)
      /\ \A k \in 1..Len(f) : g[k] = f[k]
      /\ g[Len(f) + 1] = e
  BY <1>2, <1>3, AppendAny
<1>5. Len(g) = Len(calls) /\ DOMAIN g = 1..Len(calls) /\ g[Len(calls)] = e
      /\ \A k \in 1..(Len(calls) - 1) : g[k] = calls[k]
  BY <1>2, <1>4
<1>6. ASSUME NEW k \in 1..Len(calls) PROVE g[k].call \in CallNames
  <2>1. k \in 1..(Len(calls) - 1) \/ k = Len(calls)
    BY <1>2
  <2>2. QED
    BY <1>2, <1>5, <2>1 DEF CallTypes, CallNames
<1>7. calls' = g
  BY <1>1, <1>3
<1>8. QED
  BY <1>5, <1>6, <1>7 DEF CallTypes, CallNames

LEMMA SameCallTypes ==
    ASSUME CallsOK, CallsOK', CallTypes, DOMAIN calls' = DOMAIN calls,
           \A k \in DOMAIN calls : calls'[k].call = calls[k].call
    PROVE  CallTypes'
<1>1. Len(calls') = Len(calls)
  BY DEF CallsOK
<1>2. QED
  BY <1>1 DEF CallTypes

LEMMA CloseNextTypes ==
    ASSUME CallsOK, WindowTypes, CallTypes, calls # <<>>, Top.call \notin LoaderCalls,
           NEW w, CloseNext(w)
    PROVE  WindowTypes' /\ CallTypes'
<1>1. Closed({w}) /\ opened' = opened
  BY DEF CloseNext, traceVars
<1>2. WindowTypes'
  BY <1>1, ClosedTypes, FS_Singleton
<1>3. CallTypes'
  <2>1. /\ CallsKept /\ DOMAIN calls' = 1..Len(calls)
        /\ \A k \in DOMAIN calls : calls'[k].call = calls[k].call
    BY ClosedCalls
  <2>2. DOMAIN calls = 1..Len(calls)
    BY DEF CallsOK
  <2>3. QED
    BY <2>1, <2>2, SameCallTypes DEF CallsKept
<1>4. QED
  BY <1>2, <1>3

LEMMA OpenNextTypes ==
    ASSUME OtherTypes, NEW left, NEW below, OpenNext(left, below), hasty' \in BOOLEAN
    PROVE  OtherTypes' /\ opened' \in {opened, opened + 1}
<1>1. files' \in 0..MaxTraces /\ opened' \in 0..MaxTraces /\ opened' \in {opened, opened + 1}
  BY BoundsAssumption DEF OtherTypes, OpenNext
<1>2. unread' \in 0..MaxSteps
  BY BoundsAssumption DEF OpenNext, Idle
<1>3. timer' \in BOOLEAN /\ progress' \in BOOLEAN
  BY Zenon DEF OpenNext, Idle
<1>4. QED
  BY <1>1, <1>2, <1>3 DEF OtherTypes

(* What OpenNext does to the handlers that wait                            *)
OpeningOver(below) ==
    \/ calls' = below
    \/ Len(below) < MaxCalls /\ \E db : calls' = Append(below, [call |-> "open", db |-> db])

LEMMA OpenNextCalls ==
    ASSUME NEW left, NEW below, OpenNext(left, below) PROVE OpeningOver(below)
BY DEF OpenNext, OpeningOver

LEMMA IdleTypes ==
    ASSUME OtherTypes, Idle, UNCHANGED <<files, opened>>, hasty' \in BOOLEAN
    PROVE  OtherTypes'
<1>1. unread' \in 0..MaxSteps
  BY BoundsAssumption DEF Idle
<1>2. timer' \in BOOLEAN /\ progress' \in BOOLEAN
  BY Zenon DEF Idle
<1>3. QED
  BY <1>1, <1>2 DEF OtherTypes

LEMMA HastyType == ASSUME NEW closes, Commanded(closes) PROVE hasty' \in BOOLEAN
BY Zenon DEF Commanded

LEMMA SameOtherTypes ==
    ASSUME OtherTypes, UNCHANGED <<timer, progress, unread, files, opened>>, hasty' \in BOOLEAN
    PROVE  OtherTypes'
BY DEF OtherTypes

(* Steps that change no more than the windows, or the handlers.            *)
LEMMA OnlyWindowTypes ==
    ASSUME IInv, Types, WindowTypes', calls' = calls,
           UNCHANGED <<timer, progress, unread, files, opened>>, hasty' \in BOOLEAN
    PROVE  Types'
<1>1. CallTypes'
  BY DEF Types, CallTypes
<1>2. QED
  BY <1>1, SameOtherTypes DEF Types

LEMMA OnlyCallTypes ==
    ASSUME IInv, Types, CallTypes', UNCHANGED windowVars,
           UNCHANGED <<timer, progress, unread, files, opened>>, hasty' \in BOOLEAN
    PROVE  Types'
BY SameWindowTypes, SameOtherTypes DEF Types

LEMMA LoaderTypes ==
    ASSUME IInv, Types, Open \/ ADFParsed \/ ReadOn \/ LoadFinish \/ LoadCancel
    PROVE  Types'
<1>1. CASE Open
  <2>1. OpenNext(dbs, calls) /\ UNCHANGED windowVars /\ hasty' \in BOOLEAN
    BY <1>1, HastyType DEF Open
  <2>2. OtherTypes' /\ opened' \in {opened, opened + 1}
    BY <2>1, OpenNextTypes DEF Types
  <2>3. CASE calls' = calls
    <3>1. CallTypes'
      BY <2>3 DEF Types, CallTypes
    <3>2. QED
      BY <2>1, <2>2, <3>1, SameWindowTypes DEF Types
  <2>4. ASSUME Len(calls) < MaxCalls, NEW db, calls' = Append(calls, [call |-> "open", db |-> db])
        PROVE  Types'
    <3>1. CallTypes'
      BY <2>4, PushedTypes DEF Types, IInv, CallNames
    <3>2. QED
      BY <2>1, <2>2, <3>1, SameWindowTypes DEF Types
  <2>5. QED
    BY <2>1, <2>3, <2>4, OpenNextCalls DEF OpeningOver
<1>2. CASE ReadOn
  <2>1. /\ UNCHANGED <<timer, progress, files, opened>> /\ UNCHANGED windowVars
        /\ calls' = calls /\ hasty' = hasty /\ unread > 0 /\ unread' = unread - 1
    BY <1>2 DEF ReadOn, traceVars
  <2>2. unread' \in 0..MaxSteps
    BY <2>1, BoundsAssumption DEF Types, OtherTypes
  <2>3. OtherTypes' /\ CallTypes'
    BY <2>1, <2>2 DEF Types, OtherTypes, CallTypes
  <2>4. QED
    BY <2>1, <2>3, SameWindowTypes DEF Types
<1>3. CASE LoadCancel
  <2>1. /\ Idle /\ UNCHANGED <<files, opened>> /\ UNCHANGED windowVars
        /\ calls # <<>> /\ calls' = Front(calls) /\ hasty' = hasty
    BY <1>3 DEF LoadCancel, Waiting, Pop
  <2>2. hasty' \in BOOLEAN
    BY <2>1 DEF Types, OtherTypes
  <2>3. OtherTypes' /\ CallTypes'
    BY <2>1, <2>2, IdleTypes, PoppedTypes DEF Types, IInv
  <2>4. QED
    BY <2>1, <2>3, SameWindowTypes DEF Types
<1>4. CASE LoadFinish
  <2> DEFINE Then(left) == IF files > 0 THEN OpenNext(left, Front(calls))
                           ELSE Idle /\ dbs' = left /\ Pop /\ UNCHANGED <<files, opened>>
  <2>1. calls # <<>> /\ Top.call \in LoaderCalls /\ hasty' \in BOOLEAN
    BY <1>4, HastyType DEF LoadFinish, Waiting, LoaderCalls
  <2>2. dreamsdb \in 1..opened
    BY <2>1, LoaderGoesOn DEF IInv, LoaderOK, DBsOK
  <2>3. ASSUME NEW left, Then(left)
        PROVE  CallTypes' /\ OtherTypes' /\ opened' \in {opened, opened + 1}
    <3>1. CASE OpenNext(left, Front(calls))
      <4>1. OtherTypes' /\ opened' \in {opened, opened + 1}
        BY <2>1, <3>1, OpenNextTypes DEF Types
      <4>2. CASE calls' = Front(calls)
        BY <2>1, <4>1, <4>2, PoppedTypes DEF Types, IInv
      <4>3. ASSUME NEW db, calls' = Append(Front(calls), [call |-> "open", db |-> db])
            PROVE  CallTypes'
        BY <2>1, <4>3, ReplacedTypes DEF Types, IInv, CallNames
      <4>4. QED
        BY <3>1, <4>1, <4>2, <4>3, OpenNextCalls DEF OpeningOver
    <3>2. CASE Idle /\ dbs' = left /\ Pop /\ UNCHANGED <<files, opened>>
      BY <2>1, <3>2, IdleTypes, PoppedTypes DEF Types, IInv, Pop
    <3>3. QED
      BY <2>3, <3>1, <3>2
  <2>4. ASSUME NEW ks \in Layouts \ {<<>>}, Opened(dreamsdb, ks), Then(dbs)
        PROVE  Types'
    <3> HIDE DEF Then
    <3>1. CallTypes' /\ OtherTypes' /\ opened' \in {opened, opened + 1}
      BY <2>3, <2>4
    <3>2. ks \in Seq(Kinds)
      BY KindsAssumption
    <3>3. WindowTypes'
      BY <2>2, <2>4, <3>1, <3>2, OpenedTypes DEF Types
    <3>4. QED
      BY <3>1, <3>3 DEF Types
  <2>5. CASE Idle /\ Pop /\ UNCHANGED <<files, opened, traces, windowVars>>
    <3>1. CallTypes' /\ OtherTypes'
      BY <2>1, <2>5, IdleTypes, PoppedTypes DEF Types, IInv, Pop
    <3>2. QED
      BY <2>5, <3>1, SameWindowTypes DEF Types
  <2>6. CASE Then(dbs \ {dreamsdb}) /\ UNCHANGED <<traces, windowVars>>
    <3> HIDE DEF Then
    <3>1. CallTypes' /\ OtherTypes' /\ opened' \in {opened, opened + 1}
      BY <2>3, <2>6
    <3>2. QED
      BY <2>6, <3>1, SameWindowTypes DEF Types
  <2>7. QED
    BY <1>4, <2>4, <2>5, <2>6 DEF LoadFinish
<1>5. CASE ADFParsed
  <2>1. /\ UNCHANGED <<files, opened>> /\ UNCHANGED windowVars
        /\ calls # <<>> /\ calls' = Front(calls) /\ hasty' = hasty
    BY <1>5 DEF ADFParsed, Waiting, Pop
  <2>2. CallTypes' /\ hasty' \in BOOLEAN
    BY <2>1, PoppedTypes DEF Types, IInv, OtherTypes
  <2>3. CASE timer' = TRUE /\ progress' = TRUE /\ unread' \in 0..MaxSteps
    <3>1. OtherTypes'
      BY <2>1, <2>2, <2>3 DEF Types, OtherTypes
    <3>2. QED
      BY <2>1, <2>2, <3>1, SameWindowTypes DEF Types
  <2>4. CASE Idle
    <3>1. OtherTypes'
      BY <2>1, <2>2, <2>4, IdleTypes DEF Types
    <3>2. QED
      BY <2>1, <2>2, <3>1, SameWindowTypes DEF Types
  <2>5. QED
    BY <1>5, <2>3, <2>4 DEF ADFParsed
<1>6. QED
  BY <1>1, <1>2, <1>3, <1>4, <1>5

LEMMA InterruptedTypes ==
    ASSUME IInv, Types, NEW call \in LoaderCalls, Interrupted(call)
    PROVE  Types'
<1>1. /\ Len(calls) < MaxCalls /\ timer' = FALSE /\ progress' = FALSE
      /\ calls' = Append(calls, [call |-> call, db |-> dreamsdb])
      /\ UNCHANGED <<unread, files, opened, windowVars, hasty>>
  BY DEF Interrupted, Hidden, traceVars
<1>2. CallTypes'
  BY <1>1, PushedTypes DEF Types, IInv, LoaderCalls, CallNames
<1>3. OtherTypes'
  BY <1>1 DEF Types, OtherTypes
<1>4. QED
  BY <1>1, <1>2, <1>3, SameWindowTypes DEF Types

(* The commands of the user that are done at once.                         *)
LEMMA CommandTypes ==
    ASSUME IInv, Types, NEW n,
           \/ CloseTraceWindows(n) \/ (\E kind \in Kinds : NewWindow(n, kind))
           \/ Play(n) \/ StopPlay
    PROVE  Types'
<1>1. CASE CloseTraceWindows(n)
  <2> DEFINE ws == {w \in ToSet(mdiList) : made[w].db = traces[n].db}
  <2>1. /\ Closed(ws) /\ calls' = calls /\ UNCHANGED <<timer, progress, unread, files, opened>>
        /\ hasty' \in BOOLEAN
    BY <1>1, HastyType DEF CloseTraceWindows, loadVars, traceVars
  <2>2. IsFiniteSet(ws)
    <3>1. ws \in SUBSET ToSet(mdiList)
      OBVIOUS
    <3>2. QED
      BY <3>1, WindowsFinite, FS_Subset DEF Types
  <2> HIDE DEF ws
  <2>3. WindowTypes'
    BY <2>1, <2>2, ClosedTypes DEF Types
  <2>4. QED
    BY <2>1, <2>3, OnlyWindowTypes
<1>2. ASSUME NEW kind \in Kinds, NewWindow(n, kind) PROVE Types'
  <2>1. /\ Opened(traces[n].db, <<kind>>) /\ n \in DOMAIN traces /\ calls' = calls
        /\ UNCHANGED <<timer, progress, unread, files, opened>> /\ hasty' \in BOOLEAN
    BY <1>2, HastyType DEF NewWindow, loadVars, traceVars
  <2>2. traces[n].db \in 1..opened
    BY <2>1 DEF IInv, DBsOwned, DBsOK, OpenTraces
  <2>3. <<kind>> \in Seq(Kinds)
    OBVIOUS
  <2>4. WindowTypes'
    BY <2>1, <2>2, <2>3, OpenedTypes DEF Types
  <2>5. QED
    BY <2>1, <2>4, OnlyWindowTypes
<1>3. CASE Play(n) \/ StopPlay
  <2>1. /\ UNCHANGED <<made, windows, mdiList, countVars, calls, hasty>>
        /\ UNCHANGED <<timer, progress, unread, files, opened>>
    BY <1>3 DEF Play, StopPlay, loadVars, traceVars
  <2>2. playing' \in BOOLEAN /\ curClock' \in {NULL} \cup 1..opened
    <3>1. CASE Play(n)
      <4>1. n \in DOMAIN made /\ playing' = TRUE /\ curClock' = made[n].db
        BY <3>1 DEF Play, Types, WindowTypes
      <4>2. made[n] \in [db : 1 .. opened, kind : Kinds]
        <5>1. made \in Seq([db : 1 .. opened, kind : Kinds])
          BY DEF Types, WindowTypes
        <5>2. n \in 1..Len(made)
          BY <4>1, <5>1
        <5>3. QED
          BY <5>1, <5>2, ElementOfSeq
      <4>3. QED
        BY <4>1, <4>2
    <3>2. CASE StopPlay
      BY <3>2 DEF StopPlay, Types, WindowTypes
    <3>3. QED
      BY <1>3, <3>1, <3>2
  <2>3. WindowTypes'
    BY <2>1, <2>2 DEF Types, WindowTypes, countVars
  <2>4. hasty' \in BOOLEAN
    BY <2>1 DEF Types, OtherTypes
  <2>5. QED
    BY <2>1, <2>3, <2>4, OnlyWindowTypes
<1>4. QED
  BY <1>1, <1>2, <1>3

LEMMA CloseWindowTypes == ASSUME IInv, Types, NEW w, CloseWindow(w) PROVE Types'
<1>1. /\ Closed({w}) /\ UNCHANGED <<timer, progress, unread, files, opened>>
      /\ calls' = (IF Erases THEN MovedOff(w) ELSE calls) /\ hasty' \in BOOLEAN
  BY HastyType DEF CloseWindow, loadVars, traceVars
<1>2. WindowTypes'
  BY <1>1, ClosedTypes, FS_Singleton DEF Types
<1>3. CallTypes'
  <2>1. CASE Erases
    <3>1. PICK c : c = MovedOff(w)
      OBVIOUS
    <3>2. /\ c \in Seq(Range(c)) /\ DOMAIN c = DOMAIN calls
          /\ \A k \in DOMAIN calls : c[k].call = calls[k].call
      BY <3>1, MovedOffCalls DEF IInv
    <3>3. calls' = c
      BY <1>1, <2>1, <3>1
    <3>4. Len(c) = Len(calls)
      BY <3>2 DEF IInv, CallsOK
    <3>5. QED
      BY <3>2, <3>3, <3>4 DEF Types, CallTypes
  <2>2. CASE ~Erases
    BY <1>1, <2>2 DEF Types, CallTypes
  <2>3. QED
    BY <2>1, <2>2
<1>4. QED
  BY <1>1, <1>2, <1>3, SameOtherTypes DEF Types

LEMMA WalkOnTypes ==
    ASSUME IInv, Types, NEW db, NEW p, NEW below, WalkOn(db, p, below), UNCHANGED windowVars,
           UNCHANGED <<timer, progress, unread, files, opened>>, hasty' \in BOOLEAN,
           calls' = below => CallTypes',
           \A e : e.call \in CallNames /\ calls' = Append(below, e) => CallTypes'
    PROVE  Types'
<1>1. CallTypes'
  BY DEF WalkOn, CallNames
<1>2. QED
  BY <1>1, OnlyCallTypes

LEMMA TraceCloseTypes == ASSUME IInv, Types, NEW k, TraceClose(k) PROVE Types'
<1>1. /\ WalkOn(traces[k].db, HeadOr0(mdiList), calls) /\ UNCHANGED windowVars
      /\ UNCHANGED <<timer, progress, unread, files, opened>> /\ hasty' \in BOOLEAN
      /\ Len(calls) < MaxCalls - 1
  BY HastyType DEF TraceClose, loadVars
<1>2. calls' = calls => CallTypes'
  BY DEF Types, CallTypes
<1>3. Len(calls) < MaxCalls
  <2>1. Len(calls) \in Nat
    BY DEF IInv, CallsOK
  <2>2. QED
    BY <1>1, <2>1, BoundsAssumption
<1>4. \A e : e.call \in CallNames /\ calls' = Append(calls, e) => CallTypes'
  BY <1>3, PushedTypes DEF IInv, Types
<1>5. QED
  BY <1>1, <1>2, <1>4, WalkOnTypes

LEMMA TraceCloseStepTypes == ASSUME IInv, Types, TraceCloseStep PROVE Types'
<1>1. CallsOK /\ calls # <<>> /\ Top.call \notin LoaderCalls
  BY DEF IInv, TraceCloseStep, Waiting, LoaderCalls
<1>2. CASE CloseNext(Top.at)
  <2>1. UNCHANGED <<timer, progress, unread, files, opened, hasty>>
    BY <1>2 DEF CloseNext, loadVars, traceVars
  <2>2. WindowTypes' /\ CallTypes' /\ hasty' \in BOOLEAN
    BY <1>1, <1>2, <2>1, CloseNextTypes DEF Types, OtherTypes
  <2>3. QED
    BY <2>1, <2>2, SameOtherTypes DEF Types
<1>3. CASE ~CloseNext(Top.at)
  <2>1. /\ UNCHANGED <<timer, progress, unread, files, opened, hasty>> /\ UNCHANGED windowVars
        /\ WalkOn(Top.db, Top.next, Front(calls))
    BY <1>3 DEF TraceCloseStep, loadVars
  <2>2. calls' = Front(calls) => CallTypes'
    BY <1>1, PoppedTypes DEF Types
  <2>3. \A e : e.call \in CallNames /\ calls' = Append(Front(calls), e) => CallTypes'
    BY <1>1, ReplacedTypes DEF Types
  <2>4. hasty' \in BOOLEAN
    BY <2>1 DEF Types, OtherTypes
  <2>5. QED
    BY <2>1, <2>2, <2>3, <2>4, WalkOnTypes
<1>4. QED
  BY <1>2, <1>3

LEMMA AllClosedTypes ==
    ASSUME IInv, Types, AllClosed, opened' = opened PROVE WindowTypes'
BY DEF AllClosed, Types, WindowTypes, playVars

LEMMA CloseAllTypes == ASSUME IInv, Types, CloseAll PROVE Types'
<1>1. /\ UNCHANGED <<timer, progress, unread, files, opened>> /\ hasty' \in BOOLEAN
      /\ Len(calls) < MaxCalls
  <2>1. Len(calls) \in Nat /\ Len(calls) < MaxCalls - 1
    BY DEF IInv, CallsOK, CloseAll
  <2>2. Len(calls) < MaxCalls
    BY <2>1, BoundsAssumption
  <2>3. UNCHANGED <<timer, progress, unread, files, opened>> /\ hasty' \in BOOLEAN
    BY HastyType DEF CloseAll, loadVars
  <2>4. QED
    BY <2>2, <2>3
<1>2. CASE windows = {}
  <2>1. AllClosed /\ calls' = calls
    BY <1>2 DEF CloseAll
  <2>2. QED
    BY <1>1, <2>1, AllClosedTypes, OnlyWindowTypes
<1>3. CASE windows # {}
  <2>1. PICK e : e = [call |-> "closeAll", left |-> Copy, closed |-> FALSE]
    OBVIOUS
  <2>2. calls' = Append(calls, e) /\ UNCHANGED windowVars /\ e.call \in CallNames
    BY <1>3, <2>1 DEF CloseAll, CallNames
  <2>3. CallTypes'
    BY <1>1, <2>2, PushedTypes DEF IInv, Types
  <2>4. QED
    BY <1>1, <2>2, <2>3, OnlyCallTypes
<1>4. QED
  BY <1>2, <1>3

LEMMA CloseAllStepTypes == ASSUME IInv, Types, CloseAllStep PROVE Types'
<1>1. CallsOK /\ calls # <<>> /\ Top.call = "closeAll" /\ Top.call \notin LoaderCalls
      /\ "call" \in DOMAIN Top
  <2>1. CallsOK /\ calls # <<>> /\ Top.call = "closeAll"
    BY DEF IInv, CloseAllStep, Waiting
  <2>2. Top = calls[Len(calls)] /\ Len(calls) \in DOMAIN calls
    BY <2>1, FrontAny DEF CallsOK, Top
  <2>3. QED
    BY <2>1, <2>2 DEF CallsOK, LoaderCalls
<1>2. CASE CloseNext(Top.left[1])
  <2>1. UNCHANGED <<timer, progress, unread, files, opened, hasty>>
    BY <1>2 DEF CloseNext, loadVars, traceVars
  <2>2. WindowTypes' /\ CallTypes' /\ hasty' \in BOOLEAN
    BY <1>1, <1>2, <2>1, CloseNextTypes DEF Types, OtherTypes
  <2>3. QED
    BY <2>1, <2>2, SameOtherTypes DEF Types
<1>3. CASE ~CloseNext(Top.left[1])
  <2>1. UNCHANGED <<timer, progress, unread, files, opened, hasty>>
    BY <1>3 DEF CloseAllStep, loadVars
  <2>2. hasty' \in BOOLEAN
    BY <2>1 DEF Types, OtherTypes
  <2>3. CASE Len(Top.left) = 1
    <3>1. AllClosed /\ calls' = Front(calls)
      BY <1>3, <2>3 DEF CloseAllStep, Pop
    <3>2. WindowTypes' /\ CallTypes'
      BY <1>1, <2>1, <3>1, AllClosedTypes, PoppedTypes DEF Types
    <3>3. QED
      BY <2>1, <2>2, <3>2, SameOtherTypes DEF Types
  <2>4. CASE Len(Top.left) # 1
    <3>1. PICK e : e = [Top EXCEPT !.left = Tail(@), !.closed = FALSE]
      OBVIOUS
    <3>2. calls' = Append(Front(calls), e) /\ UNCHANGED windowVars
      BY <1>3, <2>4, <3>1 DEF CloseAllStep
    <3>3. e.call \in CallNames
      BY <1>1, <3>1 DEF CallNames
    <3>4. CallTypes'
      BY <1>1, <3>2, <3>3, ReplacedTypes DEF Types
    <3>5. QED
      BY <2>1, <2>2, <3>2, <3>4, OnlyCallTypes
  <2>5. QED
    BY <2>3, <2>4
<1>4. QED
  BY <1>2, <1>3

LEMMA NextTypes == ASSUME IInv, Types, [Next]_vars PROVE Types'
<1>1. CASE Open \/ ADFParsed \/ ReadOn \/ LoadFinish \/ LoadCancel
  BY <1>1, LoaderTypes
<1>2. CASE ReadEnd \/ StopButton \/ AbortButton
  BY <1>2, InterruptedTypes DEF ReadEnd, StopButton, AbortButton, LoaderCalls
<1>3. CASE \E k \in 1 .. MaxTraces : TraceClose(k)
  BY <1>3, TraceCloseTypes
<1>4. ASSUME NEW k \in 1 .. MaxTraces,
             CloseTraceWindows(k) \/ \E kind \in Kinds : NewWindow(k, kind)
      PROVE  Types'
  BY <1>4, CommandTypes
<1>5. ASSUME NEW w \in 1 .. MaxWindows, CloseWindow(w) PROVE Types'
  BY <1>5, CloseWindowTypes
<1>6. ASSUME NEW w, Play(w) \/ StopPlay PROVE Types'
  BY <1>6, CommandTypes
<1>7. CASE UNCHANGED vars
  <2>1. /\ UNCHANGED <<timer, progress, unread, files, opened, hasty>>
        /\ UNCHANGED windowVars /\ calls' = calls
    BY <1>7 DEF vars, loadVars, traceVars
  <2>2. CallTypes' /\ hasty' \in BOOLEAN
    BY <2>1 DEF Types, CallTypes, OtherTypes
  <2>3. QED
    BY <2>1, <2>2, OnlyCallTypes
<1>8. CASE CloseAll
  BY <1>8, CloseAllTypes
<1>9. CASE TraceCloseStep
  BY <1>9, TraceCloseStepTypes
<1>10. CASE CloseAllStep
  BY <1>10, CloseAllStepTypes
<1>11. QED
  BY <1>1, <1>2, <1>3, <1>4, <1>5, <1>6, <1>7, <1>8, <1>9, <1>10 DEF Next

(* The variables have their types, whatever waits for whom.                *)
THEOREM SpecTypeOK == Spec => []TypeOK
<1>1. Init => Types
  BY InitTypes
<1>2. IInv /\ Types /\ [Next]_vars => Types'
  BY NextTypes
<1>3. IInv /\ Types => TypeOK
  BY TypesTypeOK
<1>4. QED
  BY <1>1, <1>2, <1>3, SpecIInv, PTL DEF Spec

-----------------------------------------------------------------------------
(* The windows and the handlers that close them, the user not being hasty. *)

WindowsOK ==
    /\ windows = ToSet(mdiList) /\ IsInjective(mdiList)
    /\ \A w \in windows : made[w].db \in OpenTraces

CountsOK ==
    /\ numPlayWindow = Count(made, windows, "play")
    /\ numWFWindow = Count(made, windows, "waterfall")
    /\ playing => Count(made, windows, "play") > 0

CloseAllFrame == [call : {"closeAll"}, left : Seq(Nat), closed : BOOLEAN]
TraceCloseFrame ==
    [call : {"traceClose"}, db : Nat, at : Nat, next : Nat, closed : BOOLEAN]

(* What do_closeAll has left to close is what there is.                    *)
CloseAllOK(f) ==
    /\ f \in CloseAllFrame /\ f.left # <<>> /\ IsInjective(f.left)
    /\ windows = ToSet(f.left) \ (IF f.closed THEN {f.left[1]} ELSE {})

(* do_genericTraceClose has passed none of the windows of its trace.       *)
TraceCloseOK(f) ==
    LET ws == {w \in windows : made[w].db = f.db}
    IN  /\ f \in TraceCloseFrame /\ f.db \in OpenTraces
        /\ IF f.closed THEN f.next \in {0} \cup windows /\ ws \subseteq ToSet(From(f.next))
           ELSE f.at \in ws /\ f.next = Following(f.at) /\ ws \subseteq ToSet(From(f.at))

(* A handler that closes windows is the only one that waits.               *)
ClosingOK == Closings # {} =>
    /\ ~loading /\ Len(calls) = 1
    /\ CloseAllOK(calls[1]) \/ TraceCloseOK(calls[1])

Sound == ~hasty => WindowsOK /\ CountsOK /\ ClosingOK

LEMMA CountRemoved ==
    ASSUME NEW M, NEW W, IsFiniteSet(W), NEW R \in SUBSET W, NEW kind
    PROVE  /\ Count(M, W \ R, kind) = Count(M, W, kind) - Count(M, R, kind)
           /\ Count(M, W \ R, kind) \in Nat /\ Count(M, W, kind) \in Nat
           /\ Count(M, R, kind) \in Nat /\ IsFiniteSet(R)
<1> DEFINE S == {w \in W : M[w].kind = kind}
           T == {w \in R : M[w].kind = kind}
<1>1. IsFiniteSet(R) /\ IsFiniteSet(W \ R)
  BY FS_Subset, FS_Difference
<1>2. {w \in W \ R : M[w].kind = kind} = S \ T /\ S \cap T = T
  OBVIOUS
<1>3. IsFiniteSet(S) /\ Count(M, W, kind) = Cardinality(S) /\ Count(M, R, kind) = Cardinality(T)
  <2>1. IsFiniteSet(S)
    <3>1. S \in SUBSET W
      OBVIOUS
    <3> HIDE DEF S
    <3>2. QED
      BY <3>1, FS_Subset
  <2>2. Count(M, W, kind) = Cardinality(S) /\ Count(M, R, kind) = Cardinality(T)
    BY DEF Count
  <2>3. QED
    BY <2>1, <2>2
<1>4. Count(M, W \ R, kind) = Cardinality(S \ T)
  BY <1>2 DEF Count
<1>5. Cardinality(S \ T) = Cardinality(S) - Cardinality(T)
  <2>1. S \cap T = T /\ IsFiniteSet(S)
    BY <1>2, <1>3, Zenon
  <2> HIDE DEF S, T
  <2>2. QED
    BY <2>1, FS_Difference
<1>6. QED
  BY <1>1, <1>3, <1>4, <1>5, CountType

(* The numbers of the windows that are added after m, and how many of them *)
(* are of a kind.                                                          *)
Added(m, ks) == {m + k : k \in DOMAIN ks}
KindsOf(ks, kind) == Cardinality({k \in DOMAIN ks : ks[k] = kind})

CountAdds(M, N, m, W, ks, kind) ==
    /\ Count(N, W \cup Added(m, ks), kind) = Count(M, W, kind) + KindsOf(ks, kind)
    /\ Count(M, W, kind) \in Nat /\ KindsOf(ks, kind) \in Nat

LEMMA CountAdded ==
    ASSUME NEW M, NEW N, NEW m \in Nat, NEW W, W \subseteq 1..m, NEW ks \in Seq(Kinds),
           \A w \in W : N[w] = M[w],
           \A k \in DOMAIN ks : N[m + k].kind = ks[k], NEW kind
    PROVE  CountAdds(M, N, m, W, ks, kind)
<1>0. PICK l \in Nat : l = Len(ks) /\ DOMAIN ks = 1..l
  OBVIOUS
<1> DEFINE S == {w \in W : M[w].kind = kind}
           K == {k \in 1..l : ks[k] = kind}
           T == {m + k : k \in K}
           g == [k \in K |-> m + k]
<1>1. IsFiniteSet(1..m) /\ IsFiniteSet(1..l)
  BY FS_Interval
<1>2. S \in SUBSET (1..m) /\ K \in SUBSET (1..l)
  OBVIOUS
<1>3. IsFiniteSet(S) /\ IsFiniteSet(K) /\ Cardinality(S) \in Nat /\ Cardinality(K) \in Nat
  <2> HIDE DEF S, K
  <2>1. QED
    BY <1>1, <1>2, FS_Subset, FS_CardinalityType
<1>4. IsFiniteSet(T) /\ Cardinality(T) = Cardinality(K)
  <2>1. \A k \in K : g[k] = m + k /\ k \in Nat
    OBVIOUS
  <2>2. T = {g[k] : k \in K} /\ g \in [K -> T]
    OBVIOUS
  <2>3. g \in Bijection(K, T)
    <3> HIDE DEF T, K, g
    <3>1. \A a, b \in K : g[a] = g[b] => a = b
      BY <2>1
    <3>2. QED
      BY <2>2, <3>1 DEF Bijection, Injection, Surjection, IsInjective
  <2> HIDE DEF T, K, g
  <2>4. QED
    BY <1>3, <2>3, FS_Bijection DEF ExistsBijection
<1>5. S \cap T = {}
  BY <1>2
<1>6. {w \in W \cup {m + k : k \in DOMAIN ks} : N[w].kind = kind} = S \cup T
  <2>1. \A k \in 1..l : m + k \notin W
    OBVIOUS
  <2>2. \A w \in W : N[w].kind = kind <=> w \in S
    OBVIOUS
  <2>3. \A k \in 1..l : N[m + k].kind = kind <=> k \in K
    BY <1>0
  <2> HIDE DEF K, S
  <2>4. ASSUME NEW w \in W \cup {m + k : k \in 1..l}, N[w].kind = kind PROVE w \in S \cup T
    BY <2>2, <2>3, <2>4
  <2>5. ASSUME NEW w \in S PROVE w \in W /\ N[w].kind = kind
    <3>1. w \in W
      BY DEF S
    <3>2. QED
      BY <2>2, <3>1
  <2>6. ASSUME NEW w \in T PROVE w \in {m + k : k \in 1..l} /\ N[w].kind = kind
    <3>1. PICK k \in K : w = m + k
      OBVIOUS
    <3>2. k \in 1..l
      BY DEF K
    <3>3. QED
      BY <2>3, <3>1, <3>2
  <2>7. QED
    BY <1>0, <2>4, <2>5, <2>6
<1>7. Cardinality(S \cup T) = Cardinality(S) + Cardinality(T)
  <2>1. Cardinality(S \cap T) = 0
    BY <1>5, FS_EmptySet
  <2>2. Cardinality(S \cup T) = Cardinality(S) + Cardinality(T) - Cardinality(S \cap T)
    <3> HIDE DEF S, T
    <3>1. QED
      BY <1>3, <1>4, FS_Union
  <2>3. Cardinality(S) \in Nat /\ Cardinality(T) \in Nat
    BY <1>3, <1>4
  <2> HIDE DEF S, T
  <2>4. QED
    BY <2>1, <2>2, <2>3
<1>8. QED
  BY <1>0, <1>3, <1>4, <1>6, <1>7 DEF Count, Added, KindsOf, CountAdds

(* The windows stay as they are.                                           *)
LEMMA SameSound ==
    ASSUME WindowsOK, CountsOK, UNCHANGED windowVars, OpenTraces \subseteq OpenTraces'
    PROVE  WindowsOK' /\ CountsOK'
<1>1. UNCHANGED <<made, windows, mdiList, numPlayWindow, numWFWindow, playing>>
  BY DEF windowVars, countVars, playVars
<1>2. QED
  BY <1>1 DEF WindowsOK, CountsOK

(* Windows leave.                                                          *)
LEMMA ClosedSound ==
    ASSUME WindowTypes, WindowsOK, CountsOK, Erases, NEW ws \in SUBSET windows, Closed(ws),
           traces' = traces
    PROVE  /\ WindowsOK' /\ CountsOK' /\ made' = made /\ windows' = windows \ ws
           /\ mdiList' = Only(mdiList, ToSet(mdiList) \ ws)
<1>1. made' = made /\ windows' = windows \ ws /\ mdiList' = Only(mdiList, ToSet(mdiList) \ ws)
  BY DEF Closed
<1>2. IsInjective(mdiList') /\ ToSet(mdiList') = windows \ ws
  <2>1. ToSet(mdiList) \cap (ToSet(mdiList) \ ws) = windows \ ws
    BY DEF WindowsOK
  <2>2. QED
    BY <1>1, <2>1, OnlySet DEF WindowsOK, WindowTypes
<1>3. WindowsOK'
  BY <1>1, <1>2 DEF WindowsOK, OpenTraces
<1>4. \A kind : /\ Count(made, windows \ ws, kind) = Count(made, windows, kind) - Count(made, ws, kind)
                /\ Count(made, windows \ ws, kind) \in Nat
                /\ Count(made, windows, kind) \in Nat /\ Count(made, ws, kind) \in Nat
  BY WindowsFinite, CountRemoved
<1>5. mdiList' = <<>> => \A kind : Count(made, windows \ ws, kind) = 0
  <2> SUFFICES ASSUME mdiList' = <<>>, NEW kind PROVE Count(made, windows \ ws, kind) = 0
    OBVIOUS
  <2>1. windows \ ws = {}
    BY <1>2 DEF ToSet
  <2>2. {w \in windows \ ws : made[w].kind = kind} = {}
    BY <2>1
  <2>3. QED
    BY <2>2, FS_EmptySet DEF Count
<1>6. /\ numPlayWindow' = IF mdiList' = <<>> THEN 0 ELSE numPlayWindow - Count(made, ws, "play")
      /\ numWFWindow' = IF mdiList' = <<>> THEN 0 ELSE numWFWindow - Count(made, ws, "waterfall")
      /\ playing' = (playing /\ ~(Count(made, ws, "play") > 0
                                  /\ LastOne(numPlayWindow - Count(made, ws, "play"))))
  BY <1>1, Zenon DEF Closed, Count
<1>7. /\ numPlayWindow' = Count(made, windows \ ws, "play")
      /\ numWFWindow' = Count(made, windows \ ws, "waterfall")
  BY <1>4, <1>5, <1>6 DEF CountsOK
<1>8. playing' => Count(made, windows \ ws, "play") > 0
  <2>1. SUFFICES ASSUME playing' PROVE Count(made, windows \ ws, "play") > 0
    OBVIOUS
  <2>2. playing /\ ~(Count(made, ws, "play") > 0
                     /\ LastOne(numPlayWindow - Count(made, ws, "play")))
    BY <1>6, <2>1, Zenon
  <2>3. QED
    BY <1>4, <2>2 DEF CountsOK, LastOne
<1>9. QED
  BY <1>1, <1>3, <1>7, <1>8 DEF CountsOK

(* Windows come.                                                           *)
LEMMA OpenedSound ==
    ASSUME WindowTypes, WindowsOK, CountsOK, NEW db, NEW ks \in Seq(Kinds), Opened(db, ks),
           db \in OpenTraces', OpenTraces \subseteq OpenTraces'
    PROVE  WindowsOK' /\ CountsOK'
<1> DEFINE m == Len(made)
           l == Len(ks)
           new == {m + k : k \in DOMAIN ks}
<1>1. /\ m \in Nat /\ l \in Nat /\ DOMAIN made = 1..m /\ DOMAIN ks = 1..l
      /\ \A w \in 1..m : made'[w] = made[w]
      /\ \A k \in DOMAIN ks : made'[m + k] = [db |-> db, kind |-> ks[k]]
      /\ windows' = windows \cup new
      /\ ToSet(mdiList') = ToSet(mdiList) \cup new
      /\ IsInjective(mdiList) => IsInjective(mdiList')
  BY OpenedFacts, Zenon
<1>2. windows \in SUBSET (1..m)
  BY <1>1 DEF WindowTypes
<1>3. WindowsOK'
  <2>1. ASSUME NEW w \in windows PROVE made'[w].db \in OpenTraces'
    BY <1>1, <1>2 DEF WindowsOK
  <2>2. ASSUME NEW w \in new PROVE made'[w].db \in OpenTraces'
    <3>1. PICK k \in DOMAIN ks : w = m + k
      OBVIOUS
    <3>2. made'[w] = [db |-> db, kind |-> ks[k]]
      BY <1>1, <3>1
    <3>3. QED
      BY <3>2
  <2> HIDE DEF new, m, l
  <2>3. QED
    BY <1>1, <2>1, <2>2 DEF WindowsOK
<1>4. \A kind : /\ Count(made', windows', kind)
                       = Count(made, windows, kind) + KindsOf(ks, kind)
                /\ Count(made, windows, kind) \in Nat
                /\ KindsOf(ks, kind) \in Nat
  <2>1. \A k \in 1..l : made'[m + k].kind = ks[k]
    <3> SUFFICES ASSUME NEW k \in 1..l PROVE made'[m + k].kind = ks[k]
      OBVIOUS
    <3>1. made'[m + k] = [db |-> db, kind |-> ks[k]]
      BY <1>1
    <3>2. QED
      BY <3>1
  <2>2. \A w \in windows : made'[w] = made[w]
    BY <1>1, <1>2
  <2>3. windows' = windows \cup Added(m, ks)
    BY <1>1 DEF Added
  <2> HIDE DEF m, l, new
  <2>4. m \in Nat /\ DOMAIN ks = 1..l /\ windows \subseteq 1..m
    BY <1>1, <1>2
  <2>5. \A kind : CountAdds(made, made', m, windows, ks, kind)
    BY <2>1, <2>2, <2>4, CountAdded
  <2>6. QED
    BY <2>3, <2>5 DEF CountAdds
<1>5. CountsOK'
  <2>1. /\ numPlayWindow' = numPlayWindow + KindsOf(ks, "play")
        /\ numWFWindow' = numWFWindow + KindsOf(ks, "waterfall")
        /\ playing' = playing
    BY DEF Opened, playVars, KindsOf
  <2>3. /\ numPlayWindow' = Count(made', windows', "play")
        /\ numWFWindow' = Count(made', windows', "waterfall")
    BY <1>4, <2>1 DEF CountsOK
  <2>4. playing' => Count(made', windows', "play") > 0
    BY <1>4, <2>1 DEF CountsOK
  <2>5. QED
    BY <2>3, <2>4 DEF CountsOK, Count
<1>6. QED
  BY <1>3, <1>5

-----------------------------------------------------------------------------
(* The handler that closes windows.                                        *)

LEMMA NoClosing ==
    ASSUME IInv, Types, Closings = {}, ~loading
    PROVE  calls = <<>>
<1>1. Loaders = {}
  BY DEF IInv, LoaderOK
<1>2. DOMAIN calls = {}
  BY <1>1 DEF Types, CallTypes, Loaders, Closings
<1>3. calls \in Seq(Range(calls)) /\ DOMAIN calls = 1..Len(calls) /\ Len(calls) \in Nat
  BY DEF IInv, CallsOK
<1>4. Len(calls) = 0
  BY <1>2, <1>3
<1>5. QED
  BY <1>3, <1>4, EmptySeq

LEMMA Alone ==
    ASSUME IInv, ClosingOK, calls # <<>>, Top.call \in {"traceClose", "closeAll"}
    PROVE  /\ ~loading /\ Len(calls) = 1 /\ Top = calls[1] /\ DOMAIN calls = {1}
           /\ Front(calls) = <<>>
           /\ Top.call = "closeAll" => CloseAllOK(Top)
           /\ Top.call = "traceClose" => TraceCloseOK(Top)
<1>1. /\ Front(calls) \in Seq(Range(Front(calls))) /\ Len(Front(calls)) = Len(calls) - 1
      /\ DOMAIN calls = 1..Len(calls) /\ Len(calls) \in Nat \ {0} /\ Top = calls[Len(calls)]
  BY FrontAny DEF IInv, CallsOK, Top
<1>2. Len(calls) \in Closings
  BY <1>1 DEF Closings
<1>3. /\ ~loading /\ Len(calls) = 1
      /\ CloseAllOK(calls[1]) \/ TraceCloseOK(calls[1])
  BY <1>2 DEF ClosingOK
<1>4. Front(calls) = <<>>
  BY <1>1, <1>3, EmptySeq
<1>5. CloseAllOK(calls[1]) => calls[1].call = "closeAll"
  BY DEF CloseAllOK, CloseAllFrame
<1>6. TraceCloseOK(calls[1]) => calls[1].call = "traceClose"
  BY DEF TraceCloseOK, TraceCloseFrame
<1>7. DOMAIN calls = {1} /\ Top = calls[1]
  BY <1>1, <1>3
<1>8. QED
  BY <1>3, <1>4, <1>5, <1>6, <1>7

LEMMA OneCall ==
    ASSUME NEW e, calls' = Append(<<>>, e)
    PROVE  Len(calls') = 1 /\ calls'[1] = e
<1>1. <<>> \in Seq({e}) /\ Len(<<>>) = 0
  BY EmptySeq
<1>2. QED
  BY <1>1, AppendProperties

LEMMA NoCalls == ASSUME calls' = <<>> PROVE ClosingOK'
BY DEF ClosingOK, Closings

LEMMA HastyStays ==
    ASSUME NEW closes \in BOOLEAN, Commanded(closes), ~hasty'
    PROVE  ~hasty /\ Closings = {} /\ (closes => ~loading)
BY DEF Commanded

(* do_genericTraceClose goes on to the next window of its trace, or takes  *)
(* the trace away when there is none.                                      *)
LEMMA WalkOnSound ==
    ASSUME IInv, WindowTypes, WindowsOK, CountsOK, UNCHANGED windowVars, ~loading', opened \in Nat,
           NEW db \in OpenTraces, NEW p \in {0} \cup windows,
           {w \in windows : made[w].db = db} \subseteq ToSet(From(p)), WalkOn(db, p, <<>>)
    PROVE  WindowsOK' /\ CountsOK' /\ ClosingOK'
<1> DEFINE ws == {w \in windows : made[w].db = db}
           S == {w \in DOMAIN made : made[w].db = db}
           first == FirstOf(db, p)
<1>1. PICK T : T = DOMAIN made /\ 0 \notin T /\ T \subseteq Nat
  BY DEF WindowTypes
<1>2. mdiList \in Seq(T) /\ IsInjective(mdiList) /\ windows = ToSet(mdiList)
  BY <1>1 DEF WindowTypes, WindowsOK
<1>3. PICK n \in Nat : n = Len(mdiList) /\ DOMAIN mdiList = 1..n
  BY <1>2
<1>4. From(p) = FromIn(mdiList, p) /\ first = HeadOr0(Only(FromIn(mdiList, p), S))
  BY DEF From, FromIn, FirstOf
<1>5. windows \subseteq T
  BY <1>1 DEF WindowTypes
<1>6. UNCHANGED <<made, windows, mdiList, numPlayWindow, numWFWindow, playing>>
  BY DEF windowVars, countVars, playVars
<1>7. CASE p = 0
  <2>1. FromIn(mdiList, p) = <<>>
    BY <1>1, <1>2, <1>5, <1>7, FromNowhere
  <2>2. ToSet(<<>>) = {} /\ <<>> \in Seq({})
    BY EmptySeq DEF ToSet
  <2>3. Only(<<>>, S) = <<>>
    <3>1. PICK o \in Seq({}) : o = Only(<<>>, S)
      BY <2>2, OnlySet
    <3>2. Len(o) = 0
      <4>1. \A k \in 1..Len(o) : o[k] \in {}
        BY <3>1, ElementOfSeq
      <4>2. Len(o) \in Nat
        BY <3>1
      <4>3. QED
        BY <4>1, <4>2
    <3>3. QED
      BY <3>1, <3>2, EmptySeq
  <2>4. first = 0 /\ ws = {}
    BY <1>4, <2>1, <2>2, <2>3 DEF HeadOr0
  <2>5. Removed(db) /\ calls' = <<>>
    BY <2>4 DEF WalkOn
  <2>6. OpenTraces' = OpenTraces \ {db}
    BY <2>5, RemovedTraces DEF IInv
  <2>7. WindowsOK'
    BY <1>6, <2>4, <2>6 DEF WindowsOK
  <2>8. QED
    BY <1>6, <2>5, <2>7, NoCalls DEF CountsOK
<1>8. CASE p # 0
  <2>1. PICK i \in 1..n : p = mdiList[i]
    BY <1>2, <1>3, <1>8 DEF ToSet
  <2>2. ToSet(From(p)) = {mdiList[j] : j \in i..n}
    BY <1>2, <1>3, <1>4, <2>1, FromFacts
  <2>3. /\ first = 0 => \A j \in i..n : mdiList[j] \notin S
        /\ first # 0 => \E k \in i..n :
                            /\ first = mdiList[k] /\ mdiList[k] \in S
                            /\ \A j \in i..n : mdiList[j] \in S => k <= j
    <3> HIDE DEF S, first
    <3>1. i \in DOMAIN mdiList /\ first = HeadOr0(Only(FromIn(mdiList, mdiList[i]), S))
      BY <1>3, <1>4, <2>1
    <3>2. QED
      BY <1>1, <1>2, <1>3, <3>1, FirstFacts
  <2>4. CASE first = 0
    <3>1. ws = {}
      <4>1. \A w \in ws : w \in S /\ \E j \in i..n : w = mdiList[j]
        BY <1>1, <1>5, <2>2
      <4> HIDE DEF S, ws
      <4>2. QED
        BY <2>3, <2>4, <4>1
    <3>2. Removed(db) /\ calls' = <<>>
      BY <2>4 DEF WalkOn
    <3>3. OpenTraces' = OpenTraces \ {db}
      BY <3>2, RemovedTraces DEF IInv
    <3>4. WindowsOK'
      BY <1>6, <3>1, <3>3 DEF WindowsOK
    <3>5. QED
      BY <1>6, <3>2, <3>4, NoCalls DEF CountsOK
  <2>5. CASE first # 0
    <3>1. PICK k \in i..n : /\ first = mdiList[k] /\ mdiList[k] \in S
                            /\ \A j \in i..n : mdiList[j] \in S => k <= j
      BY <2>3, <2>5
    <3>2. PICK e : e = [call |-> "traceClose", db |-> db, at |-> first,
                        next |-> Following(first), closed |-> FALSE]
      OBVIOUS
    <3>3. calls' = Append(<<>>, e) /\ UNCHANGED <<traces, dbs>>
      BY <2>5, <3>2 DEF WalkOn
    <3>4. k \in 1..n /\ n \in Nat
      BY <2>1
    <3>5. /\ ToSet(FromIn(mdiList, first)) = {mdiList[j] : j \in k..n}
          /\ FollowingIn(mdiList, first) = IF k = n THEN 0 ELSE mdiList[k + 1]
      <4>1. k \in DOMAIN mdiList
        BY <1>3, <3>4
      <4>2. QED
        BY <1>2, <1>3, <3>1, <4>1, FromFacts
    <3>6. From(first) = FromIn(mdiList, first) /\ Following(first) = FollowingIn(mdiList, first)
      BY DEF From, FromIn, Following, FollowingIn
    <3>7. ws \subseteq ToSet(From(first))
      <4>1. ASSUME NEW w \in ws PROVE w \in {mdiList[j] : j \in k..n}
        <5>1. PICK j \in i..n : w = mdiList[j]
          BY <2>2
        <5>2. w \in S
          BY <1>1, <1>5
        <5>3. k <= j /\ j \in Int /\ k \in Int
          BY <3>1, <3>4, <5>1, <5>2
        <5>4. j \in k..n
          BY <5>1, <5>3
        <5>5. QED
          BY <5>1, <5>4
      <4>2. QED
        BY <3>5, <3>6, <4>1
    <3>8. first \in ws
      BY <1>2, <1>3, <3>1, <3>4 DEF ToSet
    <3>9. e \in TraceCloseFrame
      <4>1. Following(first) \in Nat
        <5>1. k # n => k + 1 \in 1..n
          BY <3>4
        <5>2. k # n => mdiList[k + 1] \in T
          BY <1>2, <1>3, <5>1, ElementOfSeq
        <5>3. QED
          BY <1>1, <3>5, <3>6, <5>2
      <4>2. db \in Nat /\ first \in Nat
        <5>1. db \in 1..opened
          BY DEF IInv, DBsOwned, DBsOK
        <5>2. first \in Nat
          BY <1>1, <1>5, <3>8
        <5>3. QED
          BY <5>1, <5>2
      <4>3. QED
        BY <3>2, <4>1, <4>2 DEF TraceCloseFrame
    <3>10. OpenTraces' = OpenTraces
      BY <3>3 DEF OpenTraces
    <3>11. From(e.at)' = From(e.at) /\ Following(e.at)' = Following(e.at)
      BY <1>6 DEF From, Following
    <3> HIDE DEF first
    <3>12. TraceCloseOK(e)'
      <4>1. e.db = db /\ e.at = first /\ e.next = Following(first) /\ e.closed = FALSE
        BY <3>2
      <4>2. QED
        BY <1>6, <3>7, <3>8, <3>9, <3>10, <3>11, <4>1 DEF TraceCloseOK
    <3>13. ClosingOK'
      BY <3>3, <3>12, OneCall DEF ClosingOK
    <3>14. QED
      BY <1>6, <3>10, <3>13 DEF WindowsOK, CountsOK
  <2>6. QED
    BY <2>4, <2>5
<1>9. QED
  BY <1>7, <1>8

SoundNow == WindowsOK /\ CountsOK /\ ClosingOK

LEMMA TraceCloseSound == ASSUME IInv, Types, Sound, NEW k, TraceClose(k) PROVE Sound'
<1> SUFFICES ASSUME ~hasty' PROVE SoundNow'
  BY DEF Sound, SoundNow
<1>1. ~hasty /\ Closings = {} /\ ~loading
  BY HastyStays DEF TraceClose
<1>2. WindowsOK /\ CountsOK /\ calls = <<>>
  BY <1>1, NoClosing DEF Sound
<1>3. /\ UNCHANGED windowVars /\ ~loading' /\ WindowTypes /\ opened \in Nat
      /\ k \in DOMAIN traces /\ WalkOn(traces[k].db, HeadOr0(mdiList), <<>>)
  BY <1>1, <1>2 DEF TraceClose, loadVars, Types, IInv, DBsOK
<1> DEFINE db == traces[k].db
           p == HeadOr0(mdiList)
<1>4. db \in OpenTraces
  BY <1>3 DEF OpenTraces
<1>5. p \in {0} \cup windows /\ windows \subseteq ToSet(From(p))
  <2>1. CASE mdiList = <<>>
    <3>1. windows = {} /\ p = 0
      BY <1>2, <2>1 DEF WindowsOK, ToSet, HeadOr0
    <3>2. QED
      BY <3>1
  <2>2. CASE mdiList # <<>>
    <3>1. PICK n \in Nat : n = Len(mdiList) /\ DOMAIN mdiList = 1..n /\ n # 0
      BY <1>3, <2>2, EmptySeq DEF WindowTypes
    <3>2. p = mdiList[1] /\ 1 \in 1..n
      <4>1. 1 \in 1..n
        BY <3>1
      <4>2. HeadOr0(mdiList) = mdiList[1]
        BY <2>2 DEF HeadOr0
      <4>3. QED
        BY <4>1, <4>2
    <3>3. ToSet(FromIn(mdiList, mdiList[1])) = {mdiList[j] : j \in 1..n}
      <4>1. PICK T : mdiList \in Seq(T)
        BY <1>3 DEF WindowTypes
      <4>2. IsInjective(mdiList) /\ 1 \in DOMAIN mdiList
        BY <1>2, <3>1, <3>2 DEF WindowsOK
      <4>3. ToSet(FromIn(mdiList, mdiList[1])) = {mdiList[j] : j \in 1..Len(mdiList)}
        BY <4>1, <4>2, FromFacts
      <4>4. QED
        BY <3>1, <4>3
    <3>4. From(p) = FromIn(mdiList, mdiList[1])
      BY <3>2 DEF From, FromIn
    <3>5. windows = {mdiList[j] : j \in 1..n}
      BY <1>2, <3>1 DEF WindowsOK, ToSet
    <3>6. QED
      BY <3>2, <3>1, <3>3, <3>4, <3>5
  <2>3. QED
    BY <2>1, <2>2
<1>6. {w \in windows : made[w].db = db} \subseteq ToSet(From(p))
  BY <1>5
<1> HIDE DEF db, p
<1>7. WalkOn(db, p, <<>>)
  BY <1>3 DEF db, p
<1>8. QED
  BY <1>2, <1>3, <1>4, <1>5, <1>6, <1>7, WalkOnSound DEF SoundNow

(* The handler closes the window it has come to.                           *)
LEMMA CloseNextSound ==
    ASSUME IInv, Types, SoundNow, calls # <<>>,
           \/ Top.call = "traceClose" /\ CloseNext(Top.at)
           \/ Top.call = "closeAll" /\ CloseNext(Top.left[1])
    PROVE  SoundNow'
<1>1. /\ ~loading /\ Len(calls) = 1 /\ Top = calls[1] /\ DOMAIN calls = {1}
      /\ Top.call = "closeAll" => CloseAllOK(Top)
      /\ Top.call = "traceClose" => TraceCloseOK(Top)
      /\ CallsOK /\ Top.call \notin LoaderCalls
  BY Alone DEF SoundNow, IInv, LoaderCalls
<1>2. PICK f : f = Top
  OBVIOUS
<1>3. PICK w : w = IF f.call = "traceClose" THEN f.at ELSE f.left[1]
  OBVIOUS
<1>4. /\ CloseNext(w) /\ ~f.closed /\ w \in windows /\ Closed({w})
      /\ loading' = loading /\ traces' = traces /\ Erases
  BY <1>1, <1>2, <1>3 DEF CloseNext, loadVars, traceVars, Erases
<1>5. /\ WindowsOK' /\ CountsOK' /\ made' = made /\ windows' = windows \ {w}
      /\ mdiList' = Only(mdiList, ToSet(mdiList) \ {w})
  <2>1. {w} \in SUBSET windows
    BY <1>4
  <2>2. QED
    BY <1>4, <2>1, ClosedSound DEF SoundNow, Types
<1>6. /\ DOMAIN calls' = 1..1 /\ CallsOK'
      /\ ~(f.call = "traceClose" /\ f.next = w) => calls'[1] = [f EXCEPT !.closed = TRUE]
  BY <1>1, <1>2, <1>4, ClosedCalls DEF CallsKept
<1>7. Len(calls') = 1
  BY <1>6 DEF CallsOK
<1>8. PICK e : e = [f EXCEPT !.closed = TRUE]
  OBVIOUS
<1>9. CASE f.call = "closeAll"
  <2>1. /\ f \in CloseAllFrame /\ f.left # <<>> /\ IsInjective(f.left)
        /\ windows = ToSet(f.left) /\ w = f.left[1]
    BY <1>1, <1>2, <1>3, <1>4, <1>9 DEF CloseAllOK
  <2>2. e \in CloseAllFrame /\ e.left = f.left /\ e.closed = TRUE
    BY <1>8, <2>1 DEF CloseAllFrame
  <2>3. CloseAllOK(e)'
    BY <1>5, <2>1, <2>2 DEF CloseAllOK
  <2>4. calls'[1] = e
    BY <1>6, <1>8, <1>9
  <2>5. QED
    BY <1>1, <1>4, <1>5, <1>7, <2>3, <2>4 DEF SoundNow, ClosingOK
<1>10. CASE f.call = "traceClose"
  <2> DEFINE ws == {v \in windows : made[v].db = f.db}
  <2>1. /\ f \in TraceCloseFrame /\ f.db \in OpenTraces /\ w = f.at
        /\ w \in ws /\ f.next = Following(w) /\ ws \subseteq ToSet(From(w))
    BY <1>1, <1>2, <1>3, <1>4, <1>10 DEF TraceCloseOK
  <2>2. PICK T : T = DOMAIN made /\ 0 \notin T
    BY DEF Types, WindowTypes
  <2>3. mdiList \in Seq(T) /\ IsInjective(mdiList) /\ windows = ToSet(mdiList)
    BY <2>2 DEF Types, WindowTypes, SoundNow, WindowsOK
  <2>4. PICK i \in DOMAIN mdiList : w = mdiList[i]
    BY <1>4, <2>3 DEF ToSet
  <2>5. From(w) = FromIn(mdiList, w) /\ Following(w) = FollowingIn(mdiList, w)
    BY DEF From, FromIn, Following, FollowingIn
  <2>6. f.next # w
    <3>1. FollowingIn(mdiList, mdiList[i]) = IF i = Len(mdiList) THEN 0 ELSE mdiList[i + 1]
      BY <2>3, FromFacts
    <3>2. i # Len(mdiList) => i + 1 \in DOMAIN mdiList /\ i + 1 # i
      BY <2>3
    <3>3. i # Len(mdiList) => mdiList[i + 1] # mdiList[i]
      BY <2>3, <3>2 DEF IsInjective
    <3>4. w # 0
      BY <1>4, <2>2 DEF Types, WindowTypes
    <3>5. QED
      BY <2>1, <2>4, <2>5, <3>1, <3>3, <3>4
  <2>7. calls'[1] = e
    BY <1>6, <1>8, <2>6
  <2>8. /\ f.next \in {0} \cup ToSet(mdiList')
        /\ ToSet(FromIn(mdiList, w)) \ {w} \subseteq ToSet(FromIn(mdiList', f.next))
    <3>1. PICK t : t = mdiList'
      OBVIOUS
    <3>2. t = Only(mdiList, ToSet(mdiList) \ {mdiList[i]})
      BY <1>5, <2>4, <3>1
    <3>3. f.next = FollowingIn(mdiList, mdiList[i])
      BY <2>1, <2>4, <2>5
    <3>4. /\ f.next \in {0} \cup ToSet(t)
          /\ ToSet(FromIn(mdiList, mdiList[i])) \ {mdiList[i]} \subseteq ToSet(FromIn(t, f.next))
      BY <2>2, <2>3, <3>2, <3>3, FollowingKept
    <3>5. QED
      BY <2>4, <3>1, <3>4
  <2>9. e \in TraceCloseFrame /\ e.db = f.db /\ e.next = f.next /\ e.closed = TRUE
    BY <1>8, <2>1 DEF TraceCloseFrame
  <2>10. From(e.next)' = FromIn(mdiList', e.next)
    BY DEF From, FromIn
  <2>11. windows' = ToSet(mdiList')
    BY <1>5 DEF WindowsOK
  <2>12. {v \in windows' : made'[v].db = e.db} \subseteq ToSet(From(e.next)')
    <3>1. {v \in windows' : made'[v].db = e.db} \subseteq ws \ {w}
      BY <1>5, <2>9
    <3> HIDE DEF ws
    <3>2. QED
      BY <2>1, <2>5, <2>8, <2>9, <2>10, <3>1
  <2>13. TraceCloseOK(e)'
    <3>1. OpenTraces' = OpenTraces
      BY <1>4 DEF OpenTraces
    <3>2. e.next \in {0} \cup windows' /\ e.db \in OpenTraces'
      BY <2>1, <2>8, <2>9, <2>11, <3>1
    <3>3. QED
      BY <2>9, <2>12, <3>2 DEF TraceCloseOK
  <2>14. QED
    BY <1>1, <1>4, <1>5, <1>7, <2>7, <2>13 DEF SoundNow, ClosingOK
<1>11. QED
  BY <1>2, <1>9, <1>10

LEMMA TraceCloseStepSound == ASSUME IInv, Types, Sound, TraceCloseStep PROVE Sound'
<1> SUFFICES ASSUME ~hasty' PROVE SoundNow'
  BY DEF Sound, SoundNow
<1>1. calls # <<>> /\ Top.call = "traceClose"
  BY DEF TraceCloseStep, Waiting
<1>2. SoundNow
  BY DEF TraceCloseStep, CloseNext, Sound, SoundNow
<1>3. CASE CloseNext(Top.at)
  BY <1>1, <1>2, <1>3, CloseNextSound
<1>4. CASE ~CloseNext(Top.at)
  <2>1. /\ Top.closed /\ WalkOn(Top.db, Top.next, Front(calls)) /\ Top.db \in OpenTraces
        /\ loading' = loading /\ UNCHANGED windowVars
    BY <1>4 DEF TraceCloseStep, loadVars
  <2>2. ~loading /\ Front(calls) = <<>> /\ TraceCloseOK(Top)
    BY <1>1, <1>2, Alone DEF SoundNow
  <2>3. PICK f : f = Top
    OBVIOUS
  <2>4. /\ f.next \in {0} \cup windows /\ f.db \in OpenTraces
        /\ {w \in windows : made[w].db = f.db} \subseteq ToSet(From(f.next))
    BY <2>1, <2>2, <2>3 DEF TraceCloseOK
  <2>5. WalkOn(f.db, f.next, <<>>) /\ ~loading' /\ WindowTypes /\ opened \in Nat
    BY <2>1, <2>2, <2>3 DEF Types, IInv, DBsOK
  <2>6. QED
    BY <1>2, <2>1, <2>4, <2>5, WalkOnSound DEF SoundNow
<1>5. QED
  BY <1>3, <1>4

LEMMA AllClosedSound ==
    ASSUME IInv, Types, WindowsOK, CountsOK, windows = {}, AllClosed, calls' = <<>>
    PROVE  SoundNow'
<1>1. /\ UNCHANGED <<made, windows, mdiList, playing>>
      /\ numPlayWindow' = 0 /\ numWFWindow' = 0
  BY DEF AllClosed, playVars
<1>2. \A M, kind : Count(M, {}, kind) = 0
  <2>1. \A M, kind : {w \in {} : M[w].kind = kind} = {}
    OBVIOUS
  <2>2. QED
    BY <2>1, FS_EmptySet DEF Count
<1>3. WindowsOK'
  BY <1>1 DEF WindowsOK
<1>4. CountsOK'
  BY <1>1, <1>2 DEF CountsOK
<1>5. QED
  BY <1>3, <1>4, NoCalls DEF SoundNow

(* do_closeAll takes a copy of the list of the windows of the work space.  *)
LEMMA CopyFacts ==
    ASSUME WindowTypes
    PROVE  Copy \in Seq(Nat) /\ IsInjective(Copy) /\ ToSet(Copy) = windows
<1>1. PICK m \in Nat : DOMAIN made = 1..m
  BY DEF WindowTypes
<1>2. PICK all : all = [k \in 1..m |-> k]
  OBVIOUS
<1>3. all \in Seq(Nat) /\ IsInjective(all) /\ ToSet(all) = 1..m
  BY <1>2 DEF IsInjective, ToSet
<1>4. Copy = Only(all, windows)
  BY <1>1, <1>2 DEF Copy
<1>5. ToSet(all) \cap windows = windows
  BY <1>1, <1>3 DEF WindowTypes
<1>6. QED
  BY <1>3, <1>4, <1>5, OnlySet

LEMMA CloseAllSound == ASSUME IInv, Types, Sound, CloseAll PROVE Sound'
<1> SUFFICES ASSUME ~hasty' PROVE SoundNow'
  BY DEF Sound, SoundNow
<1>1. ~hasty /\ Closings = {} /\ ~loading /\ loading' = loading
  BY HastyStays DEF CloseAll, loadVars
<1>2. WindowsOK /\ CountsOK /\ calls = <<>>
  BY <1>1, NoClosing DEF Sound
<1>3. CASE windows = {}
  <2>1. AllClosed /\ calls' = <<>>
    BY <1>2, <1>3 DEF CloseAll
  <2>2. QED
    BY <1>2, <1>3, <2>1, AllClosedSound
<1>4. CASE windows # {}
  <2>1. PICK e : e = [call |-> "closeAll", left |-> Copy, closed |-> FALSE]
    OBVIOUS
  <2>2. /\ calls' = Append(<<>>, e) /\ UNCHANGED windowVars /\ traces' = traces
    BY <1>2, <1>4, <2>1 DEF CloseAll
  <2>3. UNCHANGED windows /\ WindowsOK' /\ CountsOK'
    <3>1. OpenTraces' = OpenTraces
      BY <2>2 DEF OpenTraces
    <3>2. QED
      BY <1>2, <2>2, <3>1, SameSound DEF windowVars
  <2>4. /\ e.left \in Seq(Nat) /\ IsInjective(e.left) /\ ToSet(e.left) = windows
        /\ e.closed = FALSE /\ e \in CloseAllFrame
    BY <2>1, CopyFacts DEF Types, CloseAllFrame
  <2>5. e.left # <<>>
    BY <1>4, <2>4 DEF ToSet
  <2>6. CloseAllOK(e)'
    BY <2>3, <2>4, <2>5 DEF CloseAllOK
  <2>7. ClosingOK'
    BY <1>1, <2>2, <2>6, OneCall DEF ClosingOK
  <2>8. QED
    BY <2>3, <2>7 DEF SoundNow
<1>5. QED
  BY <1>3, <1>4

(* What follows the first element of a list in which no element is twice.  *)
LEMMA TailFacts ==
    ASSUME NEW S, NEW s \in Seq(S), s # <<>>, IsInjective(s)
    PROVE  /\ Tail(s) \in Seq(S) /\ IsInjective(Tail(s))
           /\ ToSet(Tail(s)) = ToSet(s) \ {s[1]}
           /\ Tail(s) = <<>> <=> Len(s) = 1
<1>1. PICK n \in Nat : n = Len(s) /\ DOMAIN s = 1..n
  OBVIOUS
<1>2. PICK t \in Seq(S) : t = Tail(s)
  BY HeadTailProperties
<1>3. Len(t) = n - 1 /\ \A k \in 1..Len(t) : t[k] = s[k + 1]
  BY <1>1, <1>2, HeadTailProperties
<1>4. n # 0
  BY <1>1, EmptySeq
<1>5. DOMAIN t = 1..(n - 1) /\ \A k \in 1..(n - 1) : t[k] = s[k + 1] /\ k + 1 \in 1..n
  BY <1>2, <1>3
<1>6. IsInjective(t)
  <2> SUFFICES ASSUME NEW j \in 1..(n - 1), NEW k \in 1..(n - 1), t[j] = t[k] PROVE j = k
    BY <1>5 DEF IsInjective
  <2>1. s[j + 1] = s[k + 1] /\ j + 1 \in 1..n /\ k + 1 \in 1..n
    BY <1>5
  <2>2. j + 1 = k + 1
    BY <1>1, <2>1 DEF IsInjective
  <2>3. QED
    BY <2>2
<1>7. ToSet(t) = ToSet(s) \ {s[1]}
  <2>1. ASSUME NEW k \in 1..(n - 1) PROVE t[k] \in ToSet(s) /\ t[k] # s[1]
    <3>1. k + 1 # 1 /\ 1 \in 1..n
      BY <1>4
    <3>2. QED
      BY <1>1, <1>5, <3>1 DEF IsInjective, ToSet
  <2>2. ASSUME NEW k \in 1..n, s[k] # s[1] PROVE s[k] \in ToSet(t)
    <3>1. k - 1 \in 1..(n - 1) /\ (k - 1) + 1 = k
      BY <2>2
    <3>2. t[k - 1] = s[k]
      BY <1>5, <3>1
    <3>3. QED
      BY <1>5, <3>1, <3>2 DEF ToSet
  <2>3. ToSet(t) = {t[k] : k \in 1..(n - 1)} /\ ToSet(s) = {s[k] : k \in 1..n}
    BY <1>1, <1>5 DEF ToSet
  <2>4. QED
    BY <2>1, <2>2, <2>3
<1>8. t = <<>> <=> n = 1
  <2>1. t = <<>> <=> Len(t) = 0
    BY <1>2, EmptySeq
  <2>2. Len(t) = 0 <=> n = 1
    BY <1>3
  <2>3. QED
    BY <2>1, <2>2
<1>9. QED
  BY <1>1, <1>2, <1>6, <1>7, <1>8

LEMMA CloseAllStepSound == ASSUME IInv, Types, Sound, CloseAllStep PROVE Sound'
<1> SUFFICES ASSUME ~hasty' PROVE SoundNow'
  BY DEF Sound, SoundNow
<1>1. calls # <<>> /\ Top.call = "closeAll"
  BY DEF CloseAllStep, Waiting
<1>2. SoundNow
  BY DEF CloseAllStep, CloseNext, Sound, SoundNow
<1>3. CASE CloseNext(Top.left[1])
  BY <1>1, <1>2, <1>3, CloseNextSound
<1>4. CASE ~CloseNext(Top.left[1])
  <2>1. PICK f : f = Top
    OBVIOUS
  <2>2. /\ f.closed /\ loading' = loading /\ ~loading
        /\ Front(calls) = <<>> /\ CloseAllOK(f)
    BY <1>1, <1>2, <1>4, <2>1, Alone DEF CloseAllStep, loadVars, SoundNow
  <2>3. /\ f \in CloseAllFrame /\ f.left \in Seq(Nat) /\ f.left # <<>> /\ IsInjective(f.left)
        /\ windows = ToSet(f.left) \ {f.left[1]}
    BY <2>2 DEF CloseAllOK, CloseAllFrame
  <2>4. PICK t : t = Tail(f.left)
    OBVIOUS
  <2>5. /\ t \in Seq(Nat) /\ IsInjective(t) /\ ToSet(t) = windows
        /\ t = <<>> <=> Len(f.left) = 1
    BY <2>3, <2>4, TailFacts
  <2>6. CASE Len(f.left) = 1
    <3>1. AllClosed /\ calls' = <<>>
      BY <1>4, <2>1, <2>2, <2>6 DEF CloseAllStep, Pop
    <3>2. windows = {}
      BY <2>5, <2>6 DEF ToSet
    <3>3. QED
      BY <1>2, <3>1, <3>2, AllClosedSound DEF SoundNow
  <2>7. CASE Len(f.left) # 1
    <3>1. PICK e : e = [f EXCEPT !.left = t, !.closed = FALSE]
      OBVIOUS
    <3>2. calls' = Append(<<>>, e) /\ UNCHANGED windowVars /\ traces' = traces
      BY <1>4, <2>1, <2>2, <2>4, <2>7, <3>1 DEF CloseAllStep
    <3>3. UNCHANGED windows /\ WindowsOK' /\ CountsOK'
      <4>1. OpenTraces' = OpenTraces
        BY <3>2 DEF OpenTraces
      <4>2. QED
        BY <1>2, <3>2, <4>1, SameSound DEF windowVars, SoundNow
    <3>4. e \in CloseAllFrame /\ e.left = t /\ e.closed = FALSE
      BY <2>3, <2>5, <3>1 DEF CloseAllFrame
    <3>5. CloseAllOK(e)'
      BY <2>5, <2>7, <3>3, <3>4 DEF CloseAllOK
    <3>6. ClosingOK'
      BY <2>2, <3>2, <3>5, OneCall DEF ClosingOK
    <3>7. QED
      BY <3>3, <3>6 DEF SoundNow
  <2>8. QED
    BY <2>6, <2>7
<1>5. QED
  BY <1>3, <1>4

-----------------------------------------------------------------------------
(* The other steps.                                                        *)

LEMMA SameClosing ==
    ASSUME ClosingOK, UNCHANGED <<loading, calls, made, windows, mdiList, traces>>
    PROVE  ClosingOK'
<1>1. OpenTraces' = OpenTraces /\ Closings' = Closings
  BY DEF OpenTraces, Closings
<1>2. \A f : CloseAllOK(f)' = CloseAllOK(f)
  BY DEF CloseAllOK
<1>3. \A f : TraceCloseOK(f)' = TraceCloseOK(f)
  BY <1>1 DEF TraceCloseOK, From, Following
<1>4. QED
  BY <1>1, <1>2, <1>3 DEF ClosingOK

LEMMA CommandSound ==
    ASSUME IInv, Types, Sound, NEW n,
           \/ CloseWindow(n) \/ CloseTraceWindows(n) \/ \E kind \in Kinds : NewWindow(n, kind)
    PROVE  Sound'
<1> SUFFICES ASSUME ~hasty' PROVE SoundNow'
  BY DEF Sound, SoundNow
<1>1. ~hasty /\ Closings = {} /\ ((CloseWindow(n) \/ CloseTraceWindows(n)) => ~loading)
  BY HastyStays DEF CloseWindow, CloseTraceWindows, NewWindow
<1>2. WindowsOK /\ CountsOK /\ WindowTypes /\ traces' = traces
  BY <1>1 DEF Sound, Types, CloseWindow, CloseTraceWindows, NewWindow, traceVars
<1>3. CASE CloseWindow(n)
  <2>1. calls = <<>> /\ CallsOK /\ Erases
    BY <1>1, <1>3, NoClosing DEF IInv, Erases
  <2>2. PICK c : c = MovedOff(n)
    OBVIOUS
  <2>3. DOMAIN c = {}
    BY <2>1, <2>2, MovedOffCalls
  <2>4. calls' = c
    BY <1>3, <2>1, <2>2 DEF CloseWindow
  <2>5. ClosingOK'
    BY <2>3, <2>4 DEF ClosingOK, Closings
  <2>6. {n} \in SUBSET windows /\ Closed({n})
    BY <1>3 DEF CloseWindow
  <2>7. WindowsOK' /\ CountsOK'
    BY <1>2, <2>1, <2>6, ClosedSound
  <2>8. QED
    BY <2>5, <2>7 DEF SoundNow
<1>4. CASE CloseTraceWindows(n)
  <2>1. calls' = calls /\ Erases
    BY <1>1, <1>4 DEF CloseTraceWindows, Erases
  <2>2. ClosingOK'
    BY <1>1, <2>1 DEF ClosingOK, Closings
  <2>3. PICK ws : ws = {w \in ToSet(mdiList) : made[w].db = traces[n].db}
    OBVIOUS
  <2>4. ws \in SUBSET windows /\ Closed(ws)
    BY <1>4, <2>3 DEF CloseTraceWindows
  <2>5. WindowsOK' /\ CountsOK'
    BY <1>2, <2>1, <2>4, ClosedSound
  <2>6. QED
    BY <2>2, <2>5 DEF SoundNow
<1>5. ASSUME NEW kind \in Kinds, NewWindow(n, kind) PROVE SoundNow'
  <2>1. calls' = calls /\ n \in DOMAIN traces /\ Opened(traces[n].db, <<kind>>)
    BY <1>5 DEF NewWindow
  <2>2. ClosingOK'
    BY <1>1, <2>1 DEF ClosingOK, Closings
  <2>3. OpenTraces' = OpenTraces /\ traces[n].db \in OpenTraces /\ <<kind>> \in Seq(Kinds)
    BY <1>2, <2>1 DEF OpenTraces
  <2>4. WindowsOK' /\ CountsOK'
    BY <1>2, <2>1, <2>3, OpenedSound
  <2>5. QED
    BY <2>2, <2>4 DEF SoundNow
<1>6. QED
  BY <1>3, <1>4, <1>5

(* The loader goes on: no handler is closing windows meanwhile, and none   *)
(* is when the next trace is opened.                                       *)
LEMMA LoaderAlone ==
    ASSUME IInv, Sound, ~hasty, calls # <<>>, Top.call \in LoaderCalls
    PROVE  \A k \in DOMAIN Front(calls) : Front(calls)[k].call \notin {"traceClose", "closeAll"}
<1>1. PICK f : f = Front(calls)
  OBVIOUS
<1>2. /\ DOMAIN f = 1..(Len(calls) - 1)
      /\ Len(calls) \in Nat \ {0} /\ DOMAIN calls = 1..Len(calls)
      /\ \A k \in 1..(Len(calls) - 1) : f[k] = calls[k]
      /\ Top = calls[Len(calls)]
  BY <1>1, FrontAny DEF IInv, CallsOK, Top
<1>3. Len(calls) \in Loaders
  BY <1>2 DEF Loaders, LoaderCalls
<1>4. Closings = {}
  BY <1>3 DEF IInv, LoaderOK, Sound, ClosingOK
<1>5. QED
  BY <1>1, <1>2, <1>4 DEF Closings

LEMMA OpeningSound ==
    ASSUME NEW below, below \in Seq(Range(below)), OpeningOver(below),
           \A k \in DOMAIN below : below[k].call \notin {"traceClose", "closeAll"}
    PROVE  ClosingOK'
<1>1. CASE calls' = below
  BY <1>1 DEF ClosingOK, Closings
<1>2. ASSUME NEW db, calls' = Append(below, [call |-> "open", db |-> db]) PROVE ClosingOK'
  <2>1. PICK e : e = [call |-> "open", db |-> db]
    OBVIOUS
  <2>2. calls' = Append(below, e) /\ e.call \notin {"traceClose", "closeAll"}
    BY <1>2, <2>1
  <2>3. /\ DOMAIN calls' = 1..(Len(below) + 1)
        /\ Len(below) \in Nat /\ DOMAIN below = 1..Len(below)
        /\ \A k \in 1..Len(below) : calls'[k] = below[k]
        /\ calls'[Len(below) + 1] = e
    BY <2>2, AppendAny
  <2>4. Closings' = {}
    BY <2>2, <2>3 DEF Closings
  <2>5. QED
    BY <2>4 DEF ClosingOK
<1>3. QED
  BY <1>1, <1>2 DEF OpeningOver

LEMMA LoaderSound ==
    ASSUME IInv, Types, Sound,
           \/ Open \/ ADFParsed \/ ReadOn \/ ReadEnd \/ StopButton \/ AbortButton
           \/ LoadFinish \/ LoadCancel
    PROVE  Sound'
<1> SUFFICES ASSUME ~hasty' PROVE SoundNow'
  BY DEF Sound, SoundNow
<1>1. ~hasty /\ (Open => Closings = {})
  <2>1. Open \/ LoadFinish => Commanded(FALSE)
    BY DEF Open, LoadFinish
  <2>2. Open \/ LoadFinish => ~hasty /\ Closings = {}
    BY <2>1, HastyStays
  <2>3. ~Open /\ ~LoadFinish => hasty' = hasty
    BY DEF ADFParsed, ReadOn, ReadEnd, StopButton, AbortButton, Interrupted, LoadCancel
  <2>4. QED
    BY <2>2, <2>3
<1>2. WindowsOK /\ CountsOK /\ ClosingOK
  BY <1>1 DEF Sound
<1>3. traces' = traces => OpenTraces' = OpenTraces
  BY DEF OpenTraces
<1>4. CASE Open
  <2>1. UNCHANGED <<traces, windowVars>> /\ OpeningOver(calls)
    BY <1>4, OpenNextCalls DEF Open
  <2>2. ClosingOK'
    BY <1>1, <1>4, <2>1, OpeningSound DEF Closings, IInv, CallsOK
  <2>3. QED
    BY <1>2, <1>3, <2>1, <2>2, SameSound DEF SoundNow
<1>5. CASE ReadOn
  <2>1. UNCHANGED <<loading, traces, windowVars, calls>>
    BY <1>5 DEF ReadOn, traceVars
  <2>2. ClosingOK'
    BY <1>2, <2>1, SameClosing DEF windowVars
  <2>3. QED
    BY <1>2, <1>3, <2>1, <2>2, SameSound DEF SoundNow
<1>6. CASE ReadEnd \/ StopButton \/ AbortButton
  <2>1. PICK call \in LoaderCalls : Interrupted(call)
    BY <1>6 DEF ReadEnd, StopButton, AbortButton, LoaderCalls
  <2>2. PICK e : e = [call |-> call, db |-> dreamsdb]
    OBVIOUS
  <2>3. calls' = Append(calls, e) /\ UNCHANGED <<traces, windowVars>>
    BY <2>1, <2>2 DEF Interrupted, traceVars
  <2>4. loading
    BY <1>6 DEF ReadEnd, StopButton, AbortButton, IInv, LoaderOK
  <2>5. Closings = {}
    BY <1>2, <2>4 DEF ClosingOK
  <2>6. /\ DOMAIN calls' = 1..(Len(calls) + 1)
        /\ Len(calls) \in Nat /\ DOMAIN calls = 1..Len(calls)
        /\ \A k \in 1..Len(calls) : calls'[k] = calls[k]
        /\ calls'[Len(calls) + 1] = e
    BY <2>3, AppendAny DEF IInv, CallsOK
  <2>7. e.call \in LoaderCalls
    BY <2>2
  <2>8. Closings' = {}
    BY <2>5, <2>6, <2>7 DEF Closings, LoaderCalls
  <2>9. QED
    BY <1>2, <1>3, <2>3, <2>8, SameSound DEF SoundNow, ClosingOK
<1>7. CASE LoadCancel \/ ADFParsed
  <2>1. /\ calls # <<>> /\ Top.call \in LoaderCalls /\ calls' = Front(calls)
        /\ UNCHANGED <<traces, windowVars>>
    BY <1>7 DEF LoadCancel, ADFParsed, Waiting, Pop, LoaderCalls
  <2>2. ClosingOK'
    BY <1>1, <2>1, LoaderAlone DEF ClosingOK, Closings
  <2>3. QED
    BY <1>2, <1>3, <2>1, <2>2, SameSound DEF SoundNow
<1>8. CASE LoadFinish
  <2>1. calls # <<>> /\ Top.call \in LoaderCalls /\ OpeningOver(Front(calls))
    <3>1. calls' = Front(calls) \/ \E left : OpenNext(left, Front(calls))
      BY <1>8 DEF LoadFinish, Pop
    <3>2. QED
      BY <1>8, <3>1, OpenNextCalls DEF OpeningOver, LoadFinish, Waiting, LoaderCalls
  <2>2. ClosingOK'
    <3>1. PICK f : f = Front(calls)
      OBVIOUS
    <3>2. /\ f \in Seq(Range(f)) /\ OpeningOver(f)
          /\ \A k \in DOMAIN f : f[k].call \notin {"traceClose", "closeAll"}
      BY <1>1, <2>1, <3>1, LoaderAlone, FrontAny DEF IInv, CallsOK
    <3>3. QED
      BY <3>2, OpeningSound
  <2>3. CASE UNCHANGED <<traces, windowVars>>
    BY <1>2, <1>3, <2>2, <2>3, SameSound DEF SoundNow
  <2>4. ASSUME NEW ks \in Layouts \ {<<>>}, Opened(dreamsdb, ks),
               traces' = Append(traces, [db |-> dreamsdb, id |-> Len(traces)])
        PROVE  SoundNow'
    <3>1. dreamsdb # NULL
      BY <2>1, LoaderGoesOn
    <3>2. OpenTraces' = dbs
      BY <2>4, <3>1, JoinedTraces
    <3>3. dreamsdb \in OpenTraces' /\ OpenTraces \subseteq OpenTraces'
      BY <3>1, <3>2 DEF IInv, DBsOwned
    <3>4. ks \in Seq(Kinds)
      BY KindsAssumption
    <3>5. WindowsOK' /\ CountsOK'
      BY <1>2, <2>4, <3>3, <3>4, OpenedSound DEF Types
    <3>6. QED
      BY <2>2, <3>5 DEF SoundNow
  <2>5. QED
    BY <1>8, <2>3, <2>4 DEF LoadFinish
<1>9. QED
  BY <1>4, <1>5, <1>6, <1>7, <1>8

(* The animation is started, when there is a window to play, and stopped.  *)
LEMMA PlaySound ==
    ASSUME IInv, Types, Sound, NEW w, Play(w) \/ StopPlay \/ UNCHANGED vars
    PROVE  Sound'
<1> SUFFICES ASSUME ~hasty' PROVE SoundNow'
  BY DEF Sound, SoundNow
<1>1. /\ UNCHANGED <<loading, traces, made, windows, mdiList, calls, hasty>>
      /\ UNCHANGED <<numPlayWindow, numWFWindow>>
  BY DEF Play, StopPlay, vars, loadVars, traceVars, windowVars, countVars
<1>2. WindowsOK /\ CountsOK /\ ClosingOK
  BY <1>1 DEF Sound
<1>3. ClosingOK'
  BY <1>1, <1>2, SameClosing
<1>4. WindowsOK'
  BY <1>1, <1>2 DEF WindowsOK, OpenTraces
<1>5. playing' => playing \/ numPlayWindow > 0
  BY DEF Play, StopPlay, vars, windowVars, playVars
<1>6. CountsOK'
  BY <1>1, <1>2, <1>5 DEF CountsOK, Count
<1>7. QED
  BY <1>3, <1>4, <1>6 DEF SoundNow

LEMMA InitSound == Init => Sound
<1> SUFFICES ASSUME Init PROVE Sound
  OBVIOUS
<1>1. Closings = {} /\ windows = {} /\ mdiList = <<>>
  BY DEF Init, Closings
<1>2. ToSet(<<>>) = {} /\ IsInjective(<<>>)
  BY DEF ToSet, IsInjective
<1>3. WindowsOK
  BY <1>1, <1>2 DEF WindowsOK
<1>4. \A kind : Count(made, windows, kind) = 0
  <2>1. \A kind : {w \in windows : made[w].kind = kind} = {}
    BY <1>1
  <2>2. QED
    BY <2>1, FS_EmptySet DEF Count
<1>5. CountsOK
  BY <1>4 DEF CountsOK, Init
<1>6. QED
  BY <1>1, <1>3, <1>5 DEF Sound, ClosingOK

LEMMA NextSound == ASSUME IInv, Types, Sound, [Next]_vars PROVE Sound'
<1>1. CASE \/ Open \/ ADFParsed \/ ReadOn \/ ReadEnd \/ StopButton \/ AbortButton
           \/ LoadFinish \/ LoadCancel
  BY <1>1, LoaderSound
<1>2. ASSUME NEW k \in 1 .. MaxTraces,
             TraceClose(k) \/ CloseTraceWindows(k) \/ \E kind \in Kinds : NewWindow(k, kind)
      PROVE  Sound'
  BY <1>2, TraceCloseSound, CommandSound
<1>3. ASSUME NEW w \in 1 .. MaxWindows, CloseWindow(w) \/ Play(w) PROVE Sound'
  BY <1>3, CommandSound, PlaySound
<1>4. CASE StopPlay \/ UNCHANGED vars
  BY <1>4, PlaySound
<1>5. CASE CloseAll
  BY <1>5, CloseAllSound
<1>6. CASE TraceCloseStep
  BY <1>6, TraceCloseStepSound
<1>7. CASE CloseAllStep
  BY <1>7, CloseAllStepSound
<1>8. QED
  BY <1>1, <1>2, <1>3, <1>4, <1>5, <1>6, <1>7 DEF Next

LEMMA SpecSound == Spec => [](IInv /\ Types /\ Sound)
<1>1. Init => Sound
  BY InitSound
<1>2. IInv /\ Types /\ Sound /\ [Next]_vars => Sound'
  BY NextSound
<1>3. Init => Types
  BY InitTypes
<1>4. IInv /\ Types /\ [Next]_vars => Types'
  BY NextTypes
<1>5. QED
  BY <1>1, <1>2, <1>3, <1>4, SpecIInv, PTL DEF Spec

(* Unless the user is hasty, no handler goes on with a window or a trace   *)
(* that was deleted while it waited, however the handlers, the loader and  *)
(* the user come one after the other (do_genericTraceClose, do_closeAll,   *)
(* mdiCloseEvent, and the iterators of QGList).                            *)
THEOREM SpecNothingDangles == Spec => []NothingDangles
<1>1. IInv /\ Types /\ Sound => NothingDangles
  <2> SUFFICES ASSUME IInv, Types, Sound, ~hasty
               PROVE  /\ windows = ToSet(mdiList) /\ IsInjective(mdiList)
                      /\ \A w \in windows : made[w].db \in OpenTraces
                      /\ \A k \in Closings :
                          LET f == calls[k]
                          IN  IF f.call = "closeAll"
                              THEN ToSet(f.left) \ windows
                                      \subseteq (IF f.closed THEN {f.left[1]} ELSE {})
                              ELSE /\ f.db \in OpenTraces /\ f.next \in {0} \cup windows
                                   /\ ~f.closed => f.at \in windows
    BY DEF NothingDangles
  <2>1. WindowsOK /\ ClosingOK
    BY DEF Sound
  <2>2. ASSUME NEW k \in Closings, NEW f, f = calls[k]
        PROVE  IF f.call = "closeAll"
               THEN ToSet(f.left) \ windows \subseteq (IF f.closed THEN {f.left[1]} ELSE {})
               ELSE /\ f.db \in OpenTraces /\ f.next \in {0} \cup windows
                    /\ ~f.closed => f.at \in windows
    <3>1. DOMAIN calls = 1..Len(calls)
      BY DEF IInv, CallsOK
    <3>2. k = 1 /\ (CloseAllOK(f) \/ TraceCloseOK(f))
      BY <2>1, <2>2, <3>1 DEF ClosingOK, Closings
    <3>3. CASE CloseAllOK(f)
      BY <3>3 DEF CloseAllOK, CloseAllFrame
    <3>4. CASE TraceCloseOK(f)
      <4>1. f.call # "closeAll" /\ f.db \in OpenTraces
        BY <3>4 DEF TraceCloseOK, TraceCloseFrame
      <4>2. CASE f.closed
        BY <3>4, <4>1, <4>2 DEF TraceCloseOK
      <4>3. CASE ~f.closed
        <5>1. f.at \in windows /\ f.next = Following(f.at)
          BY <3>4, <4>3 DEF TraceCloseOK
        <5>2. f.next \in {0} \cup windows
          <6>1. PICK T : mdiList \in Seq(T)
            BY DEF Types, WindowTypes
          <6>2. PICK i \in DOMAIN mdiList : f.at = mdiList[i]
            BY <2>1, <5>1 DEF WindowsOK, ToSet
          <6>3. Following(f.at) = IF i = Len(mdiList) THEN 0 ELSE mdiList[i + 1]
            <7>1. Following(f.at) = FollowingIn(mdiList, mdiList[i])
              BY <6>2 DEF Following, FollowingIn, From, FromIn
            <7>2. IsInjective(mdiList)
              BY <2>1 DEF WindowsOK
            <7>3. QED
              BY <6>1, <6>2, <7>1, <7>2, FromFacts
          <6>4. i # Len(mdiList) => i + 1 \in DOMAIN mdiList
            BY <6>1
          <6>5. QED
            BY <2>1, <5>1, <6>3, <6>4 DEF WindowsOK, ToSet
        <5>3. QED
          BY <4>1, <4>3, <5>1, <5>2
      <4>4. QED
        BY <4>2, <4>3
    <3>5. QED
      BY <3>2, <3>3, <3>4
  <2>3. QED
    BY <2>1, <2>2 DEF WindowsOK
<1>2. QED
  BY <1>1, SpecSound, PTL

(* Unless the user is hasty, the counts of the windows that play and of the*)
(* waterfalls are those of the windows there are, and the animation does   *)
(* not run without a window to play (newFloorplanDView, mdiCloseEvent,     *)
(* Dreams::reset, do_playFloorplan).                                       *)
THEOREM SpecCountsRight == Spec => []CountsRight
<1>1. Sound => CountsRight
  BY DEF Sound, CountsOK, CountsRight, Count
<1>2. QED
  BY <1>1, SpecSound, PTL
=============================================================================
