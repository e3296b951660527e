-------------------------- MODULE ClockDomainProofs --------------------------
(* Proofs about ClockDomainMgr, for any frequencies, skews, number of      *)
(* clocks and of internal clocks: the clocks that share, the order of the  *)
(* cycles of different clocks, sums of cycles, and windows that follow.    *)
EXTENDS ClockDomainMgr, SequenceTheorems, WellFoundedInduction, TLAPS

-----------------------------------------------------------------------------
(* The inductive invariant.                                                *)

Fields == {"freq", "divisions", "skew", "internal", "ratio", "lcmSkew"}

(* Both tables are sequences, that of the clocks of records.               *)
TablesOK ==
    /\ \A k \in DOMAIN clocks : DOMAIN clocks[k] = Fields
    /\ clocks \in Seq(Range(clocks)) /\ internals \in Seq(Range(internals))
    /\ Len(internals) <= MAX_CLOCK_ID + 1

(* An internal clock stands for its clocks, and no two for the same.       *)
InternalsOK ==
    /\ \A k \in DOMAIN clocks :
          /\ clocks[k].internal \in DOMAIN internals
          /\ internals[clocks[k].internal].freq = clocks[k].freq
          /\ internals[clocks[k].internal].skew = clocks[k].skew
    /\ \A i, j \in DOMAIN internals :
          internals[i].freq = internals[j].freq /\ internals[i].skew = internals[j].skew => i = j

(* int_to_ext is a clock of the internal clock.                            *)
ExternalOK ==
    \A i \in DOMAIN internals :
        internals[i].ext + 1 \in DOMAIN clocks /\ clocks[internals[i].ext + 1].internal = i

(* What is computed for a clock depends on its frequency and skew only.    *)
ComputedOK ==
    \A j, k \in DOMAIN clocks :
        clocks[j].freq = clocks[k].freq /\ clocks[j].skew = clocks[k].skew =>
            clocks[j].ratio = clocks[k].ratio /\ clocks[j].lcmSkew = clocks[k].lcmSkew

(* Before the activity starts nothing has been computed.                   *)
NotComputed ==
    state = "GRAPH" => \A k \in DOMAIN clocks : clocks[k].ratio = 0 /\ clocks[k].lcmSkew = 0

IInv == TablesOK /\ InternalsOK /\ ExternalOK /\ ComputedOK /\ NotComputed

-----------------------------------------------------------------------------
(* A table of anything is a sequence of what it holds, and stays one.      *)
LEMMA AppendAny ==
    ASSUME NEW s, s \in Seq(Range(s)), NEW e
    PROVE  /\ Append(s, e) \in Seq(Range(Append(s, e)))
           /\ DOMAIN Append(s, e) = 1..(Len(s) + 1) /\ Len(Append(s, e)) = Len(s) + 1
           /\ DOMAIN s = 1..Len(s) /\ Len(s) \in Nat
           /\ \A k \in 1..Len(s) : Append(s, e)[k] = s[k]
           /\ Append(s, e)[Len(s) + 1] = e
<1> DEFINE S == Range(s) \cup {e}
           t == Append(s, e)
<1>1. s \in Seq(S)
  BY DEF Range
<1>2. t \in Seq(S) /\ Len(t) = Len(s) + 1 /\ DOMAIN t = 1..(Len(s) + 1) /\ Len(s) \in Nat /\ DOMAIN s = 1..Len(s)
  BY <1>1
<1>3. (\A k \in 1..Len(s) : t[k] = s[k]) /\ t[Len(s) + 1] = e
  BY <1>1
<1>4. t \in Seq(Range(t))
  BY <1>2, <1>3 DEF Range
<1> QED
  BY <1>2, <1>3, <1>4

-----------------------------------------------------------------------------
LEMMA InitIInv == Init => IInv
BY ClockSizesAssumption DEF Init, IInv, TablesOK, InternalsOK, ExternalOK, ComputedOK, NotComputed, Range

(* A clock that is accepted enters both tables as it should.               *)
LEMMA EnteredIInv ==
    ASSUME IInv, state = "GRAPH", state' = "GRAPH",
           NEW freq \in Freqs, NEW divisions \in 0..2, NEW skew \in Skews,
           \/ \E k \in DOMAIN internals : Matches(internals[k], freq, skew)
           \/ Len(internals) < MAX_CLOCK_ID + 1,
           Entered(clocks, internals, freq, divisions, skew)
    PROVE  IInv'
<1> DEFINE Known == {k \in DOMAIN internals : Matches(internals[k], freq, skew)}
           internal == IF Known = {} THEN Len(internals) + 1 ELSE CHOOSE k \in Known : TRUE
           c == [freq |-> freq, divisions |-> divisions, skew |-> skew,
                 internal |-> internal, ratio |-> 0, lcmSkew |-> 0]
           i == [freq |-> freq, skew |-> skew, ext |-> Len(clocks)]
<1>1. clocks' = Append(clocks, c)
  BY DEF Entered
<1>2. internals' = IF Known = {} THEN Append(internals, i) ELSE internals
  BY DEF Entered
<1> HIDE DEF c, i, internal, Known
<1>3. /\ clocks' \in Seq(Range(clocks')) /\ DOMAIN clocks' = 1..(Len(clocks) + 1)
      /\ Len(clocks) \in Nat /\ DOMAIN clocks = 1..Len(clocks)
      /\ \A k \in 1..Len(clocks) : clocks'[k] = clocks[k]
      /\ clocks'[Len(clocks) + 1] = c
  BY <1>1, AppendAny DEF IInv, TablesOK
<1>4. /\ c.freq = freq /\ c.skew = skew /\ c.internal = internal
      /\ c.ratio = 0 /\ c.lcmSkew = 0 /\ DOMAIN c = Fields
  BY DEF c, Fields
<1>5. NotComputed' /\ ComputedOK'
  BY <1>3, <1>4 DEF IInv, NotComputed, ComputedOK
<1>6. CASE Known = {}
  <2>1. /\ internals' \in Seq(Range(internals')) /\ DOMAIN internals' = 1..(Len(internals) + 1)
        /\ Len(internals') = Len(internals) + 1
        /\ Len(internals) \in Nat /\ DOMAIN internals = 1..Len(internals)
        /\ \A k \in 1..Len(internals) : internals'[k] = internals[k]
        /\ internals'[Len(internals) + 1] = i
    BY <1>2, <1>6, AppendAny DEF IInv, TablesOK
  <2>2. internal = Len(internals) + 1
    BY <1>6 DEF internal
  <2>3. i.freq = freq /\ i.skew = skew /\ i.ext = Len(clocks)
    BY DEF i
  <2>4. \A k \in DOMAIN internals : ~(internals[k].freq = freq /\ internals[k].skew = skew)
    BY <1>6 DEF Known, Matches
  <2>5. Len(internals) < MAX_CLOCK_ID + 1
    BY <1>6 DEF Known
  <2>6. TablesOK'
    <3>1. MAX_CLOCK_ID \in Nat
      BY ClockSizesAssumption
    <3>2. \A k \in DOMAIN clocks' : DOMAIN clocks'[k] = Fields
      BY <1>3, <1>4 DEF IInv, TablesOK
    <3>3. QED
      BY <1>3, <2>1, <2>5, <3>1, <3>2 DEF TablesOK
  <2>7. InternalsOK'
    <3>1. /\ DOMAIN clocks' = DOMAIN clocks \cup {Len(clocks) + 1}
          /\ DOMAIN internals' = DOMAIN internals \cup {internal}
      BY <1>3, <2>1, <2>2
    <3>2. \A k \in DOMAIN clocks :
             /\ clocks'[k] = clocks[k]
             /\ clocks[k].internal \in DOMAIN internals
             /\ clocks[k].internal # internal
             /\ internals'[clocks[k].internal] = internals[clocks[k].internal]
      BY <1>3, <2>1, <2>2 DEF IInv, InternalsOK
    <3>3. \A k \in DOMAIN internals : internals'[k] = internals[k]
      BY <2>1
    <3>4. ASSUME NEW k \in DOMAIN clocks'
          PROVE  /\ clocks'[k].internal \in DOMAIN internals'
                 /\ internals'[clocks'[k].internal].freq = clocks'[k].freq
                 /\ internals'[clocks'[k].internal].skew = clocks'[k].skew
      <4>1. CASE k = Len(clocks) + 1
        BY <1>3, <1>4, <2>1, <2>2, <2>3, <3>1, <4>1
      <4>2. CASE k \in DOMAIN clocks
        BY <3>1, <3>2, <4>2 DEF IInv, InternalsOK
      <4>3. QED
        BY <3>1, <3>4, <4>1, <4>2
    <3>5. \A a, b \in DOMAIN internals' :
             internals'[a].freq = internals'[b].freq /\ internals'[a].skew = internals'[b].skew
                 => a = b
      BY <2>1, <2>2, <2>3, <2>4, <3>1, <3>3 DEF IInv, InternalsOK
    <3>6. QED
      BY <3>4, <3>5 DEF InternalsOK
  <2>8. ExternalOK'
    BY <1>3, <1>4, <2>1, <2>2, <2>3 DEF IInv, ExternalOK
  <2>9. QED
    BY <1>5, <2>6, <2>7, <2>8 DEF IInv
<1>7. CASE Known # {}
  <2>1. internals' = internals
    BY <1>2, <1>7
  <2>2. internal \in Known
    BY <1>7 DEF internal
  <2>3. /\ internal \in DOMAIN internals
        /\ internals[internal].freq = freq /\ internals[internal].skew = skew
    BY <2>2 DEF Known, Matches
  <2>4. TablesOK'
    BY <1>3, <1>4, <2>1 DEF IInv, TablesOK
  <2>5. InternalsOK'
    BY <1>3, <1>4, <2>1, <2>3 DEF IInv, InternalsOK
  <2>6. ExternalOK'
    BY <1>3, <1>4, <2>1 DEF IInv, ExternalOK
  <2>7. QED
    BY <1>5, <2>4, <2>5, <2>6 DEF IInv
<1>8. QED
  BY <1>6, <1>7

(* The ratios and the skews leave the rest of the clocks as it is, and are *)
(* the same for clocks of one frequency and skew.                          *)
LEMMA ComputedClocks ==
    ASSUME NEW cs, cs \in Seq(Range(cs)), \A k \in DOMAIN cs : DOMAIN cs[k] = Fields,
           NEW ds, ds = Computed(cs)
    PROVE  /\ ds \in Seq(Range(ds)) /\ DOMAIN ds = DOMAIN cs
           /\ \A k \in DOMAIN cs :
                 /\ DOMAIN ds[k] = Fields /\ ds[k].internal = cs[k].internal
                 /\ ds[k].freq = cs[k].freq /\ ds[k].skew = cs[k].skew
                 /\ ds[k].divisions = cs[k].divisions
                 /\ ds[k].ratio = lcm_ratio(Lcm(cs), cs[k].freq)
                 /\ ds[k].lcmSkew = lcm_skew(cs[k].skew, ds[k].ratio)
           /\ \A j, k \in DOMAIN cs :
                 cs[j].freq = cs[k].freq /\ cs[j].skew = cs[k].skew =>
                     ds[j].ratio = ds[k].ratio /\ ds[j].lcmSkew = ds[k].lcmSkew
<1> DEFINE Ratio(k) == lcm_ratio(Lcm(cs), cs[k].freq)
<1>1. DOMAIN ds = DOMAIN cs /\ \A k \in DOMAIN cs :
          ds[k] = [cs[k] EXCEPT !.ratio = Ratio(k), !.lcmSkew = lcm_skew(cs[k].skew, Ratio(k))]
  BY Zenon DEF Computed
<1>2. ASSUME NEW k \in DOMAIN cs
      PROVE  /\ DOMAIN ds[k] = Fields /\ ds[k].internal = cs[k].internal
             /\ ds[k].freq = cs[k].freq /\ ds[k].skew = cs[k].skew
             /\ ds[k].divisions = cs[k].divisions
             /\ ds[k].ratio = Ratio(k) /\ ds[k].lcmSkew = lcm_skew(cs[k].skew, Ratio(k))
  <2> DEFINE r == Ratio(k)
             l == lcm_skew(cs[k].skew, Ratio(k))
  <2>1. ds[k] = [cs[k] EXCEPT !.ratio = r, !.lcmSkew = l]
    BY <1>1
  <2> HIDE DEF r, l
  <2>2. /\ DOMAIN ds[k] = Fields /\ ds[k].internal = cs[k].internal
        /\ ds[k].freq = cs[k].freq /\ ds[k].skew = cs[k].skew
        /\ ds[k].divisions = cs[k].divisions
        /\ ds[k].ratio = r /\ ds[k].lcmSkew = l
    BY <2>1 DEF Fields
  <2>3. QED
    BY <2>2 DEF r, l
<1>3. ds \in Seq(Range(ds))
  <2>1. ds = [k \in DOMAIN cs |-> ds[k]]
    BY <1>1 DEF Computed
  <2>2. DOMAIN cs = 1..Len(cs) /\ Len(cs) \in Nat
    OBVIOUS
  <2>3. \A k \in 1..Len(cs) : ds[k] \in Range(ds)
    BY <1>1, <2>2 DEF Range
  <2>4. QED
    BY <2>1, <2>2, <2>3
<1>4. ASSUME NEW j \in DOMAIN cs, NEW k \in DOMAIN cs,
             cs[j].freq = cs[k].freq, cs[j].skew = cs[k].skew
      PROVE  ds[j].ratio = ds[k].ratio /\ ds[j].lcmSkew = ds[k].lcmSkew
  <2>1. Ratio(j) = Ratio(k)
    BY <1>4
  <2>2. QED
    BY <1>2, <1>4, <2>1
<1>5. QED
  BY <1>1, <1>2, <1>3, <1>4

LEMMA StartIInv == ASSUME IInv, StartActivity PROVE IInv'
<1>1. CASE clocks = <<>>
  <2> DEFINE d == <<DefaultClock>>
  <2>1. clocks' = Computed(d) /\ internals' = <<[freq |-> 100, skew |-> 0, ext |-> 0]>>
    BY <1>1 DEF StartActivity
  <2>2. d \in Seq(Range(d)) /\ DOMAIN d = 1..1 /\ d[1] = DefaultClock
    BY DEF Range
  <2>3. /\ DOMAIN DefaultClock = Fields /\ DefaultClock.internal = 1
        /\ DefaultClock.freq = 100 /\ DefaultClock.skew = 0
    BY DEF DefaultClock, Fields
  <2> HIDE DEF d
  <2>4. /\ clocks' \in Seq(Range(clocks')) /\ DOMAIN clocks' = 1..1
        /\ DOMAIN clocks'[1] = Fields /\ clocks'[1].internal = 1
        /\ clocks'[1].freq = 100 /\ clocks'[1].skew = 0
    BY <2>1, <2>2, <2>3, ComputedClocks
  <2>5. /\ internals' \in Seq(Range(internals')) /\ DOMAIN internals' = 1..1
        /\ Len(internals') = 1 /\ internals'[1].ext = 0
        /\ internals'[1].freq = 100 /\ internals'[1].skew = 0
    BY <2>1 DEF Range
  <2>6. MAX_CLOCK_ID \in Nat
    BY ClockSizesAssumption
  <2>7. state' # "GRAPH"
    BY DEF StartActivity
  <2>8. TablesOK'
    BY <2>4, <2>5, <2>6 DEF TablesOK
  <2>9. InternalsOK' /\ ExternalOK' /\ ComputedOK' /\ NotComputed'
    BY <2>4, <2>5, <2>7 DEF InternalsOK, ExternalOK, ComputedOK, NotComputed
  <2>10. QED
    BY <2>8, <2>9 DEF IInv
<1>2. CASE clocks # <<>>
  <2>1. clocks' = Computed(clocks) /\ internals' = internals /\ state' # "GRAPH"
    BY <1>2 DEF StartActivity
  <2>2. /\ clocks' \in Seq(Range(clocks')) /\ DOMAIN clocks' = DOMAIN clocks
        /\ \A k \in DOMAIN clocks :
              /\ DOMAIN clocks'[k] = Fields /\ clocks'[k].internal = clocks[k].internal
              /\ clocks'[k].freq = clocks[k].freq /\ clocks'[k].skew = clocks[k].skew
        /\ \A j, k \in DOMAIN clocks :
              clocks[j].freq = clocks[k].freq /\ clocks[j].skew = clocks[k].skew =>
                  clocks'[j].ratio = clocks'[k].ratio /\ clocks'[j].lcmSkew = clocks'[k].lcmSkew
    BY <2>1, ComputedClocks DEF IInv, TablesOK
  <2>3. TablesOK'
    BY <2>1, <2>2 DEF IInv, TablesOK
  <2>4. InternalsOK'
    BY <2>1, <2>2 DEF IInv, InternalsOK
  <2>5. ExternalOK'
    BY <2>1, <2>2 DEF IInv, ExternalOK
  <2>6. ComputedOK' /\ NotComputed'
    BY <2>1, <2>2 DEF ComputedOK, NotComputed
  <2>7. QED
    BY <2>3, <2>4, <2>5, <2>6 DEF IInv
<1>3. QED
  BY <1>1, <1>2

LEMMA UnchangedIInv == ASSUME IInv, UNCHANGED <<clocks, internals>>, state' # "GRAPH" \/ state' = state PROVE IInv'
BY DEF IInv, TablesOK, InternalsOK, ExternalOK, ComputedOK, NotComputed

LEMMA NextIInv == IInv /\ [Next]_vars => IInv'
<1> SUFFICES ASSUME IInv, [Next]_vars PROVE IInv'
  OBVIOUS
<1>1. ASSUME NEW id \in 0..MaxClocks, NEW freq \in Freqs, NEW divisions \in 0..2, NEW skew \in Skews,
             NewClock(id, freq, divisions, skew)
      PROVE  IInv'
  <2>1. CASE state = "GRAPH" /\ Accepted(id, freq, divisions, skew)
    BY <1>1, <2>1, EnteredIInv DEF NewClock, Accepted
  <2>2. CASE ~(state = "GRAPH" /\ Accepted(id, freq, divisions, skew))
    BY <1>1, <2>2, UnchangedIInv DEF NewClock
  <2>3. QED
    BY <2>1, <2>2
<1>2. CASE StartActivity
  BY <1>2, StartIInv
<1>3. CASE Drag
  <2>1. UNCHANGED clockVars
    BY <1>3 DEF Drag, setFrame
  <2>2. QED
    BY <2>1, UnchangedIInv DEF clockVars
<1>4. CASE UNCHANGED vars
  BY <1>4, UnchangedIInv DEF vars, clockVars
<1>5. QED
  BY <1>1, <1>2, <1>3, <1>4 DEF Next

LEMMA SpecIInv == Spec => []IInv
BY InitIInv, NextIInv, PTL DEF Spec

LEMMA IInvShared == IInv => SharedClocks
<1> SUFFICES ASSUME IInv PROVE SharedClocks
  OBVIOUS
<1>1. \A j, k \in DOMAIN clocks :
          (clocks[j].internal = clocks[k].internal)
              <=> (clocks[j].freq = clocks[k].freq /\ clocks[j].skew = clocks[k].skew)
  BY DEF IInv, InternalsOK
<1>2. ASSUME NEW k \in DOMAIN clocks
      PROVE  LET ext == clocks[internals[clocks[k].internal].ext + 1]
             IN  /\ ext.internal = clocks[k].internal
                 /\ ext.ratio = clocks[k].ratio /\ ext.lcmSkew = clocks[k].lcmSkew
  <2> DEFINE i == clocks[k].internal
             e == internals[i].ext + 1
  <2>1. e \in DOMAIN clocks /\ clocks[e].internal = i
    BY DEF IInv, InternalsOK, ExternalOK
  <2>2. clocks[e].freq = clocks[k].freq /\ clocks[e].skew = clocks[k].skew
    BY <1>1, <2>1
  <2>3. clocks[e].ratio = clocks[k].ratio /\ clocks[e].lcmSkew = clocks[k].lcmSkew
    BY <2>1, <2>2 DEF IInv, ComputedOK
  <2>4. QED
    BY <2>1, <2>3
<1>3. QED
  BY <1>1, <1>2 DEF IInv, TablesOK, SharedClocks

(* Clocks share one of the internal clocks exactly when their frequency    *)
(* and skew are the same, and a cycle of the internal clock is at the same *)
(* time for each of them (ClockDomainMgr::addNewClockDomain).              *)
THEOREM SpecShared == Spec => []SharedClocks
BY SpecIInv, IInvShared, PTL

-----------------------------------------------------------------------------
(* Arithmetic.                                                             *)

LEMMA Division ==
    ASSUME NEW n \in Int, NEW d \in Int, n >= 0, d > 0
    PROVE  /\ n \div d \in Nat /\ n % d \in 0 .. d - 1
           /\ n = d * (n \div d) + (n % d)
<1>1. n \div d \in Nat
  OBVIOUS
<1>2. n % d \in 0 .. d - 1
  OBVIOUS
<1>3. n = d * (n \div d) + (n % d)
  BY SMT
<1>4. QED
  BY <1>1, <1>2, <1>3

LEMMA DivisionUnique ==
    ASSUME NEW n \in Int, NEW d \in Nat \ {0}, NEW q \in Int, NEW r \in 0..(d - 1), n = d * q + r
    PROVE  n \div d = q /\ n % d = r
OBVIOUS

LEMMA ProductsCancel ==
    ASSUME NEW a \in Int, NEW b \in Int, NEW c \in Nat \ {0}, a * c < b * c
    PROVE  a < b
OBVIOUS

LEMMA ProductsOrdered ==
    ASSUME NEW a \in Int, NEW b \in Int, NEW c \in Nat, a <= b
    PROVE  a * c <= b * c
OBVIOUS

(* Among some natural numbers there is a first one.                        *)
LEMMA Least ==
    ASSUME NEW T \in SUBSET Nat, T # {}
    PROVE  \E x \in T : \A y \in T : x <= y
<1> DEFINE R == OpToRel(<, Nat)
<1>1. IsWellFoundedOn(R, Nat)
  BY NatLessThanWellFounded
<1>2. \A y, x \in Nat : <<y, x>> \in R <=> y < x
  BY DEF OpToRel
<1> HIDE DEF R
<1>3. PICK x \in T : \A y \in T : ~(<<y, x>> \in R)
  BY <1>1, WFMin
<1>4. ASSUME NEW y \in T PROVE x <= y
  <2>1. x \in Nat /\ y \in Nat
    OBVIOUS
  <2>2. ~(y < x)
    BY <1>2, <1>3, <2>1
  <2>3. QED
    BY <2>1, <2>2
<1>5. QED
  BY <1>4

-----------------------------------------------------------------------------
(* The least common multiple.                                              *)

LEMMA computeLCMFacts ==
    ASSUME NEW a \in Nat \ {0}, NEW b \in Nat \ {0}
    PROVE  \E p, q \in Nat \ {0} : computeLCM(a, b) = p * a /\ computeLCM(a, b) = q * b
<1> DEFINE S == {k \in 1..a : (b * k) % a = 0}
<1>1. S \in SUBSET Nat /\ a \in S
  <2>1. (b * a) % a = 0
    OBVIOUS
  <2>2. QED
    BY <2>1
<1>2. \E x \in S : \A y \in S : x <= y
  <2> HIDE DEF S
  <2>1. S # {}
    BY <1>1
  <2>2. QED
    BY <1>1, <2>1, Least
<1>3. PICK q \in S : q = Min(S)
  BY <1>2 DEF Min
<1>4. q \in Nat \ {0} /\ (b * q) % a = 0
  OBVIOUS
<1>5. computeLCM(a, b) = b * q
  BY <1>3 DEF computeLCM
<1>6. PICK n \in Nat : n = b * q /\ n # 0
  BY <1>4
<1>7. PICK p \in Int : p = n \div a
  BY Division
<1>8. n = a * p
  <2>1. n = a * (n \div a) + (n % a)
    BY Division
  <2>2. n % a = 0
    BY <1>4, <1>6
  <2>3. n = a * p + 0
    BY <1>7, <2>1, <2>2, Zenon
  <2>4. a * p \in Int
    OBVIOUS
  <2>5. QED
    BY <2>3, <2>4
<1>9. p \in Nat \ {0}
  <2>1. p # 0
    BY <1>6, <1>8
  <2>2. p \in Nat
    BY <1>6, <1>7, Division
  <2>3. QED
    BY <2>1, <2>2
<1>10. p * a = n /\ q * b = n
  BY <1>4, <1>6, <1>8
<1>11. QED
  BY <1>4, <1>5, <1>6, <1>9, <1>10

(* f takes the frequencies one after the other.                            *)
Upto(f, fs, m) == f = [k \in 0..m |-> IF k = 0 THEN 1 ELSE computeLCM(f[k - 1], fs[k])]

LEMMA UptoExists ==
    ASSUME NEW fs, NEW n \in Nat
    PROVE  \E f : Upto(f, fs, n)
<1> DEFINE T == {m \in Nat : ~\E f : Upto(f, fs, m)}
<1>1. SUFFICES T = {}
  OBVIOUS
<1>2. SUFFICES ASSUME T # {} PROVE FALSE
  OBVIOUS
<1>3. PICK m \in T : \A y \in T : m <= y
  <2>1. T \in SUBSET Nat
    OBVIOUS
  <2> HIDE DEF T
  <2>2. QED
    BY <1>2, <2>1, Least
<1>4. m # 0
  <2>1. PICK f : f = [k \in 0..0 |-> 1]
    OBVIOUS
  <2>2. Upto(f, fs, 0)
    BY <2>1 DEF Upto
  <2>3. QED
    BY <2>2
<1>5. m - 1 \in Nat /\ m - 1 \notin T
  BY <1>3, <1>4
<1>6. PICK g : Upto(g, fs, m - 1)
  BY <1>5
<1>7. \A k \in 0..(m - 1) : g[k] = IF k = 0 THEN 1 ELSE computeLCM(g[k - 1], fs[k])
  BY <1>6 DEF Upto
<1>8. PICK f : f = [k \in 0..m |-> IF k < m THEN g[k] ELSE computeLCM(g[m - 1], fs[m])]
  OBVIOUS
<1>9. ASSUME NEW k \in 0..m
      PROVE  f[k] = IF k = 0 THEN 1 ELSE computeLCM(f[k - 1], fs[k])
  <2>1. CASE k = 0
    <3>1. 0 \in 0..(m - 1) /\ 0 < m
      BY <1>4, <1>5
    <3>2. f[0] = g[0] /\ g[0] = 1
      BY <1>5, <1>7, <1>8, <3>1
    <3>3. QED
      BY <2>1, <3>2
  <2>2. CASE k # 0
    <3>1. k - 1 \in 0..m /\ k - 1 < m
      BY <2>2
    <3>2. f[k - 1] = g[k - 1]
      BY <1>8, <3>1
    <3>3. CASE k = m
      BY <1>8, <2>2, <3>2, <3>3
    <3>4. CASE k # m
      <4>1. k \in 0..(m - 1) /\ k < m
        BY <3>4
      <4>2. f[k] = g[k]
        BY <1>8, <4>1
      <4>3. QED
        BY <1>7, <2>2, <3>2, <4>1, <4>2
    <3>5. QED
      BY <3>3, <3>4
  <2>3. QED
    BY <2>1, <2>2
<1>10. Upto(f, fs, m)
  <2>1. DOMAIN f = 0..m /\ f = [k \in 0..m |-> f[k]]
    BY <1>8
  <2>2. f = [k \in 0..m |-> IF k = 0 THEN 1 ELSE computeLCM(f[k - 1], fs[k])]
    BY <1>9, <2>1
  <2>3. QED
    BY <2>2 DEF Upto
<1>11. QED
  BY <1>10

(* Of the frequencies taken so far, it is a common multiple.               *)
Multiple(n, fs, m) == n \in Nat \ {0} /\ \A k \in 1..m : \E q \in Nat \ {0} : n = q * fs[k]

LEMMA UptoMultiple ==
    ASSUME NEW fs \in Seq(Nat \ {0}), NEW f, Upto(f, fs, Len(fs)), NEW n \in 0..Len(fs)
    PROVE  Multiple(f[n], fs, n)
<1> DEFINE T == {m \in 0..Len(fs) : ~Multiple(f[m], fs, m)}
<1>0. PICK l \in Nat : l = Len(fs)
  OBVIOUS
<1>1. SUFFICES ASSUME T # {} PROVE FALSE
  OBVIOUS
<1>2. PICK m \in T : \A y \in T : m <= y
  <2>1. T \in SUBSET Nat
    BY <1>0
  <2> HIDE DEF T
  <2>2. QED
    BY <1>1, <2>1, Least
<1>3. \A k \in 0..l : f[k] = IF k = 0 THEN 1 ELSE computeLCM(f[k - 1], fs[k])
  BY <1>0 DEF Upto
<1>4. m # 0
  <2>1. f[0] = 1
    BY <1>0, <1>3
  <2>2. Multiple(f[0], fs, 0)
    BY <2>1 DEF Multiple
  <2>3. QED
    BY <2>2
<1>5. m \in 1..l /\ m - 1 \in 0..l /\ m - 1 \notin T
  BY <1>0, <1>2, <1>4
<1>6. Multiple(f[m - 1], fs, m - 1)
  BY <1>0, <1>5
<1>7. PICK a \in Nat \ {0} : a = f[m - 1] /\ Multiple(a, fs, m - 1)
  BY <1>6 DEF Multiple
<1>8. PICK b \in Nat \ {0} : b = fs[m]
  BY <1>0, <1>5, ElementOfSeq
<1>9. PICK c, p, q \in Nat \ {0} : c = computeLCM(a, b) /\ c = p * a /\ c = q * b
  <2>1. PICK p, q \in Nat \ {0} : computeLCM(a, b) = p * a /\ computeLCM(a, b) = q * b
    BY computeLCMFacts
  <2>2. p * a \in Nat \ {0}
    OBVIOUS
  <2>3. QED
    BY <2>1, <2>2
<1>10. f[m] = c
  <2>1. m \in 0..l
    BY <1>5
  <2>2. f[m] = computeLCM(f[m - 1], fs[m])
    BY <1>3, <1>4, <2>1
  <2>3. QED
    BY <1>7, <1>8, <1>9, <2>2
<1>11. ASSUME NEW k \in 1..m PROVE \E r \in Nat \ {0} : c = r * fs[k]
  <2>1. CASE k = m
    BY <1>8, <1>9, <2>1
  <2>2. CASE k # m
    <3>1. k \in 1..(m - 1) /\ k \in 1..l
      BY <1>5, <2>2
    <3>2. PICK r \in Nat \ {0} : a = r * fs[k]
      BY <1>7, <3>1 DEF Multiple
    <3>3. PICK x \in Nat \ {0} : x = fs[k]
      BY <1>0, <3>1, ElementOfSeq
    <3>4. PICK y \in Nat \ {0} : y = p * r
      OBVIOUS
    <3>5. p * (r * x) = (p * r) * x
      OBVIOUS
    <3>6. c = y * x
      BY <1>9, <3>2, <3>3, <3>4, <3>5
    <3>7. QED
      BY <3>3, <3>6
  <2>3. QED
    BY <2>1, <2>2
<1>12. Multiple(f[m], fs, m)
  BY <1>10, <1>11 DEF Multiple
<1>13. QED
  BY <1>12

LEMMA LcmOfFacts ==
    ASSUME NEW fs \in Seq(Nat \ {0})
    PROVE  Multiple(LcmOf(fs), fs, Len(fs))
<1>1. PICK f : f = CHOOSE g : Upto(g, fs, Len(fs))
  OBVIOUS
<1>2. LcmOf(fs) = f[Len(fs)]
  BY <1>1 DEF LcmOf, Upto
<1>3. Upto(f, fs, Len(fs))
  <2>1. Len(fs) \in Nat
    OBVIOUS
  <2>2. QED
    BY <1>1, <2>1, UptoExists
<1>4. Len(fs) \in 0..Len(fs)
  OBVIOUS
<1>5. QED
  BY <1>2, <1>3, <1>4, UptoMultiple

-----------------------------------------------------------------------------
(* The clocks: their types, and what is computed for them.                 *)

ClockTypes ==
    \A k \in DOMAIN clocks :
        /\ clocks[k].freq \in (Freqs \cup {100}) \ {0} /\ clocks[k].divisions \in {1, 2}
        /\ clocks[k].skew \in Skews \cup {0}

RatiosOK ==
    state = "TRACE" =>
        \A k \in DOMAIN clocks :
            /\ clocks[k].ratio = lcm_ratio(Lcm(clocks), clocks[k].freq)
            /\ clocks[k].lcmSkew = lcm_skew(clocks[k].skew, clocks[k].ratio)

States == state \in {"GRAPH", "TRACE", "ERROR"}

ClocksOK == ClockTypes /\ RatiosOK /\ States

LEMMA InitClocksOK == Init => ClocksOK
BY DEF Init, ClocksOK, ClockTypes, RatiosOK, States

LEMMA NewClockClocksOK ==
    ASSUME IInv, ClocksOK, NEW id \in 0..MaxClocks, NEW freq \in Freqs, NEW divisions \in 0..2,
           NEW skew \in Skews, NewClock(id, freq, divisions, skew)
    PROVE  ClocksOK'
<1>1. CASE state = "GRAPH" /\ Accepted(id, freq, divisions, skew)
  <2>1. /\ Entered(clocks, internals, freq, divisions, skew) /\ state' = state
        /\ freq # 0 /\ divisions \in {1, 2}
    BY <1>1 DEF NewClock, Accepted
  <2>2. PICK i : clocks' = Append(clocks, [freq |-> freq, divisions |-> divisions, skew |-> skew,
                                           internal |-> i, ratio |-> 0, lcmSkew |-> 0])
    BY <2>1 DEF Entered
  <2>3. PICK e : e = [freq |-> freq, divisions |-> divisions, skew |-> skew,
                      internal |-> i, ratio |-> 0, lcmSkew |-> 0]
    OBVIOUS
  <2>4. /\ DOMAIN clocks' = 1..(Len(clocks) + 1)
        /\ DOMAIN clocks = 1..Len(clocks) /\ Len(clocks) \in Nat
        /\ \A k \in 1..Len(clocks) : clocks'[k] = clocks[k]
        /\ clocks'[Len(clocks) + 1] = e
    BY <2>2, <2>3, AppendAny DEF IInv, TablesOK
  <2>5. e.freq = freq /\ e.divisions = divisions /\ e.skew = skew
    BY <2>3
  <2>6. ASSUME NEW k \in DOMAIN clocks'
        PROVE  /\ clocks'[k].freq \in (Freqs \cup {100}) \ {0}
               /\ clocks'[k].divisions \in {1, 2} /\ clocks'[k].skew \in Skews \cup {0}
    <3>1. CASE k = Len(clocks) + 1
      BY <2>1, <2>4, <2>5, <3>1
    <3>2. CASE k \in 1..Len(clocks)
      BY <2>4, <3>2 DEF ClocksOK, ClockTypes
    <3>3. QED
      BY <2>4, <2>6, <3>1, <3>2
  <2>7. QED
    BY <1>1, <2>1, <2>6 DEF ClocksOK, ClockTypes, RatiosOK, States
<1>2. CASE ~(state = "GRAPH" /\ Accepted(id, freq, divisions, skew))
  <2>1. state' = "ERROR" /\ clocks' = clocks
    BY <1>2 DEF NewClock
  <2>2. QED
    BY <2>1 DEF ClocksOK, ClockTypes, RatiosOK, States
<1>3. QED
  BY <1>1, <1>2

(* When the activity starts.                                               *)
LEMMA StartClocksOK ==
    ASSUME IInv, ClocksOK, StartActivity
    PROVE  ClocksOK' /\ Len(clocks') \in Nat \ {0} /\ DOMAIN clocks' = 1..Len(clocks')
<1>1. PICK cs : cs = IF clocks = <<>> THEN <<DefaultClock>> ELSE clocks
  OBVIOUS
<1>2. /\ cs \in Seq(Range(cs)) /\ Len(cs) \in Nat \ {0} /\ DOMAIN cs = 1..Len(cs)
      /\ \A k \in DOMAIN cs :
            /\ DOMAIN cs[k] = Fields /\ cs[k].freq \in (Freqs \cup {100}) \ {0}
            /\ cs[k].divisions \in {1, 2} /\ cs[k].skew \in Skews \cup {0}
  <2>1. CASE clocks = <<>>
    <3>1. cs = <<DefaultClock>>
      BY <1>1, <2>1
    <3>2. cs \in Seq(Range(cs)) /\ Len(cs) = 1 /\ DOMAIN cs = 1..1 /\ cs[1] = DefaultClock
      BY <3>1 DEF Range
    <3>3. /\ DOMAIN DefaultClock = Fields /\ DefaultClock.freq = 100
          /\ DefaultClock.divisions = 1 /\ DefaultClock.skew = 0
      BY DEF DefaultClock, Fields
    <3>4. QED
      BY <3>2, <3>3
  <2>2. CASE clocks # <<>>
    <3>1. cs = clocks /\ clocks \in Seq(Range(clocks))
      BY <1>1, <2>2 DEF IInv, TablesOK
    <3>2. Len(clocks) \in Nat \ {0} /\ DOMAIN clocks = 1..Len(clocks)
      BY <2>2, <3>1
    <3>3. QED
      BY <3>1, <3>2 DEF IInv, TablesOK, ClocksOK, ClockTypes
  <2>3. QED
    BY <2>1, <2>2
<1>3. clocks' = Computed(cs) /\ state' = "TRACE"
  BY <1>1 DEF StartActivity
<1>4. PICK ds : ds = clocks'
  OBVIOUS
<1>5. /\ ds \in Seq(Range(ds)) /\ DOMAIN ds = DOMAIN cs
      /\ \A k \in DOMAIN cs :
            /\ ds[k].freq = cs[k].freq /\ ds[k].skew = cs[k].skew
            /\ ds[k].divisions = cs[k].divisions
            /\ ds[k].ratio = lcm_ratio(Lcm(cs), cs[k].freq)
            /\ ds[k].lcmSkew = lcm_skew(cs[k].skew, ds[k].ratio)
  BY <1>2, <1>3, <1>4, ComputedClocks
<1>6. Lcm(ds) = Lcm(cs)
  <2>1. [k \in DOMAIN ds |-> ds[k].freq] = [k \in DOMAIN cs |-> cs[k].freq]
    BY <1>5
  <2>2. QED
    BY <2>1 DEF Lcm
<1>7. Len(ds) = Len(cs)
  BY <1>2, <1>5
<1>8. ClockTypes'
  BY <1>2, <1>4, <1>5 DEF ClockTypes
<1>9. RatiosOK'
  BY <1>4, <1>5, <1>6 DEF RatiosOK
<1>10. QED
  BY <1>2, <1>3, <1>4, <1>5, <1>7, <1>8, <1>9 DEF ClocksOK, States

LEMMA NextClocksOK == ASSUME IInv, ClocksOK, [Next]_vars PROVE ClocksOK'
<1>1. ASSUME NEW id \in 0..MaxClocks, NEW freq \in Freqs, NEW divisions \in 0..2,
             NEW skew \in Skews, NewClock(id, freq, divisions, skew)
      PROVE  ClocksOK'
  BY <1>1, NewClockClocksOK
<1>2. CASE StartActivity
  BY <1>2, StartClocksOK
<1>3. CASE Drag \/ UNCHANGED vars
  <2>1. UNCHANGED clockVars
    BY <1>3 DEF Drag, setFrame, vars
  <2>2. QED
    BY <2>1 DEF clockVars, ClocksOK, ClockTypes, RatiosOK, States
<1>4. QED
  BY <1>1, <1>2, <1>3 DEF Next

LEMMA SpecClocksOK == Spec => []ClocksOK
BY InitClocksOK, NextClocksOK, SpecIInv, PTL DEF Spec

-----------------------------------------------------------------------------
(* The windows: a cycle is of one of the clocks, and on the slider.        *)

AnyCycle == [clock : Nat, cycle : Int, division : Int]
CycleOf(c) == [clock : {c}, cycle : Nat, division : {0, 1}]
OnSlider == [clock : Nat, cycle : 0..MaxCycle, division : {0, 1}]
ClockAt(c) == c \in Nat /\ c + 1 \in DOMAIN clocks

WindowTypes ==
    /\ moves \in 0..MaxMoves
    /\ current \in [Windows -> OnSlider] /\ displacement \in [Windows -> Int]
    /\ moved \in [Windows -> Int] /\ strayed \in [Windows -> BOOLEAN]
    /\ state = "TRACE" => \A w \in Windows : ClockAt(current[w].clock)
    /\ state = "GRAPH" => displacement = [w \in Windows |-> 0] /\ moved = [w \in Windows |-> 0]

LEMMA MaxOfTwo ==
    ASSUME NEW a \in Int, NEW b \in Int
    PROVE  Max({a, b}) = IF a >= b THEN a ELSE b
BY DEF Max

LEMMA MinOfTwo ==
    ASSUME NEW a \in Int, NEW b \in Int
    PROVE  Min({a, b}) = IF a <= b THEN a ELSE b
BY DEF Min

LEMMA ClockFacts ==
    ASSUME ClockTypes, NEW c, ClockAt(c)
    PROVE  /\ getClockDomain(c).freq \in Nat \ {0} /\ Divisions(c) \in {1, 2}
           /\ getClockDomain(c).divisions = Divisions(c)
<1>1. PICK k : k = c + 1 /\ k \in DOMAIN clocks
  BY DEF ClockAt
<1>2. clocks[k].freq \in Nat \ {0} /\ clocks[k].divisions \in {1, 2}
  <2>1. (Freqs \cup {100}) \ {0} \subseteq Nat \ {0}
    BY ClockSizesAssumption
  <2>2. QED
    BY <1>1, <2>1 DEF ClockTypes
<1>3. QED
  BY <1>1, <1>2 DEF getClockDomain, Divisions

LEMMA CycleChanged ==
    ASSUME NEW x \in AnyCycle, NEW n, NEW d
    PROVE  /\ [x EXCEPT !.cycle = n, !.division = d]
                  = [clock |-> x.clock, cycle |-> n, division |-> d]
           /\ [x EXCEPT !.cycle = n] = [clock |-> x.clock, cycle |-> n, division |-> x.division]
           /\ [x EXCEPT !.division = d] = [clock |-> x.clock, cycle |-> x.cycle, division |-> d]
<1>1. x = [clock |-> x.clock, cycle |-> x.cycle, division |-> x.division]
  BY DEF AnyCycle
<1>2. PICK a, b, e : x = [clock |-> a, cycle |-> b, division |-> e]
  BY <1>1
<1>3. x.clock = a /\ x.cycle = b /\ x.division = e
  BY <1>2
<1>4. [x EXCEPT !.cycle = n, !.division = d] = [clock |-> a, cycle |-> n, division |-> d]
  <2>1. PICK y : y = [x EXCEPT !.cycle = n]
    OBVIOUS
  <2>2. y = [clock |-> a, cycle |-> n, division |-> e]
    BY <1>2, <2>1
  <2>3. [y EXCEPT !.division = d] = [clock |-> a, cycle |-> n, division |-> d]
    BY <2>2
  <2>4. [x EXCEPT !.cycle = n, !.division = d] = [y EXCEPT !.division = d]
    BY <2>1
  <2>5. QED
    BY <2>3, <2>4
<1>5. [x EXCEPT !.cycle = n] = [clock |-> a, cycle |-> n, division |-> e]
  BY <1>2
<1>6. [x EXCEPT !.division = d] = [clock |-> a, cycle |-> b, division |-> d]
  BY <1>2
<1>7. QED
  BY <1>3, <1>4, <1>5, <1>6

LEMMA toPsType ==
    ASSUME ClockTypes, NEW x \in AnyCycle, ClockAt(x.clock)
    PROVE  /\ toPs(x) \in Int
           /\ x.cycle >= 0 /\ x.division >= 0 => toPs(x) >= 0
<1>1. PICK n \in Int : n = x.cycle * 100000 + x.division * 50000
  BY DEF AnyCycle
<1>2. PICK f \in Nat \ {0} : f = getClockDomain(x.clock).freq
  BY ClockFacts
<1>3. toPs(x) = IF n >= 0 THEN n \div f ELSE -((-n) \div f)
  BY <1>1, <1>2 DEF toPs
<1>4. n >= 0 => n \div f \in Nat
  OBVIOUS
<1>5. ~(n >= 0) => (-n) \div f \in Nat
  OBVIOUS
<1>6. x.cycle >= 0 /\ x.division >= 0 => n >= 0
  BY <1>1 DEF AnyCycle
<1>7. QED
  BY <1>3, <1>4, <1>5, <1>6

LEMMA fromPsType ==
    ASSUME ClockTypes, NEW c, ClockAt(c), NEW ps \in Nat
    PROVE  fromPs(c, ps) \in CycleOf(c)
<1>1. PICK n \in Nat : n = ps * getClockDomain(c).freq
  BY ClockFacts
<1>2. n \div 100000 \in Nat
  OBVIOUS
<1>3. fromPs(c, ps) = [clock |-> c, cycle |-> n \div 100000,
                       division |-> IF n % 100000 >= 50000 THEN 1 ELSE 0]
  BY <1>1 DEF fromPs
<1>4. QED
  BY <1>2, <1>3 DEF CycleOf

LEMMA ClampedFacts ==
    ASSUME NEW c \in Nat, NEW x \in CycleOf(c)
    PROVE  /\ Clamped(x) \in OnSlider /\ Clamped(x).clock = c
           /\ x.cycle <= MaxCycle => Clamped(x) = x
<1>1. PICK m \in Nat : m = MaxCycle
  BY ClockSizesAssumption
<1>2. Max({x.cycle, 0}) = x.cycle
  BY MaxOfTwo DEF CycleOf
<1>3. Min({Max({x.cycle, 0}), MaxCycle}) = IF x.cycle <= m THEN x.cycle ELSE m
  <2>1. x.cycle \in Int /\ MaxCycle \in Int
    BY <1>1 DEF CycleOf
  <2>2. Min({x.cycle, MaxCycle}) = IF x.cycle <= MaxCycle THEN x.cycle ELSE MaxCycle
    BY <2>1, MinOfTwo
  <2>3. QED
    BY <1>1, <1>2, <2>2
<1>4. PICK n \in 0..m : n = IF x.cycle <= m THEN x.cycle ELSE m
  BY DEF CycleOf
<1>5. Clamped(x) = [x EXCEPT !.cycle = n]
  BY <1>3, <1>4 DEF Clamped
<1>6. QED
  BY <1>1, <1>4, <1>5 DEF CycleOf, OnSlider

LEMMA NegativeFacts ==
    ASSUME NEW x \in AnyCycle
    PROVE  /\ Negative(x) \in AnyCycle /\ Negative(x).clock = x.clock
           /\ Negative(x).cycle = -x.cycle /\ Negative(x).division = -x.division
<1>1. PICK z : z = Negative(x)
  OBVIOUS
<1>2. DOMAIN z = {"clock", "cycle", "division"}
  BY <1>1 DEF Negative, AnyCycle
<1>3. z.clock = x.clock /\ z.cycle = -x.cycle /\ z.division = -x.division
  BY <1>1 DEF Negative, AnyCycle
<1>4. z = [k \in {"clock", "cycle", "division"} |-> z[k]]
  BY <1>1, <1>2 DEF Negative, AnyCycle
<1>5. z = [clock |-> x.clock, cycle |-> -x.cycle, division |-> -x.division]
  BY <1>2, <1>3, <1>4
<1>6. z \in AnyCycle
  BY <1>5 DEF AnyCycle
<1>7. QED
  BY <1>1, <1>3, <1>6

LEMMA AccCycleType ==
    ASSUME ClockTypes, NEW c, ClockAt(c), NEW disp \in Int
    PROVE  /\ AccCycle(c, disp) \in AnyCycle /\ AccCycle(c, disp).clock = c
           /\ Divisions(c) = 1 => AccCycle(c, disp).division = 0
<1>1. Abs(disp) \in Nat /\ c \in Nat
  BY DEF Abs, ClockAt
<1>2. PICK x \in CycleOf(c) : x = fromPs(c, Abs(disp))
  BY <1>1, fromPsType
<1>3. PICK y \in AnyCycle : y = (IF Divisions(c) > 1 THEN x ELSE [x EXCEPT !.division = 0])
                            /\ y.clock = c /\ (Divisions(c) = 1 => y.division = 0)
  <2>1. x \in AnyCycle /\ x.clock = c
    BY <1>1, <1>2 DEF CycleOf, AnyCycle
  <2>2. PICK z : z = [x EXCEPT !.division = 0]
    OBVIOUS
  <2>3. z = [clock |-> c, cycle |-> x.cycle, division |-> 0]
    BY <2>1, <2>2, CycleChanged
  <2>4. z \in AnyCycle /\ z.clock = c /\ z.division = 0
    BY <1>1, <2>1, <2>3 DEF AnyCycle
  <2>5. CASE Divisions(c) > 1
    BY <2>1, <2>5
  <2>6. CASE ~(Divisions(c) > 1)
    BY <2>2, <2>4, <2>6
  <2>7. QED
    BY <2>5, <2>6
<1>4. /\ Negative(y) \in AnyCycle /\ Negative(y).clock = c
      /\ Divisions(c) = 1 => Negative(y).division = 0
  <2>1. /\ Negative(y) \in AnyCycle /\ Negative(y).clock = c
        /\ Negative(y).division = -y.division
    BY <1>3, NegativeFacts
  <2>2. ASSUME Divisions(c) = 1 PROVE Negative(y).division = 0
    <3>1. y.division = 0
      BY <1>3, <2>2
    <3>2. PICK m \in Int : m >= 0 /\ m <= 0 /\ y.division = m
      BY <3>1
    <3>3. -m = 0
      BY <3>2
    <3>4. Negative(y).division = -m
      BY <2>1, <3>2, Zenon
    <3>5. QED
      BY <3>3, <3>4
  <2>3. QED
    BY <1>3, <2>1, <2>2
<1>5. AccCycle(c, disp) = IF disp < 0 THEN Negative(y) ELSE y
  BY <1>2, <1>3 DEF AccCycle
<1>6. QED
  BY <1>3, <1>4, <1>5

(* A window that attends a change: what it is moved by, and where it is.   *)
LEMMA AttendFacts ==
    ASSUME ClockTypes, NEW w \in Windows, NEW cs \in [Windows -> OnSlider], NEW ps \in Int,
           ClockAt(cs[w].clock), displacement \in [Windows -> Int],
           strayed \in [Windows -> BOOLEAN], attendCycleChanged(w, cs, ps),
           NEW c, c = cs[w].clock, NEW disp, disp = displacement[w] + ps,
           NEW acc, acc = AccCycle(c, disp), NEW sum, sum = toPs(cs[w]) + toPs(acc)
    PROVE  /\ disp \in Int /\ acc \in AnyCycle /\ acc.clock = c /\ sum \in Int
           /\ toPs(acc) \in Int /\ toPs(cs[w]) \in Nat
           /\ displacement' = [displacement EXCEPT ![w] = disp - toPs(acc)]
           /\ displacement' \in [Windows -> Int]
           /\ current' \in [Windows -> OnSlider]
           /\ \A v \in Windows : current'[v].clock = cs[v].clock /\ (v # w => current'[v] = cs[v])
           /\ sum >= 0 => /\ fromPs(c, sum) \in CycleOf(c)
                          /\ current'[w] = Clamped(fromPs(c, toPs(fromPs(c, sum))))
           /\ strayed' \in [Windows -> BOOLEAN]
           /\ strayed' = [strayed EXCEPT ![w] = @ \/ sum < 0 \/ fromPs(c, sum).cycle > MaxCycle]
<1>1. /\ cs[w] \in OnSlider /\ cs[w] \in AnyCycle /\ c \in Nat /\ ClockAt(c)
      /\ cs[w].cycle >= 0 /\ cs[w].division >= 0
  BY ClockSizesAssumption DEF OnSlider, AnyCycle, ClockAt
<1>2. disp \in Int
  OBVIOUS
<1>3. acc \in AnyCycle /\ acc.clock = c
  BY <1>1, <1>2, AccCycleType
<1>4. toPs(acc) \in Int
  BY <1>1, <1>3, toPsType
<1>5. toPs(cs[w]) \in Nat
  BY <1>1, toPsType
<1>6. sum \in Int
  BY <1>4, <1>5
<1>7. displacement' = [displacement EXCEPT ![w] = disp - toPs(acc)]
  BY DEF attendCycleChanged, Remainder
<1>8. strayed' = [strayed EXCEPT ![w] = @ \/ sum < 0 \/ fromPs(c, sum).cycle > MaxCycle]
  BY Zenon DEF attendCycleChanged
<1>9. strayed' \in [Windows -> BOOLEAN]
  BY <1>8
<1>10. displacement' \in [Windows -> Int]
  BY <1>2, <1>4, <1>7
<1>11. CASE sum >= 0
  <2>1. PICK x \in CycleOf(c) : x = fromPs(c, sum)
    BY <1>1, <1>6, <1>11, fromPsType
  <2>2. x.clock = c /\ x \in AnyCycle /\ x.cycle >= 0 /\ x.division >= 0
    BY <1>1 DEF CycleOf, AnyCycle
  <2>3. toPs(x) \in Nat
    BY <1>1, <2>2, toPsType
  <2>4. PICK y \in CycleOf(c) : y = fromPs(c, toPs(x))
    BY <1>1, <2>3, fromPsType
  <2>5. PICK z \in OnSlider : z = Clamped(y) /\ z.clock = c
    BY <1>1, ClampedFacts
  <2>6. current' = [cs EXCEPT ![w] = z]
    BY <1>11, <2>1, <2>2, <2>4, <2>5 DEF attendCycleChanged, Shown
  <2>7. QED
    BY <1>2, <1>3, <1>4, <1>5, <1>6, <1>7, <1>8, <1>9, <1>10, <2>1, <2>4, <2>5, <2>6
<1>12. CASE ~(sum >= 0)
  <2>1. PICK n \in 0..MaxCycle, d \in 0..1 :
            current' = [cs EXCEPT ![w].cycle = n, ![w].division = d]
    BY <1>12 DEF attendCycleChanged
  <2>2. PICK z : z = [cs[w] EXCEPT !.cycle = n, !.division = d]
    OBVIOUS
  <2>3. z \in OnSlider /\ z.clock = c
    <3>1. z = [clock |-> c, cycle |-> n, division |-> d]
      BY <1>1, <2>2, CycleChanged
    <3>2. QED
      BY <1>1, <3>1 DEF OnSlider
  <2>4. current' = [cs EXCEPT ![w] = z]
    BY <2>1, <2>2
  <2>5. QED
    BY <1>2, <1>3, <1>4, <1>5, <1>6, <1>7, <1>8, <1>9, <1>10, <1>12, <2>3, <2>4
<1>13. QED
  BY <1>11, <1>12

LEMMA SliderFacts ==
    ASSUME ClockTypes, NEW c, ClockAt(c), NEW value \in Nat
    PROVE  /\ sliderValueToCycle(c, value) \in CycleOf(c)
           /\ sliderValueToCycle(c, value) \in AnyCycle
           /\ value <= MaxCycle * Divisions(c) => sliderValueToCycle(c, value) \in OnSlider
           /\ value = sliderValueToCycle(c, value).cycle * Divisions(c)
                         + sliderValueToCycle(c, value).division
           /\ Divisions(c) = 1 => sliderValueToCycle(c, value).division = 0
<1>1. PICK d \in {1, 2} : d = Divisions(c)
  BY ClockFacts
<1>2. PICK n, m : n = value \div d /\ m = value % d
  OBVIOUS
<1>3. /\ n \in Nat /\ m \in {0, 1} /\ value = n * d + m /\ (d = 1 => m = 0)
      /\ value <= MaxCycle * d => n <= MaxCycle
  <2>1. MaxCycle \in Nat
    BY ClockSizesAssumption
  <2>2. CASE d = 1
    BY <1>2, <2>1, <2>2
  <2>3. CASE d = 2
    BY <1>2, <2>1, <2>3
  <2>4. QED
    BY <2>2, <2>3
<1>4. sliderValueToCycle(c, value) = [clock |-> c, cycle |-> n, division |-> m]
  BY <1>1, <1>2 DEF sliderValueToCycle
<1>5. c \in Nat /\ MaxCycle \in Nat
  BY ClockSizesAssumption DEF ClockAt
<1>6. QED
  BY <1>1, <1>3, <1>4, <1>5 DEF CycleOf, AnyCycle, OnSlider

LEMMA SliderValue ==
    ASSUME ClockTypes, NEW x \in OnSlider, ClockAt(x.clock)
    PROVE  cycleToSliderValue(x) \in Nat
<1>1. PICK d \in {1, 2} : d = Divisions(x.clock)
  BY ClockFacts
<1>2. x.cycle \in Nat /\ x.division \in Nat
  BY ClockSizesAssumption DEF OnSlider
<1>3. x.cycle * d \in Nat
  BY <1>1, <1>2
<1>4. QED
  BY <1>1, <1>2, <1>3 DEF cycleToSliderValue

(* What a drag of window w comes to: the window is at x, and the other one *)
(* attends a change of ps.                                                 *)
Dragged(w, x, ps) ==
    /\ state = "TRACE" /\ w \in Windows /\ x \in OnSlider /\ x.clock = current[w].clock
    /\ ps \in Int /\ \E diff \in AnyCycle :
          /\ ps = toPs(diff) /\ diff.clock = x.clock
          /\ cycleToSliderValue(current[w]) + diff.cycle * Divisions(x.clock) + diff.division
                = x.cycle * Divisions(x.clock) + x.division
          /\ Divisions(x.clock) = 1 => x.division = 0 /\ diff.division = 0
    /\ moved' = [v \in Windows |-> moved[v] + ps]
    /\ attendCycleChanged(3 - w, [current EXCEPT ![w] = x], ps)
    /\ moves' \in 0..MaxMoves /\ UNCHANGED clockVars

LEMMA DragIsDragged ==
    ASSUME ClockTypes, WindowTypes, Drag
    PROVE  \E w, x, ps : Dragged(w, x, ps)
<1>1. PICK w \in Windows, delta \in Diffs, back \in BOOLEAN :
          LET value == cycleToSliderValue(current[w]) + IF back THEN -delta ELSE delta
          IN  /\ state = "TRACE" /\ moves < MaxMoves /\ Len(clocks) <= 2
              /\ value \in 0..(MaxCycle * Divisions(current[w].clock))
              /\ setFrame(w, value)
  BY Zenon DEF Drag
<1>2. PICK c, last, value : /\ c = current[w].clock /\ last = cycleToSliderValue(current[w])
                           /\ value = last + IF back THEN -delta ELSE delta
  OBVIOUS
<1>3. /\ state = "TRACE" /\ moves < MaxMoves
      /\ value \in 0..(MaxCycle * Divisions(c)) /\ setFrame(w, value)
  BY <1>1, <1>2
<1>4. current[w] \in OnSlider /\ ClockAt(c) /\ last \in Nat /\ delta \in Nat
  BY <1>1, <1>2, SliderValue, ClockSizesAssumption DEF WindowTypes
<1>5. PICK e \in {1, 2} : e = Divisions(c)
  BY <1>4, ClockFacts
<1>6. value \in Nat /\ value <= MaxCycle * Divisions(c)
  BY <1>3, <1>5, ClockSizesAssumption
<1>7. PICK x \in OnSlider : /\ x = sliderValueToCycle(c, value) /\ x.clock = c
                            /\ value = x.cycle * e + x.division /\ (e = 1 => x.division = 0)
  <2>1. PICK x : x = sliderValueToCycle(c, value)
    OBVIOUS
  <2>2. x \in OnSlider /\ x \in CycleOf(c) /\ value = x.cycle * e + x.division
        /\ (e = 1 => x.division = 0)
    BY <1>4, <1>5, <1>6, <2>1, SliderFacts
  <2>3. QED
    BY <2>1, <2>2 DEF CycleOf
<1>8. PICK a \in Nat : a = Abs(value - last) /\ a = IF value < last THEN last - value ELSE value - last
  <2>1. PICK m \in Int : m = value - last /\ (m < 0 <=> value < last) /\ -m = last - value
    BY <1>4, <1>6
  <2>2. PICK a : a = Abs(m)
    OBVIOUS
  <2>3. a = IF m < 0 THEN -m ELSE m
    BY <2>2 DEF Abs
  <2>4. a \in Nat
    BY <2>1, <2>3
  <2>5. QED
    BY <2>1, <2>2, <2>3, <2>4
<1>9. PICK d \in AnyCycle : /\ d = sliderValueToCycle(c, a) /\ d.clock = c
                            /\ a = d.cycle * e + d.division /\ (e = 1 => d.division = 0)
  BY <1>4, <1>5, <1>8, SliderFacts DEF CycleOf
<1>10. PICK diff \in AnyCycle :
          /\ diff = IF value < last THEN Negative(d) ELSE d
          /\ diff.clock = c /\ (e = 1 => diff.division = 0)
          /\ last + (diff.cycle * e + diff.division) = value
  <2>1. d.cycle \in Int /\ d.division \in Int /\ d.cycle * e \in Int
    BY <1>5 DEF AnyCycle
  <2>2. PICK p \in Int, q \in Int : p = d.cycle * e /\ q = d.division /\ a = p + q
    BY <1>9, <2>1
  <2>3. PICK g : g = IF value < last THEN Negative(d) ELSE d
    OBVIOUS
  <2> DEFINE P == /\ g \in AnyCycle /\ g.clock = c /\ (e = 1 => g.division = 0)
                  /\ last + (g.cycle * e + g.division) = value
  <2>4. ASSUME value < last PROVE P
    <3>1. a = last - value
      BY <1>8, <2>4
    <3>2. PICK f : f = g /\ f = Negative(d)
      BY <2>4, <2>3
    <3>3. /\ f \in AnyCycle /\ f.clock = c
          /\ f.cycle = -d.cycle /\ f.division = -d.division
      BY <1>9, <3>2, NegativeFacts
    <3>4. f.cycle * e = -(d.cycle * e)
      BY <1>5, <2>1, <3>3
    <3>5. QED
      <4>1. last + (f.cycle * e + f.division) = value /\ (e = 1 => f.division = 0)
        <5>1. f.cycle * e = -p /\ f.division = -q /\ (e = 1 => f.division = 0)
          BY <1>9, <2>2, <3>3, <3>4
        <5>2. last + ((-p) + (-q)) = value
          BY <1>4, <1>6, <2>2, <3>1
        <5>3. QED
          BY <5>1, <5>2
      <4>2. QED
        BY <3>2, <3>3, <4>1
  <2>5. ASSUME ~(value < last) PROVE P
    <3>1. a = value - last
      BY <1>8, <2>5
    <3>2. last + (d.cycle * e + d.division) = value
      <4>1. last + (p + q) = value
        BY <1>4, <1>6, <2>2, <3>1
      <4>2. QED
        BY <2>2, <4>1
    <3>3. QED
      BY <1>9, <2>5, <2>3, <3>2
  <2>6. QED
    BY <2>4, <2>5, <2>3
<1>11. PICK ps : ps = toPs(diff)
  OBVIOUS
<1>12. ps \in Int
  BY <1>4, <1>10, <1>11, toPsType
<1>13. /\ moves' = moves + 1 /\ moved' = [v \in Windows |-> moved[v] + ps]
       /\ attendCycleChanged(3 - w, [current EXCEPT ![w] = x], ps) /\ UNCHANGED clockVars
  BY <1>2, <1>3, <1>7, <1>8, <1>9, <1>10, <1>11 DEF setFrame
<1>14. moves' \in 0..MaxMoves
  BY <1>3, <1>13, ClockSizesAssumption DEF WindowTypes
<1>15. Dragged(w, x, ps)
  <2>1. /\ cycleToSliderValue(current[w]) + diff.cycle * Divisions(x.clock) + diff.division
              = x.cycle * Divisions(x.clock) + x.division
    <3>1. diff.cycle * e \in Int /\ diff.division \in Int
      BY <1>5, <1>10 DEF AnyCycle
    <3>2. QED
      BY <1>2, <1>4, <1>5, <1>7, <1>10, <3>1
  <2>2. QED
    BY <1>2, <1>3, <1>5, <1>7, <1>10, <1>11, <1>12, <1>13, <1>14, <2>1 DEF Dragged
<1>16. QED
  BY <1>15

(* The windows after a drag of w to x.                                     *)
LEMMA DraggedWindows ==
    ASSUME ClockTypes, WindowTypes, NEW w, NEW x, NEW ps, Dragged(w, x, ps)
    PROVE  /\ [current EXCEPT ![w] = x] \in [Windows -> OnSlider] /\ 3 - w \in Windows
           /\ \A v \in Windows : /\ ClockAt(current[v].clock)
                                 /\ [current EXCEPT ![w] = x][v].clock = current[v].clock
                                 /\ v # w => v = 3 - w /\ [current EXCEPT ![w] = x][v] = current[v]
           /\ [current EXCEPT ![w] = x][w] = x /\ w # 3 - w
<1>1. /\ w \in Windows /\ x \in OnSlider /\ x.clock = current[w].clock
      /\ current \in [Windows -> OnSlider] /\ \A v \in Windows : ClockAt(current[v].clock)
  BY DEF Dragged, WindowTypes
<1>2. 3 - w \in Windows /\ w # 3 - w /\ \A v \in Windows : v # w => v = 3 - w
  BY <1>1 DEF Windows
<1>3. QED
  BY <1>1, <1>2

LEMMA DragWindowTypes == ASSUME ClockTypes, WindowTypes, Drag PROVE WindowTypes'
<1>1. PICK w, x, ps : Dragged(w, x, ps)
  BY DragIsDragged
<1>2. PICK cs \in [Windows -> OnSlider] : cs = [current EXCEPT ![w] = x]
  BY <1>1, DraggedWindows
<1>3. PICK v \in Windows : v = 3 - w
  BY <1>1, DraggedWindows
<1>4. \A u \in Windows : cs[u].clock = current[u].clock /\ ClockAt(current[u].clock)
  BY <1>1, <1>2, DraggedWindows
<1>5. PICK c, disp, acc, sum : /\ c = cs[v].clock /\ disp = displacement[v] + ps
                               /\ acc = AccCycle(c, disp) /\ sum = toPs(cs[v]) + toPs(acc)
  OBVIOUS
<1>6. /\ ps \in Int /\ attendCycleChanged(v, cs, ps) /\ ClockAt(cs[v].clock)
      /\ displacement \in [Windows -> Int] /\ strayed \in [Windows -> BOOLEAN]
  BY <1>1, <1>2, <1>3, <1>4 DEF Dragged, WindowTypes
<1>7. /\ displacement' \in [Windows -> Int] /\ current' \in [Windows -> OnSlider]
      /\ \A u \in Windows : current'[u].clock = cs[u].clock
      /\ strayed' \in [Windows -> BOOLEAN]
  BY <1>5, <1>6, AttendFacts
<1>8. moves' \in 0..MaxMoves /\ moved' \in [Windows -> Int]
  BY <1>1 DEF Dragged, WindowTypes
<1>9. state = "TRACE" /\ state' = state /\ clocks' = clocks
  BY <1>1 DEF Dragged, clockVars
<1>10. \A u \in Windows : ClockAt(current[u].clock)'
  BY <1>4, <1>7, <1>9 DEF ClockAt
<1>11. QED
  BY <1>7, <1>8, <1>9, <1>10 DEF WindowTypes

LEMMA InitWindowTypes == Init => WindowTypes
<1>1. Start(0) \in OnSlider
  BY ClockSizesAssumption DEF Start, OnSlider
<1>2. QED
  BY <1>1, ClockSizesAssumption DEF Init, WindowTypes

LEMMA StartWindowTypes ==
    ASSUME IInv, ClocksOK, WindowTypes, StartActivity
    PROVE  WindowTypes'
<1>1. PICK n \in Nat \ {0} : n = Len(clocks') /\ DOMAIN clocks' = 1..n
  BY StartClocksOK
<1>2. current' = [w \in Windows |-> Start(IF w = 1 THEN 0 ELSE n - 1)]
  BY <1>1 DEF StartActivity
<1>3. \A w \in Windows : /\ current'[w] \in OnSlider
                        /\ current'[w].clock \in Nat /\ current'[w].clock + 1 \in 1..n
  <2>1. ASSUME NEW w \in Windows
        PROVE  /\ current'[w] \in OnSlider
               /\ current'[w].clock \in Nat /\ current'[w].clock + 1 \in 1..n
    <3>1. PICK c \in Nat : c = (IF w = 1 THEN 0 ELSE n - 1) /\ c + 1 \in 1..n
      OBVIOUS
    <3>2. current'[w] = [clock |-> c, cycle |-> 0, division |-> 0]
      BY <1>2, <3>1 DEF Start
    <3>3. QED
      BY <3>1, <3>2, ClockSizesAssumption DEF OnSlider
  <2>2. QED
    BY <2>1
<1>4. current' \in [Windows -> OnSlider]
  BY <1>2, <1>3
<1>5. \A w \in Windows : ClockAt(current[w].clock)'
  BY <1>1, <1>3 DEF ClockAt
<1>6. /\ state = "GRAPH" /\ state' = "TRACE"
      /\ UNCHANGED <<displacement, moved, strayed, moves>>
  BY DEF StartActivity
<1>7. QED
  BY <1>4, <1>5, <1>6 DEF WindowTypes

LEMMA NextWindowTypes ==
    ASSUME IInv, ClocksOK, WindowTypes, [Next]_vars
    PROVE  WindowTypes'
<1>1. ASSUME NEW id \in 0..MaxClocks, NEW freq \in Freqs, NEW divisions \in 0..2,
             NEW skew \in Skews, NewClock(id, freq, divisions, skew)
      PROVE  WindowTypes'
  <2>1. UNCHANGED windowVars /\ (state' = state \/ state' = "ERROR")
    BY <1>1, Zenon DEF NewClock
  <2>2. state' = "TRACE" => state = "TRACE" /\ clocks' = clocks
    BY <1>1, <2>1 DEF NewClock
  <2>3. state' = "GRAPH" => state = "GRAPH"
    BY <2>1
  <2>4. QED
    BY <2>1, <2>2, <2>3 DEF WindowTypes, windowVars, ClockAt
<1>2. CASE StartActivity
  BY <1>2, StartWindowTypes
<1>3. CASE Drag
  BY <1>3, DragWindowTypes DEF ClocksOK
<1>4. CASE UNCHANGED vars
  BY <1>4 DEF vars, clockVars, windowVars, WindowTypes, ClockAt
<1>5. QED
  BY <1>1, <1>2, <1>3, <1>4 DEF Next

LEMMA SpecWindowTypes == Spec => []WindowTypes
BY InitWindowTypes, NextWindowTypes, SpecIInv, SpecClocksOK, PTL DEF Spec

(* The states and the values are those they are meant to be, and a window  *)
(* stays on its slider, whatever it is told to follow (TypeOK).            *)
THEOREM SpecTypeOK == Spec => []TypeOK
<1>1. ASSUME IInv, ClocksOK, WindowTypes PROVE TypeOK
  <2>1. \A k \in DOMAIN clocks : clocks[k].internal \in DOMAIN internals
    BY <1>1 DEF IInv, InternalsOK
  <2>2. \A k \in DOMAIN clocks :
           clocks[k].freq \in Freqs \cup {100} /\ clocks[k].divisions \in {1, 2}
    BY <1>1 DEF ClocksOK, ClockTypes
  <2>3. \A w \in Windows :
           /\ current[w].cycle \in 0..MaxCycle /\ current[w].division \in {0, 1}
           /\ displacement[w] \in Int /\ strayed[w] \in BOOLEAN
    BY <1>1 DEF WindowTypes, OnSlider
  <2>4. state \in {"GRAPH", "TRACE", "ERROR"} /\ moves \in 0..MaxMoves
    BY <1>1 DEF ClocksOK, States, WindowTypes
  <2>5. QED
    BY <2>1, <2>2, <2>3, <2>4 DEF TypeOK
<1>2. QED
  BY <1>1, SpecIInv, SpecClocksOK, SpecWindowTypes, PTL

-----------------------------------------------------------------------------
(* Sums of a clock's own cycles.                                           *)

CycleAt(c, n, d) == [clock |-> c, cycle |-> n, division |-> d]

LEMMA CyclesAreCycles ==
    ASSUME ClockTypes, DOMAIN clocks \subseteq Nat \ {0}, NEW x \in Cycles
    PROVE  /\ ClockAt(x.clock) /\ x \in AnyCycle
           /\ x.cycle \in Nat /\ x.division \in 0..(Divisions(x.clock) - 1)
           /\ x.division \in {0, 1}
<1>1. PICK k \in DOMAIN clocks :
          x \in [clock : {k - 1}, cycle : 0..2, division : 0..(clocks[k].divisions - 1)]
  BY DEF Cycles
<1>2. /\ x.clock = k - 1 /\ x.cycle \in 0..2 /\ x.division \in 0..(clocks[k].divisions - 1)
      /\ k \in Nat \ {0}
  BY <1>1
<1>3. ClockAt(x.clock) /\ Divisions(x.clock) = clocks[k].divisions /\ x.clock \in Nat
  BY <1>2 DEF ClockAt, Divisions, getClockDomain
<1>4. clocks[k].divisions \in {1, 2}
  BY DEF ClockTypes
<1>5. x.cycle \in Nat /\ x.division \in {0, 1}
  BY <1>2, <1>4
<1>6. x = CycleAt(x.clock, x.cycle, x.division)
  BY <1>1 DEF CycleAt
<1>7. x \in AnyCycle
  BY <1>3, <1>5, <1>6 DEF AnyCycle, CycleAt
<1>8. QED
  BY <1>2, <1>3, <1>5, <1>7

IsCycle(z) == z = [k \in {"clock", "cycle", "division"} |-> z[k]]

LEMMA CyclesByFields ==
    ASSUME NEW z, IsCycle(z)
    PROVE  z = CycleAt(z.clock, z.cycle, z.division)
BY DEF IsCycle, CycleAt

LEMMA CarriedCycle ==
    ASSUME NEW x \in AnyCycle, NEW e \in Int, e = Divisions(x.clock)
    PROVE  Carried(x) = IF x.division >= e
                        THEN CycleAt(x.clock, x.cycle + 1, x.division - e)
                        ELSE IF x.division < 0
                        THEN CycleAt(x.clock, x.cycle - 1, x.division + e) ELSE x
<1>1. PICK u : u = [x EXCEPT !.cycle = @ + 1, !.division = @ - e]
  OBVIOUS
<1>2. IsCycle(u) /\ u.clock = x.clock /\ u.cycle = x.cycle + 1 /\ u.division = x.division - e
  BY <1>1 DEF AnyCycle, IsCycle
<1>3. PICK v : v = [x EXCEPT !.cycle = @ - 1, !.division = @ + e]
  OBVIOUS
<1>4. IsCycle(v) /\ v.clock = x.clock /\ v.cycle = x.cycle - 1 /\ v.division = x.division + e
  BY <1>3 DEF AnyCycle, IsCycle
<1>5. Carried(x) = IF x.division >= e THEN u ELSE IF x.division < 0 THEN v ELSE x
  BY <1>1, <1>3, Zenon DEF Carried, Divisions
<1>6. QED
  BY <1>2, <1>4, <1>5, CyclesByFields

LEMMA SumUndone ==
    ASSUME ClockTypes, DOMAIN clocks \subseteq Nat \ {0}, NEW x \in Cycles, NEW y \in Cycles,
           x.clock = y.clock
    PROVE  /\ Minus(Plus(x, y), y) = x /\ Plus(x, y).division < Divisions(x.clock)
           /\ Divisions(x.clock) = 2 => Phases(Plus(x, y)) = Phases(x) + Phases(y)
<1>1. PICK c \in Nat, e \in {1, 2} : c = x.clock /\ e = Divisions(c)
  BY CyclesAreCycles, ClockFacts DEF AnyCycle
<1>2. PICK a \in Nat, p \in 0..(e - 1) : x = CycleAt(c, a, p) /\ a = x.cycle /\ p = x.division
  BY <1>1, CyclesAreCycles DEF AnyCycle, CycleAt
<1>3. PICK b \in Nat, q \in 0..(e - 1) : y = CycleAt(c, b, q) /\ b = y.cycle /\ q = y.division
  BY <1>1, CyclesAreCycles DEF AnyCycle, CycleAt
<1>4. x \in AnyCycle /\ y \in AnyCycle /\ y.clock = c
  BY <1>1, CyclesAreCycles
<1>5. PICK s \in Nat, r \in 0..(e - 1) :
          /\ s = (IF p + q >= e THEN a + b + 1 ELSE a + b)
          /\ r = (IF p + q >= e THEN p + q - e ELSE p + q)
  <2>1. PICK s : s = (IF p + q >= e THEN a + b + 1 ELSE a + b)
    OBVIOUS
  <2>2. PICK r : r = (IF p + q >= e THEN p + q - e ELSE p + q)
    OBVIOUS
  <2>3. s \in Nat
    BY <2>1
  <2>4. r \in 0..(e - 1)
    BY <2>2
  <2>5. QED
    BY <2>1, <2>2, <2>3, <2>4
<1>6. PICK u : u = [x EXCEPT !.cycle = @ + y.cycle, !.division = @ + y.division]
  OBVIOUS
<1>7. PICK sum \in AnyCycle :
          sum = Plus(x, y) /\ sum.clock = c /\ sum.cycle = s /\ sum.division = r
  <2>1. IsCycle(u) /\ u.clock = c /\ u.cycle = a + b /\ u.division = p + q
    BY <1>1, <1>2, <1>3, <1>4, <1>6 DEF AnyCycle, IsCycle
  <2>2. u = CycleAt(c, a + b, p + q) /\ a + b \in Int /\ p + q \in Int
    BY <2>1, CyclesByFields
  <2>3. u \in AnyCycle
    BY <2>2 DEF CycleAt, AnyCycle
  <2>4. Carried(u) = IF p + q >= e THEN CycleAt(c, a + b + 1, p + q - e)
                     ELSE IF p + q < 0 THEN CycleAt(c, a + b - 1, p + q + e) ELSE u
    BY <1>1, <2>1, <2>3, CarriedCycle
  <2>5. Carried(u) = CycleAt(c, s, r)
    BY <1>5, <2>2, <2>4
  <2>6. Plus(x, y) = Carried(u)
    BY <1>1, <1>4, <1>6 DEF Plus
  <2>7. CycleAt(c, s, r) \in AnyCycle /\ CycleAt(c, s, r).clock = c
        /\ CycleAt(c, s, r).cycle = s /\ CycleAt(c, s, r).division = r
    BY DEF CycleAt, AnyCycle
  <2>8. QED
    BY <2>5, <2>6, <2>7
<1>8. Minus(sum, y) = x
  <2>1. PICK v : v = [sum EXCEPT !.cycle = @ - y.cycle, !.division = @ - y.division]
    OBVIOUS
  <2>2. IsCycle(v) /\ v.clock = c /\ v.cycle = s - b /\ v.division = r - q
    BY <1>3, <1>4, <1>7, <2>1 DEF AnyCycle, IsCycle
  <2>3. v = CycleAt(c, s - b, r - q) /\ s - b \in Int /\ r - q \in Int
    BY <2>2, CyclesByFields
  <2>4. v \in AnyCycle
    BY <2>3 DEF CycleAt, AnyCycle
  <2>5. Carried(v) = IF r - q >= e THEN CycleAt(c, s - b + 1, r - q - e)
                     ELSE IF r - q < 0 THEN CycleAt(c, s - b - 1, r - q + e) ELSE v
    BY <1>1, <2>2, <2>4, CarriedCycle
  <2>6. Carried(v) = x
    <3>1. CASE p + q >= e
      <4>1. r - q < 0 /\ ~(r - q >= e) /\ s - b - 1 = a /\ r - q + e = p
        BY <1>5, <3>1
      <4>2. QED
        BY <1>2, <2>5, <4>1
    <3>2. CASE ~(p + q >= e)
      <4>1. ~(r - q < 0) /\ ~(r - q >= e) /\ s - b = a /\ r - q = p
        BY <1>5, <3>2
      <4>2. QED
        BY <1>2, <2>3, <2>5, <4>1
    <3>3. QED
      BY <3>1, <3>2
  <2>7. Minus(sum, y) = IF Carried(v).cycle < 0 THEN Start(sum.clock) ELSE Carried(v)
    <3>1. sum.clock = y.clock
      BY <1>4, <1>7
    <3>2. QED
      BY <2>1, <3>1, Zenon DEF Minus
  <2>8. QED
    <3>1. ~(x.cycle < 0)
      BY <1>2
    <3>2. ~(Carried(v).cycle < 0)
      BY <2>6, <3>1
    <3>3. QED
      BY <2>6, <2>7, <3>2, Zenon
<1>9. e = 2 => 2 * s + r = (2 * a + p) + (2 * b + q)
  BY <1>5
<1>10. Phases(sum) = 2 * s + r /\ Phases(x) = 2 * a + p /\ Phases(y) = 2 * b + q
  BY <1>2, <1>3, <1>7 DEF Phases
<1>11. r < e
  OBVIOUS
<1>12. QED
  BY <1>1, <1>7, <1>8, <1>9, <1>10, <1>11

(* Within a clock a difference undoes a sum, over the carry of a division  *)
(* too (operator+ and operator- of CYCLE).                                 *)
THEOREM SpecSumsUndone == Spec => []SumsUndone
<1>1. ASSUME IInv, ClocksOK PROVE SumsUndone
  <2>1. DOMAIN clocks \subseteq Nat \ {0}
    BY <1>1 DEF IInv, TablesOK
  <2>2. ASSUME NEW x \in Cycles, NEW y \in Cycles, x.clock = y.clock
        PROVE  /\ Minus(Plus(x, y), y) = x /\ Plus(x, y).division < Divisions(x.clock)
               /\ Divisions(x.clock) = 2 => Phases(Plus(x, y)) = Phases(x) + Phases(y)
    BY <1>1, <2>1, <2>2, SumUndone DEF ClocksOK
  <2>3. QED
    BY <2>2, Zenon DEF SumsUndone
<1>2. QED
  BY <1>1, SpecIInv, SpecClocksOK, PTL

-----------------------------------------------------------------------------
(* The windows follow: picoseconds of whole phases are exact.              *)

WholePhases(c) == 50000 % getClockDomain(c).freq = 0
PhasePs(c) == 50000 \div getClockDomain(c).freq

LEMMA ProductOrder ==
    ASSUME NEW a \in Int, NEW b \in Int, NEW c \in Int
    PROVE  a * (b * c) = c * (a * b) /\ (-a) * b = -(a * b)
OBVIOUS

LEMMA SumProduct ==
    ASSUME NEW a \in Int, NEW b \in Int, NEW c \in Int
    PROVE  (a + b) * c = a * c + b * c /\ a * c \in Int
OBVIOUS

LEMMA PhasePsFacts ==
    ASSUME ClockTypes, NEW c, ClockAt(c), WholePhases(c)
    PROVE  PhasePs(c) \in Nat \ {0} /\ PhasePs(c) * getClockDomain(c).freq = 50000
<1>1. PICK f \in Nat \ {0} : f = getClockDomain(c).freq
  BY ClockFacts
<1>2. 50000 \div f \in Nat /\ 50000 = f * (50000 \div f) + (50000 % f)
  BY Division
<1>3. PICK u \in Nat : u = 50000 \div f /\ 50000 = f * u
  BY <1>1, <1>2 DEF WholePhases
<1>4. u # 0 /\ u * f = 50000
  BY <1>3
<1>5. QED
  BY <1>1, <1>3, <1>4 DEF PhasePs

LEMMA toPsWhole ==
    ASSUME ClockTypes, NEW x \in AnyCycle, ClockAt(x.clock), WholePhases(x.clock)
    PROVE  Phases(x) \in Int /\ toPs(x) = Phases(x) * PhasePs(x.clock)
<1>1. PICK f \in Nat \ {0}, u \in Nat \ {0} :
          f = getClockDomain(x.clock).freq /\ u = PhasePs(x.clock) /\ u * f = 50000
  BY ClockFacts, PhasePsFacts
<1>2. PICK p \in Int : p = Phases(x)
  BY DEF Phases, AnyCycle
<1>3. PICK n : n = x.cycle * 100000 + x.division * 50000
  OBVIOUS
<1>4. n = p * 50000
  BY <1>2, <1>3 DEF Phases, AnyCycle
<1>5. n = f * (p * u)
  BY <1>1, <1>4, ProductOrder
<1>6. PICK q \in Int : q = p * u /\ n = f * q /\ -n = f * (-q) /\ n \in Int
  BY <1>5
<1>7. toPs(x) = IF n >= 0 THEN n \div f ELSE -((-n) \div f)
  BY <1>1, <1>3 DEF toPs
<1>8. n \div f = q
  <2>1. n = f * q + 0 /\ 0 \in 0..(f - 1)
    BY <1>6
  <2>2. QED
    BY <1>6, <2>1, DivisionUnique
<1>9. (-n) \div f = -q
  <2>1. -n = f * (-q) + 0 /\ 0 \in 0..(f - 1) /\ -n \in Int /\ -q \in Int
    BY <1>6
  <2>2. QED
    BY <2>1, DivisionUnique
<1>10. toPs(x) = q
  <2>1. -(-q) = q
    BY <1>6
  <2>2. QED
    BY <1>7, <1>8, <1>9, <2>1
<1>11. PhasePs(x.clock) = u /\ Phases(x) = p
  BY <1>1, <1>2
<1>12. toPs(x) = Phases(x) * PhasePs(x.clock)
  BY <1>6, <1>10, <1>11
<1>13. QED
  BY <1>2, <1>12

LEMMA fromPsWhole ==
    ASSUME ClockTypes, NEW c, ClockAt(c), WholePhases(c), NEW p \in Nat
    PROVE  /\ fromPs(c, p * PhasePs(c)) = CycleAt(c, p \div 2, p % 2)
           /\ CycleAt(c, p \div 2, p % 2) \in CycleOf(c)
           /\ CycleAt(c, p \div 2, p % 2) \in AnyCycle
           /\ toPs(CycleAt(c, p \div 2, p % 2)) = p * PhasePs(c)
<1>1. PICK f \in Nat \ {0}, u \in Nat \ {0} :
          f = getClockDomain(c).freq /\ u = PhasePs(c) /\ u * f = 50000
  BY ClockFacts, PhasePsFacts
<1>2. (p * u) * f = p * 50000
  BY <1>1, ProductOrder
<1>3. /\ (p * 50000) \div 100000 = p \div 2
      /\ ((p * 50000) % 100000 >= 50000) <=> (p % 2 = 1)
      /\ p \div 2 \in Nat /\ p % 2 \in {0, 1} /\ p = 2 * (p \div 2) + (p % 2)
  OBVIOUS
<1>4. fromPs(c, p * u) = CycleAt(c, p \div 2, p % 2)
  <2>1. PICK n : n = (p * u) * f
    OBVIOUS
  <2>2. fromPs(c, p * u) = [clock |-> c, cycle |-> n \div 100000,
                            division |-> IF n % 100000 >= 50000 THEN 1 ELSE 0]
    BY <1>1, <2>1 DEF fromPs
  <2>3. (IF n % 100000 >= 50000 THEN 1 ELSE 0) = p % 2
    BY <1>2, <1>3, <2>1
  <2>4. QED
    BY <1>2, <1>3, <2>1, <2>2, <2>3 DEF CycleAt
<1>5. PICK x : x = CycleAt(c, p \div 2, p % 2)
  OBVIOUS
<1>6. c \in Nat
  BY DEF ClockAt
<1>7. x \in CycleOf(c) /\ x \in AnyCycle /\ x.clock = c
  BY <1>3, <1>5, <1>6 DEF CycleAt, CycleOf, AnyCycle
<1>8. Phases(x) = p
  BY <1>3, <1>5 DEF Phases, CycleAt
<1>9. toPs(x) = p * u
  BY <1>1, <1>7, <1>8, toPsWhole
<1>10. QED
  BY <1>1, <1>4, <1>5, <1>7, <1>9

(* What Follows needs to be inductive: a clock of one division has no      *)
(* other.                                                                  *)
FollowsIn(w) ==
    state = "TRACE" /\ ~strayed[w] /\ WholePhases(current[w].clock) =>
        /\ toPs(current[w]) + displacement[w] = moved[w]
        /\ Divisions(current[w].clock) = 1 => current[w].division = 0

FollowsOK == \A w \in Windows : FollowsIn(w)

LEMMA InitFollows == Init => FollowsOK
BY DEF Init, FollowsOK, FollowsIn

LEMMA StartFollows ==
    ASSUME WindowTypes, WindowTypes', ClockTypes', StartActivity
    PROVE  FollowsOK'
<1>1. SUFFICES ASSUME NEW w \in Windows PROVE FollowsIn(w)'
  BY DEF FollowsOK
<1>2. state = "GRAPH" /\ UNCHANGED <<displacement, moved>>
  BY DEF StartActivity
<1>3. displacement'[w] = 0 /\ moved'[w] = 0
  BY <1>1, <1>2 DEF WindowTypes
<1>4. PICK c : current'[w] = Start(c)
  BY <1>1 DEF StartActivity
<1>5. PICK x : x = current'[w]
  OBVIOUS
<1>6. x.clock = c /\ x.cycle = 0 /\ x.division = 0
  BY <1>4, <1>5 DEF Start
<1>7. ClockAt(c)'
  BY <1>1, <1>5, <1>6 DEF WindowTypes, StartActivity
<1>8. PICK f \in Nat \ {0} : f = (getClockDomain(c).freq)'
  <2>1. PICK k : k = c + 1 /\ k \in DOMAIN clocks'
    BY <1>7 DEF ClockAt
  <2>2. clocks'[k].freq \in (Freqs \cup {100}) \ {0}
    BY <2>1 DEF ClockTypes
  <2>3. (Freqs \cup {100}) \ {0} \subseteq Nat \ {0}
    BY ClockSizesAssumption
  <2>4. QED
    BY <2>1, <2>2, <2>3 DEF getClockDomain
<1>9. toPs(x)' = 0 \div f
  <2>1. x.cycle * 100000 + x.division * 50000 = 0
    BY <1>6
  <2>2. QED
    BY <1>6, <1>8, <2>1 DEF toPs
<1>10. 0 \div f = 0
  OBVIOUS
<1>11. toPs(current[w])' + displacement'[w] = moved'[w]
  BY <1>3, <1>5, <1>9, <1>10
<1>12. QED
  BY <1>5, <1>6, <1>11 DEF FollowsIn

(* Window w has gone from x to y, as far as its displacement has shrunk.   *)
Followed(w, x, y, ps) ==
    /\ ~strayed[w] /\ y.clock = x.clock
    /\ toPs(y) + displacement'[w] = toPs(x) + displacement[w] + ps
    /\ Divisions(y.clock) = 1 => y.division = 0

(* So has one that attends a change and meets no end of its slider.        *)
LEMMA AttendFollows ==
    ASSUME ClockTypes, NEW w \in Windows, NEW cs \in [Windows -> OnSlider], NEW ps \in Int,
           ClockAt(cs[w].clock), displacement \in [Windows -> Int],
           strayed \in [Windows -> BOOLEAN], attendCycleChanged(w, cs, ps),
           WholePhases(cs[w].clock), ~strayed'[w],
           Divisions(cs[w].clock) = 1 => cs[w].division = 0, NEW z, z = current'[w]
    PROVE  Followed(w, cs[w], z, ps)
<1>1. PICK c, disp, acc, sum : /\ c = cs[w].clock /\ disp = displacement[w] + ps
                               /\ acc = AccCycle(c, disp) /\ sum = toPs(cs[w]) + toPs(acc)
  OBVIOUS
<1>2. /\ disp \in Int /\ acc \in AnyCycle /\ acc.clock = c /\ sum \in Int
      /\ toPs(acc) \in Int /\ toPs(cs[w]) \in Nat
      /\ displacement' = [displacement EXCEPT ![w] = disp - toPs(acc)]
      /\ sum >= 0 => current'[w] = Clamped(fromPs(c, toPs(fromPs(c, sum))))
      /\ strayed' = [strayed EXCEPT ![w] = @ \/ sum < 0 \/ fromPs(c, sum).cycle > MaxCycle]
  BY <1>1, AttendFacts
<1>3. ~strayed[w] /\ sum >= 0 /\ ~(fromPs(c, sum).cycle > MaxCycle)
  <2>1. ~(strayed[w] \/ sum < 0 \/ fromPs(c, sum).cycle > MaxCycle)
    BY <1>2
  <2>2. QED
    BY <1>2, <2>1
<1>4. ClockAt(c) /\ c \in Nat /\ WholePhases(c)
  BY <1>1 DEF ClockAt
<1>5. cs[w] \in OnSlider /\ cs[w] \in AnyCycle
  BY ClockSizesAssumption DEF OnSlider, AnyCycle
<1>6. PICK u \in Nat \ {0} : u = PhasePs(c)
  BY <1>4, PhasePsFacts
<1>7. PICK a \in Int, b \in Int : /\ a = Phases(cs[w]) /\ toPs(cs[w]) = a * u
                                  /\ b = Phases(acc) /\ toPs(acc) = b * u
  BY <1>1, <1>2, <1>4, <1>5, <1>6, toPsWhole
<1>8. sum = (a + b) * u
  BY <1>1, <1>7, SumProduct
<1>9. PICK p \in Nat : p = a + b
  <2>1. (a + b) * u >= 0
    BY <1>3, <1>8
  <2>2. a + b >= 0
    BY <2>1
  <2>3. QED
    BY <2>2
<1>10. PICK y : y = CycleAt(c, p \div 2, p % 2)
  OBVIOUS
<1>11. fromPs(c, sum) = y /\ y \in CycleOf(c) /\ toPs(y) = sum
  BY <1>4, <1>6, <1>8, <1>9, <1>10, fromPsWhole
<1>12. y.cycle <= MaxCycle
  <2>1. y.cycle \in Nat /\ ~(y.cycle > MaxCycle) /\ MaxCycle \in Nat
    BY <1>3, <1>11, ClockSizesAssumption DEF CycleOf
  <2>2. QED
    BY <2>1
<1>13. Clamped(y) = y
  BY <1>4, <1>11, <1>12, ClampedFacts
<1>14. current'[w] = y
  <2>1. current'[w] = Clamped(fromPs(c, toPs(fromPs(c, sum))))
    BY <1>2, <1>3
  <2>2. QED
    BY <1>11, <1>13, <2>1, Zenon
<1>15. toPs(y) + displacement'[w] = toPs(cs[w]) + displacement[w] + ps
  <2>1. displacement'[w] = disp - toPs(acc) /\ displacement[w] \in Int
    BY <1>2
  <2>2. PICK m \in Int, n \in Int : m = toPs(acc) /\ n = toPs(cs[w])
    BY <1>2
  <2>3. toPs(y) = n + m
    BY <1>1, <1>11, <2>2
  <2>4. (n + m) + (disp - m) = n + displacement[w] + ps
    BY <1>1, <2>1, <2>2
  <2>5. QED
    BY <2>1, <2>2, <2>3, <2>4
<1>16. y.clock = c /\ y.division = p % 2
  BY <1>10 DEF CycleAt
<1>17. Divisions(c) = 1 => y.division = 0
  <2>1. ASSUME Divisions(c) = 1 PROVE y.division = 0
    <3>1. cs[w].division = 0 /\ acc.division = 0
      BY <1>1, <1>2, <1>4, <2>1, AccCycleType
    <3>2. a = 2 * cs[w].cycle /\ cs[w].cycle \in Int /\ b = 2 * acc.cycle /\ acc.cycle \in Int
      BY <1>2, <1>5, <1>7, <3>1 DEF Phases, AnyCycle
    <3>3. p % 2 = 0
      BY <1>9, <3>2
    <3>4. QED
      BY <1>16, <3>3
  <2>2. QED
    BY <2>1
<1>18. QED
  BY <1>1, <1>3, <1>14, <1>15, <1>16, <1>17 DEF Followed

(* The window that is dragged has gone by what the others are told.        *)
LEMMA DraggedFollows ==
    ASSUME ClockTypes, WindowTypes, NEW w, NEW x, NEW ps, Dragged(w, x, ps),
           FollowsIn(w), ~strayed[w], WholePhases(x.clock)
    PROVE  /\ toPs(x) + displacement[w] = moved[w] + ps
           /\ Divisions(x.clock) = 1 => x.division = 0
<1>1. PICK c : c = x.clock
  OBVIOUS
<1>2. /\ state = "TRACE" /\ w \in Windows /\ x \in OnSlider /\ c = current[w].clock
      /\ ps \in Int
  BY <1>1 DEF Dragged
<1>3. PICK diff \in AnyCycle :
          /\ ps = toPs(diff) /\ diff.clock = c
          /\ cycleToSliderValue(current[w]) + diff.cycle * Divisions(c) + diff.division
                = x.cycle * Divisions(c) + x.division
          /\ Divisions(c) = 1 => x.division = 0 /\ diff.division = 0
  BY <1>1 DEF Dragged
<1>4. PICK y \in AnyCycle : y = current[w] /\ y.clock = c /\ ClockAt(c) /\ y \in OnSlider
  BY <1>2, ClockSizesAssumption DEF WindowTypes, OnSlider, AnyCycle
<1>5. x \in AnyCycle
  BY <1>2, ClockSizesAssumption DEF OnSlider, AnyCycle
<1>6. toPs(y) + displacement[w] = moved[w] /\ (Divisions(c) = 1 => y.division = 0)
  BY <1>1, <1>2, <1>4 DEF FollowsIn
<1>7. PICK e \in {1, 2} : e = Divisions(c)
  BY <1>4, ClockFacts
<1>8. Phases(y) + Phases(diff) = Phases(x)
  <2>1. /\ y.cycle \in Int /\ y.division \in Int /\ diff.cycle \in Int /\ diff.division \in Int
        /\ x.cycle \in Int /\ x.division \in Int
    BY <1>3, <1>4, <1>5 DEF AnyCycle
  <2>2. cycleToSliderValue(y) = y.cycle * e + IF e > 1 THEN y.division ELSE 0
    BY <1>4, <1>7 DEF cycleToSliderValue
  <2>3. cycleToSliderValue(y) + diff.cycle * e + diff.division = x.cycle * e + x.division
    BY <1>3, <1>4, <1>7
  <2>4. CASE e = 1
    <3>1. y.division = 0 /\ x.division = 0 /\ diff.division = 0
      BY <1>3, <1>6, <1>7, <2>4
    <3>2. y.cycle + diff.cycle = x.cycle
      BY <2>1, <2>2, <2>3, <2>4, <3>1
    <3>3. QED
      BY <2>1, <3>1, <3>2 DEF Phases
  <2>5. CASE e = 2
    BY <2>1, <2>2, <2>3, <2>5 DEF Phases
  <2>6. QED
    BY <2>4, <2>5
<1>9. PICK u \in Nat \ {0} : u = PhasePs(c)
  BY <1>1, <1>4, PhasePsFacts
<1>10. PICK a \in Int, b \in Int : /\ a = Phases(y) /\ toPs(y) = a * u
                                   /\ b = Phases(diff) /\ toPs(diff) = b * u
  BY <1>1, <1>3, <1>4, <1>9, toPsWhole
<1>11. toPs(x) = (a + b) * u
  BY <1>1, <1>4, <1>5, <1>8, <1>9, <1>10, toPsWhole
<1>12. toPs(x) = toPs(y) + ps
  BY <1>3, <1>10, <1>11, SumProduct
<1>13. toPs(x) + displacement[w] = moved[w] + ps
  <2>1. PICK m \in Int : m = toPs(y)
    BY <1>10
  <2>2. displacement[w] \in Int
    BY <1>2 DEF WindowTypes
  <2>3. m + displacement[w] = moved[w]
    BY <1>6, <2>1
  <2>4. (m + ps) + displacement[w] = (m + displacement[w]) + ps
    BY <1>2, <2>2
  <2>5. QED
    BY <1>12, <2>1, <2>3, <2>4
<1>14. QED
  BY <1>1, <1>3, <1>13

LEMMA toPsKept ==
    ASSUME clocks' = clocks, NEW x
    PROVE  toPs(x)' = toPs(x) /\ WholePhases(x.clock)' = WholePhases(x.clock)
           /\ Divisions(x.clock)' = Divisions(x.clock)
BY DEF toPs, getClockDomain, WholePhases, Divisions

LEMMA DragFollows ==
    ASSUME ClockTypes, WindowTypes, FollowsOK, Drag
    PROVE  FollowsOK'
<1>1. PICK w, x, ps : Dragged(w, x, ps)
  BY DragIsDragged
<1>2. /\ state = "TRACE" /\ w \in Windows /\ x \in OnSlider /\ x.clock = current[w].clock
      /\ ps \in Int /\ moved' = [u \in Windows |-> moved[u] + ps]
      /\ state' = state /\ clocks' = clocks
  BY <1>1 DEF Dragged, clockVars
<1>3. PICK cs \in [Windows -> OnSlider] : cs = [current EXCEPT ![w] = x]
  BY <1>1, DraggedWindows
<1>4. PICK v \in Windows : v = 3 - w
  BY <1>1, DraggedWindows
<1>5. /\ w # v /\ cs[w] = x /\ cs[v] = current[v]
      /\ \A u \in Windows : (u # w => u = v) /\ ClockAt(current[u].clock)
  BY <1>1, <1>3, <1>4, DraggedWindows
<1>6. /\ attendCycleChanged(v, cs, ps) /\ ClockAt(cs[v].clock)
      /\ displacement \in [Windows -> Int] /\ strayed \in [Windows -> BOOLEAN]
  BY <1>1, <1>3, <1>4, <1>5 DEF Dragged, WindowTypes
<1>7. PICK c, disp, acc, sum : /\ c = cs[v].clock /\ disp = displacement[v] + ps
                               /\ acc = AccCycle(c, disp) /\ sum = toPs(cs[v]) + toPs(acc)
  OBVIOUS
<1>8. /\ displacement' = [displacement EXCEPT ![v] = disp - toPs(acc)]
      /\ current'[w] = cs[w] /\ current'[v].clock = cs[v].clock
      /\ strayed' = [strayed EXCEPT ![v] = @ \/ sum < 0 \/ fromPs(c, sum).cycle > MaxCycle]
  BY <1>2, <1>5, <1>6, <1>7, AttendFacts
<1>9. FollowsIn(w)'
  <2>1. current'[w] = x /\ displacement'[w] = displacement[w] /\ strayed'[w] = strayed[w]
        /\ moved'[w] = moved[w] + ps
    BY <1>2, <1>5, <1>6, <1>8
  <2>2. SUFFICES ASSUME ~strayed'[w], WholePhases(x.clock)'
                 PROVE  /\ toPs(x)' + displacement'[w] = moved'[w]
                        /\ Divisions(x.clock)' = 1 => x.division = 0
    BY <2>1 DEF FollowsIn
  <2>3. ~strayed[w] /\ WholePhases(x.clock)
    BY <1>2, <2>1, <2>2, toPsKept
  <2>4. toPs(x) + displacement[w] = moved[w] + ps /\ (Divisions(x.clock) = 1 => x.division = 0)
    BY <1>1, <1>2, <2>3, DraggedFollows DEF FollowsOK
  <2>5. QED
    BY <1>2, <2>1, <2>4, toPsKept
<1>10. FollowsIn(v)'
  <2>1. PICK z : z = current'[v]
    OBVIOUS
  <2>2. z.clock = cs[v].clock
    BY <1>8, <2>1
  <2>3. SUFFICES ASSUME ~strayed'[v], WholePhases(z.clock)'
                 PROVE  /\ toPs(z)' + displacement'[v] = moved'[v]
                        /\ Divisions(z.clock)' = 1 => z.division = 0
    BY <2>1 DEF FollowsIn
  <2>4. WholePhases(cs[v].clock)
    BY <1>2, <2>2, <2>3, toPsKept
  <2>5. strayed[v] => strayed'[v]
    BY <1>6, <1>8
  <2>6. toPs(cs[v]) + displacement[v] = moved[v] /\ (Divisions(cs[v].clock) = 1 => cs[v].division = 0)
    BY <1>2, <1>5, <2>3, <2>4, <2>5 DEF FollowsOK, FollowsIn
  <2>7. /\ toPs(z) + displacement'[v] = toPs(cs[v]) + displacement[v] + ps
        /\ Divisions(z.clock) = 1 => z.division = 0
    <3>1. ~strayed'[v] /\ (Divisions(cs[v].clock) = 1 => cs[v].division = 0)
      BY <2>3, <2>6
    <3>2. Followed(v, cs[v], z, ps)
      BY <1>2, <1>6, <2>1, <2>4, <3>1, AttendFollows
    <3>3. QED
      BY <3>2 DEF Followed
  <2>8. moved'[v] = moved[v] + ps
    BY <1>2
  <2>9. toPs(cs[v]) + displacement[v] + ps = moved[v] + ps
    BY <2>6
  <2>10. QED
    BY <1>2, <2>7, <2>8, <2>9, toPsKept
<1>11. QED
  BY <1>5, <1>9, <1>10 DEF FollowsOK

LEMMA NextFollows ==
    ASSUME ClocksOK, ClocksOK', WindowTypes, WindowTypes', FollowsOK, [Next]_vars
    PROVE  FollowsOK'
<1>1. ASSUME NEW id \in 0..MaxClocks, NEW freq \in Freqs, NEW divisions \in 0..2,
             NEW skew \in Skews, NewClock(id, freq, divisions, skew)
      PROVE  FollowsOK'
  <2>1. state' # "TRACE"
    BY <1>1 DEF NewClock
  <2>2. QED
    BY <2>1 DEF FollowsOK, FollowsIn
<1>2. CASE StartActivity
  BY <1>2, StartFollows DEF ClocksOK
<1>3. CASE Drag
  BY <1>3, DragFollows DEF ClocksOK
<1>4. CASE UNCHANGED vars
  BY <1>4 DEF vars, clockVars, windowVars, FollowsOK, FollowsIn, toPs, getClockDomain,
              WholePhases, Divisions
<1>5. QED
  BY <1>1, <1>2, <1>3, <1>4 DEF Next

(* A window that follows others has gone where it was told, but for what   *)
(* it still owes, as long as it met no end of its slider and a phase of    *)
(* its clock takes whole picoseconds: nothing is lost, however the moves   *)
(* of the windows come (displacement, attendCycleChanged).                 *)
THEOREM SpecFollows == Spec => []Follows
<1>1. FollowsOK => Follows
  BY DEF FollowsOK, FollowsIn, Follows, WholePhases
<1>2. QED
  BY <1>1, InitFollows, NextFollows, SpecClocksOK, SpecWindowTypes, PTL DEF Spec

-----------------------------------------------------------------------------
(* Cycles of all clocks in common cycles                                   *)

(* The ratio of a clock is what its frequency lacks of the least common    *)
(* multiple.                                                               *)
LEMMA ScaleOfClock ==
    ASSUME IInv, ClocksOK, state = "TRACE", LcmFits, NEW k \in DOMAIN clocks
    PROVE  /\ clocks[k].ratio \in Nat \ {0} /\ clocks[k].freq \in Nat \ {0}
           /\ clocks[k].skew \in Nat /\ Lcm(clocks) \in Nat \ {0}
           /\ Lcm(clocks) = clocks[k].freq * clocks[k].ratio
           /\ clocks[k].ratio = Lcm(clocks) \div clocks[k].freq
<1>1. PICK n \in Nat : n = Len(clocks) /\ DOMAIN clocks = 1..n
  BY DEF IInv, TablesOK
<1>2. \A j \in 1..n : clocks[j].freq \in Nat \ {0} /\ clocks[j].skew \in Nat
  <2>1. (Freqs \cup {100}) \ {0} \subseteq Nat \ {0} /\ Skews \cup {0} \subseteq Nat
    BY ClockSizesAssumption
  <2>2. QED
    BY <1>1, <2>1 DEF ClocksOK, ClockTypes
<1>3. PICK fs : fs = [j \in DOMAIN clocks |-> clocks[j].freq]
  OBVIOUS
<1>4. fs \in Seq(Nat \ {0}) /\ Len(fs) = n /\ \A j \in 1..n : fs[j] = clocks[j].freq
  BY <1>1, <1>2, <1>3
<1>5. Multiple(Lcm(clocks), fs, n)
  BY <1>3, <1>4, LcmOfFacts DEF Lcm
<1>6. PICK l \in Nat \ {0}, q \in Nat \ {0} : l = Lcm(clocks) /\ l = clocks[k].freq * q
  <2>1. PICK l \in Nat \ {0}, q \in Nat \ {0} : l = Lcm(clocks) /\ l = q * fs[k]
    BY <1>1, <1>5 DEF Multiple
  <2>2. PICK f \in Nat \ {0} : f = clocks[k].freq /\ f = fs[k]
    BY <1>1, <1>2, <1>4
  <2>3. q * f = f * q
    OBVIOUS
  <2>4. QED
    BY <2>1, <2>2, <2>3
<1>7. PICK f \in Nat \ {0} : f = clocks[k].freq
  BY <1>1, <1>2
<1>8. l \div f = q
  <2>1. l = f * q + 0 /\ 0 \in 0..(f - 1)
    BY <1>6, <1>7
  <2>2. QED
    BY <2>1, DivisionUnique
<1>9. l % RATIO_MOD = l /\ f % RATIO_MOD = f
  <2>1. RATIO_MOD \in Nat \ {0} /\ l < RATIO_MOD
    BY <1>6, ClockSizesAssumption DEF LcmFits
  <2>2. f <= l
    <3>1. PICK p \in Nat : q = p + 1
      <4>1. q - 1 \in Nat /\ q = (q - 1) + 1
        OBVIOUS
      <4>2. QED
        BY <4>1
    <3>2. PICK g \in Nat : g = f * p
      OBVIOUS
    <3>3. l = g + f
      BY <1>6, <1>7, <3>1, <3>2
    <3>4. QED
      BY <3>3
  <2>3. QED
    BY <2>1, <2>2
<1>10. clocks[k].ratio = q
  BY <1>6, <1>7, <1>8, <1>9 DEF ClocksOK, RatiosOK, lcm_ratio
<1>11. QED
  BY <1>1, <1>2, <1>6, <1>7, <1>8, <1>9, <1>10

LEMMA SkewOfClock ==
    ASSUME IInv, ClocksOK, state = "TRACE", LcmFits, SkewsFit, NEW k \in DOMAIN clocks
    PROVE  clocks[k].lcmSkew = (clocks[k].skew * clocks[k].ratio * 2) \div 100
<1>1. PICK q \in Nat, s \in Nat : q = clocks[k].ratio /\ s = clocks[k].skew
  BY ScaleOfClock
<1>2. PICK m \in Nat : m = s * q * 2
  OBVIOUS
<1>3. m < RATIO_MOD /\ m \div 100 < SKEW_MOD
  BY <1>1, <1>2, ScaleOfClock DEF SkewsFit
<1>4. clocks[k].lcmSkew = ((m % RATIO_MOD) \div 100) % SKEW_MOD
  BY <1>1, <1>2 DEF ClocksOK, RatiosOK, lcm_skew
<1>5. m % RATIO_MOD = m
  BY <1>3, ClockSizesAssumption
<1>6. (m \div 100) % SKEW_MOD = m \div 100
  BY <1>3, ClockSizesAssumption
<1>7. QED
  BY <1>1, <1>2, <1>4, <1>5, <1>6

LEMMA SkewType ==
    ASSUME IInv, ClocksOK, state = "TRACE", LcmFits, NEW k \in DOMAIN clocks
    PROVE  clocks[k].lcmSkew \in Nat
<1>1. PICK q \in Nat, s \in Nat : q = clocks[k].ratio /\ s = clocks[k].skew
  BY ScaleOfClock
<1>2. PICK m \in Nat : m = s * q * 2
  OBVIOUS
<1>3. clocks[k].lcmSkew = ((m % RATIO_MOD) \div 100) % SKEW_MOD
  BY <1>1, <1>2 DEF ClocksOK, RatiosOK, lcm_skew
<1>4. PICK n \in Nat : n = m % RATIO_MOD
  BY ClockSizesAssumption
<1>5. PICK o \in Nat : o = n \div 100
  OBVIOUS
<1>6. o % SKEW_MOD \in Nat
  BY ClockSizesAssumption
<1>7. QED
  BY <1>3, <1>4, <1>5, <1>6

(* Common cycles to a cycle of a clock and back: the start of its phase.   *)
LEMMA RoundedDown ==
    ASSUME IInv, ClocksOK, state = "TRACE", RatiosFit, NEW k \in DOMAIN clocks,
           NEW n \in Int, n >= clocks[k].lcmSkew
    PROVE  /\ toLCMCycles(fromLCMCycles(k - 1, n)) <= n
           /\ n < toLCMCycles(fromLCMCycles(k - 1, n)) + clocks[k].ratio
<1>1. PICK r \in Nat \ {0}, s \in Nat : r = clocks[k].ratio /\ s = clocks[k].lcmSkew
  BY ScaleOfClock, SkewType DEF RatiosFit
<1>2. 2 * r < RATIO_MOD /\ (2 * r) % RATIO_MOD = 2 * r
  <2>1. 2 * r < RATIO_MOD
    BY <1>1, ScaleOfClock DEF RatiosFit
  <2>2. QED
    BY <2>1, ClockSizesAssumption
<1>3. PICK c \in Int : c = k - 1 /\ clocks[c + 1] = clocks[k]
  <2>1. k \in Nat
    BY DEF IInv, TablesOK
  <2>2. QED
    BY <2>1
<1>4. getClockDomain(c).ratio = r /\ getClockDomain(c).lcmSkew = s
  BY <1>1, <1>3 DEF getClockDomain
<1>5. PICK rest \in Nat : rest = n - s /\ n = rest + s
  <2>1. n >= s
    BY <1>1
  <2>2. QED
    BY <2>1
<1>6. PICK x : x = fromLCMCycles(c, n)
  OBVIOUS
<1>7. CASE rest = 0
  <2>1. x = Start(c)
    BY <1>4, <1>5, <1>6, <1>7 DEF fromLCMCycles
  <2>2. x.clock = c /\ x.cycle = 0 /\ x.division = 0
    BY <2>1 DEF Start
  <2>3. toLCMCycles(x) = 0 * r + s
    BY <1>4, <2>2 DEF toLCMCycles
  <2>4. 0 * r + s = s /\ n = s /\ s < s + r
    BY <1>5, <1>7
  <2>5. QED
    BY <1>1, <1>3, <1>6, <2>3, <2>4
<1>8. CASE rest # 0
  <2>1. PICK w \in Nat \ {0} : w = 2 * r
    OBVIOUS
  <2>2. PICK q \in Nat, m \in 0..(w - 1) : q = rest \div w /\ m = rest % w /\ rest = w * q + m
    BY Division
  <2>3. PICK d \in {0, 1} : d = (IF m < r THEN 0 ELSE 1)
    OBVIOUS
  <2>4. x = [clock |-> c, cycle |-> q, division |-> d]
    <3>1. ~(rest <= 0)
      BY <1>8
    <3>2. QED
      BY <1>4, <1>5, <1>6, <1>2, <2>1, <2>2, <2>3, <3>1 DEF fromLCMCycles, Half
  <2>5. toLCMCycles(x) = (2 * q + d) * r + s
    BY <1>4, <2>4 DEF toLCMCycles
  <2>6. (2 * q + d) * r = w * q + d * r
    BY <2>1
  <2>7. d * r <= m /\ m < d * r + r
    <3>1. CASE m < r
      BY <2>3, <3>1
    <3>2. CASE ~(m < r)
      BY <2>1, <2>2, <2>3, <3>2
    <3>3. QED
      BY <3>1, <3>2
  <2>8. PICK a \in Nat, b \in Nat : a = w * q /\ b = d * r
    OBVIOUS
  <2>9. toLCMCycles(x) = a + b + s /\ n = a + m + s
    BY <1>5, <2>2, <2>5, <2>6, <2>8
  <2>10. a + b + s <= a + m + s /\ a + m + s < (a + b + s) + r
    BY <2>7, <2>8
  <2>11. QED
    BY <1>1, <1>3, <1>6, <2>9, <2>10
<1>9. QED
  BY <1>7, <1>8

LEMMA CommonCycles ==
    ASSUME IInv, ClocksOK, state = "TRACE", LcmFits, NEW x \in Cycles
    PROVE  /\ toLCMCycles(x) \in Nat /\ Phases(x) \in Nat
           /\ x.clock + 1 \in DOMAIN clocks /\ x.clock \in Nat
           /\ toLCMCycles(x) = Phases(x) * clocks[x.clock + 1].ratio
                                  + clocks[x.clock + 1].lcmSkew
<1>1. DOMAIN clocks \subseteq Nat \ {0}
  BY DEF IInv, TablesOK
<1>2. x.clock \in Nat /\ x.clock + 1 \in DOMAIN clocks /\ x.cycle \in Nat /\ x.division \in Nat
  BY <1>1, CyclesAreCycles DEF ClocksOK, ClockAt
<1>3. PICK r \in Nat, s \in Nat : r = clocks[x.clock + 1].ratio /\ s = clocks[x.clock + 1].lcmSkew
  BY <1>2, ScaleOfClock, SkewType
<1>4. PICK p \in Nat : p = Phases(x) /\ p = 2 * x.cycle + x.division
  BY <1>2 DEF Phases
<1>5. toLCMCycles(x) = p * r + s
  BY <1>3, <1>4 DEF toLCMCycles, getClockDomain
<1>6. p * r \in Nat
  OBVIOUS
<1>7. QED
  BY <1>2, <1>3, <1>4, <1>5, <1>6

LEMMA PhasesScaled ==
    ASSUME NEW p \in Nat, NEW s \in Nat, NEW r \in Nat
    PROVE  p * r + (s * r * 2) \div 100 = ((50 * p + s) * r) \div 50
<1>1. PICK a \in Nat, b \in Nat : a = p * r /\ b = s * r
  OBVIOUS
<1>2. (50 * p + s) * r = 50 * a + b
  BY <1>1
<1>3. (b * 2) \div 100 = b \div 50
  OBVIOUS
<1>4. (50 * a + b) \div 50 = a + b \div 50
  OBVIOUS
<1>5. QED
  BY <1>1, <1>2, <1>3, <1>4

(* Products compared in parts of a common multiple                         *)
LEMMA Crosswise ==
    ASSUME NEW a \in Int, NEW b \in Int, NEW f \in Nat \ {0}, NEW g \in Nat \ {0},
           NEW p \in Nat \ {0}, NEW q \in Nat \ {0}, f * p = g * q, a * g < b * f
    PROVE  a * p < b * q
<1>1. PICK l \in Nat \ {0} : l = f * p /\ l = g * q
  OBVIOUS
<1>2. PICK m \in Nat \ {0} : m = p * q
  OBVIOUS
<1>3. PICK u \in Int, v \in Int : u = a * g /\ v = b * f /\ u < v
  OBVIOUS
<1>4. u * m < v * m
  <2>1. v - u > 0 /\ (v - u) * m > 0 /\ (v - u) * m = v * m - u * m
    BY <1>3
  <2>2. u * m \in Int /\ v * m \in Int
    OBVIOUS
  <2>3. QED
    BY <2>1, <2>2
<1>5. u * m = (a * p) * l
  <2>1. (a * g) * (p * q) = (a * p) * (g * q)
    OBVIOUS
  <2>2. QED
    BY <1>1, <1>2, <1>3, <2>1
<1>6. v * m = (b * q) * l
  <2>1. (b * f) * (p * q) = (b * q) * (f * p)
    OBVIOUS
  <2>2. QED
    BY <1>1, <1>2, <1>3, <2>1
<1>7. (a * p) \in Int /\ (b * q) \in Int /\ (a * p) * l < (b * q) * l
  BY <1>4, <1>5, <1>6
<1>8. QED
  BY <1>7, ProductsCancel

LEMMA InTimeOrder ==
    ASSUME IInv, ClocksOK, state = "TRACE", LcmFits, SkewsFit,
           NEW x \in Cycles, NEW y \in Cycles, Before(x, y)
    PROVE  toLCMCycles(x) <= toLCMCycles(y)
<1>1. PICK j, k : j = x.clock + 1 /\ k = y.clock + 1 /\ j \in DOMAIN clocks /\ k \in DOMAIN clocks
  BY CommonCycles
<1>2. PICK f \in Nat \ {0}, p \in Nat \ {0}, s \in Nat :
          /\ f = clocks[j].freq /\ p = clocks[j].ratio /\ s = clocks[j].skew
          /\ Lcm(clocks) = f * p /\ clocks[j].lcmSkew = (s * p * 2) \div 100
  BY <1>1, ScaleOfClock, SkewOfClock
<1>3. PICK g \in Nat \ {0}, q \in Nat \ {0}, t \in Nat :
          /\ g = clocks[k].freq /\ q = clocks[k].ratio /\ t = clocks[k].skew
          /\ Lcm(clocks) = g * q /\ clocks[k].lcmSkew = (t * q * 2) \div 100
  <2>1. k \in DOMAIN clocks
    BY <1>1
  <2>2. PICK g \in Nat \ {0}, q \in Nat \ {0}, t \in Nat :
            /\ g = clocks[k].freq /\ q = clocks[k].ratio /\ t = clocks[k].skew
            /\ Lcm(clocks) = g * q
    BY <2>1, ScaleOfClock
  <2>3. clocks[k].lcmSkew = (t * q * 2) \div 100
    BY <2>1, <2>2, SkewOfClock
  <2>4. QED
    BY <2>2, <2>3
<1>4. PICK m \in Nat, n \in Nat : m = Phases(x) /\ n = Phases(y)
  BY CommonCycles
<1>5. toLCMCycles(x) = ((50 * m + s) * p) \div 50
  <2>1. toLCMCycles(x) = m * p + (s * p * 2) \div 100
    BY <1>1, <1>2, <1>4, CommonCycles
  <2>2. QED
    BY <2>1, PhasesScaled
<1>6. toLCMCycles(y) = ((50 * n + t) * q) \div 50
  <2>1. toLCMCycles(y) = n * q + (t * q * 2) \div 100
    BY <1>1, <1>3, <1>4, CommonCycles
  <2>2. QED
    BY <2>1, PhasesScaled
<1>7. (50 * m + s) * g < (50 * n + t) * f
  BY <1>1, <1>2, <1>3, <1>4 DEF Before, getClockDomain
<1>8. PICK a \in Int, b \in Int : a = 50 * m + s /\ b = 50 * n + t
  OBVIOUS
<1>9. a * p < b * q
  <2>1. f * p = g * q /\ a * g < b * f
    BY <1>2, <1>3, <1>7, <1>8
  <2>2. QED
    BY <2>1, Crosswise
<1>10. (a * p) \div 50 <= (b * q) \div 50
  <2>1. PICK u \in Int, v \in Int : u = a * p /\ v = b * q /\ u < v
    BY <1>9
  <2>2. u \div 50 <= v \div 50
    BY <2>1
  <2>3. QED
    BY <2>1, <2>2
<1>11. QED
  BY <1>5, <1>6, <1>8, <1>10

(* Cycles of two clocks compare in the order of time, whatever their       *)
(* frequencies and skews (operator<), in every trace whose multiple fits   *)
(* the 32 bits setLCMRatio cuts it to and whose skews fit their 16.        *)
THEOREM SpecTimeOrder == Spec => []TimeOrder
<1>1. ASSUME IInv, ClocksOK PROVE TimeOrder
  <2>1. SUFFICES ASSUME Started, LcmFits, SkewsFit, NEW x \in Cycles, NEW y \in Cycles,
                        Before(x, y)
                 PROVE  toLCMCycles(x) <= toLCMCycles(y)
    BY Zenon DEF TimeOrder
  <2>2. QED
    BY <1>1, <2>1, InTimeOrder DEF Started
<1>2. QED
  BY <1>1, SpecIInv, SpecClocksOK, PTL

(* A moment is in the phase of a clock that contains it (fromLCMCycles),   *)
(* in every trace whose multiple and whose cycles fit their 32 bits.       *)
THEOREM SpecPhaseContains == Spec => []PhaseContains
<1>1. ASSUME IInv, ClocksOK PROVE PhaseContains
  <2>1. ASSUME Started, RatiosFit, NEW y \in Cycles, NEW k \in DOMAIN clocks,
               toLCMCycles(y) >= clocks[k].lcmSkew
        PROVE  LET n == toLCMCycles(y) x == fromLCMCycles(k - 1, n)
               IN  toLCMCycles(x) <= n /\ n < toLCMCycles(x) + clocks[k].ratio
    <3>1. PICK n \in Nat : n = toLCMCycles(y)
      BY <1>1, <2>1, CommonCycles DEF Started, RatiosFit
    <3>2. /\ toLCMCycles(fromLCMCycles(k - 1, n)) <= n
          /\ n < toLCMCycles(fromLCMCycles(k - 1, n)) + clocks[k].ratio
      BY <1>1, <2>1, <3>1, RoundedDown DEF Started
    <3>3. QED
      BY <3>1, <3>2
  <2>2. QED
    BY <2>1, Zenon DEF PhaseContains
<1>2. QED
  BY <1>1, SpecIInv, SpecClocksOK, PTL
=============================================================================
