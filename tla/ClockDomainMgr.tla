--------------------------- MODULE ClockDomainMgr ---------------------------
(***************************************************************************)
(* The clocks of a trace (dDB/ClockDomainMgr.{h,cpp}), their cycles in a   *)
(* common unit and in picoseconds, and the windows that follow each other  *)
(* through time (Dreams::do_cycleChanged, MDIDreamsWindow,                 *)
(* MDIFloorplanWindow; MDIWatchWindow is alike).                           *)
(*                                                                         *)
(* The header defines clocks; when the activity starts, the least common   *)
(* multiple of their frequencies gives each clock the length of its phase  *)
(* and its skew in common (LCM) cycles.  Clocks of one frequency and skew  *)
(* share an internal clock, of which there are few.  A frequency is in     *)
(* hundredths of a gigahertz, a skew in hundredths of a cycle.             *)
(***************************************************************************)
EXTENDS Integers, SequencesExt

CONSTANTS
    Freqs,        \* frequencies of the clocks, 0 among them
    Skews,        \* skews of the clocks
    MAX_CLOCK_ID, \* last internal clock
    RATIO_MOD,    \* the ratio is computed modulo this (2^32)
    SKEW_MOD,     \* and the skew kept modulo this (2^16)
    MaxClocks,    \* bound: clocks of the header
    MaxCycle,     \* bound: last cycle of a window's slider
    MaxMoves,     \* bound: moves of the windows
    Diffs         \* bound: phases the user moves a slider

ASSUME ClockSizesAssumption ==
    /\ Freqs \subseteq Nat /\ Skews \subseteq Nat /\ Diffs \subseteq Nat \ {0}
    /\ {MAX_CLOCK_ID, MaxClocks, MaxCycle, MaxMoves} \subseteq Nat
    /\ RATIO_MOD \in Nat \ {0} /\ SKEW_MOD \in Nat \ {0}
(* setLCMRatio divides by a frequency of 32 bits.                          *)
ASSUME FreqAssumption == \A freq \in (Freqs \cup {100}) \ {0} : freq % RATIO_MOD # 0

VARIABLES
    state,        \* of the listener: "GRAPH", "TRACE" or "ERROR"
    clocks,       \* the clocks, in the order of their ids
    internals,    \* the internal clocks: frequency, skew, and the id of the
                  \* clock each was made for (int_to_ext)
    current,      \* per window: its current cycle
    displacement, \* per window: picoseconds it was moved and has not gone
    moved,        \* history, per window: picoseconds it was moved since it
                  \* was at the start
    strayed,      \* history, per window: it came to an end of its slider
    moves         \* how often a slider was moved

clockVars == <<state, clocks, internals>>
windowVars == <<current, displacement, moved, strayed, moves>>
vars == <<clockVars, windowVars>>

Windows == 1..2
Start(c) == [clock |-> c, cycle |-> 0, division |-> 0]

Init ==
    /\ state = "GRAPH" /\ clocks = <<>> /\ internals = <<>>
    /\ current = [w \in Windows |-> Start(0)] /\ displacement = [w \in Windows |-> 0]
    /\ moved = [w \in Windows |-> 0] /\ strayed = [w \in Windows |-> FALSE]
    /\ moves = 0

(* The clock with an id.                                                   *)
getClockDomain(id) == clocks[id + 1]

-----------------------------------------------------------------------------
(* The header.                                                             *)

MatchesM(i, freq, skew) == i.freq = freq
(* Whether an internal clock stands for a clock.                           *)
Matches(i, freq, skew) == i.freq = freq /\ i.skew = skew

(* addNewClockDomain accepts the clock: the ids come in order, and there   *)
(* is an internal clock for it, or room for one.                           *)
Accepted(id, freq, divisions, skew) ==
    /\ id = Len(clocks) /\ divisions \in {1, 2} /\ freq # 0
    /\ \/ \E k \in DOMAIN internals : Matches(internals[k], freq, skew)
       \/ Len(internals) < MAX_CLOCK_ID + 1

(* The clocks and the internal clocks cs and is with one more.             *)
Entered(cs, is, freq, divisions, skew) ==
    LET Known == {k \in DOMAIN is : Matches(is[k], freq, skew)}  \* one at most
        internal == IF Known = {} THEN Len(is) + 1 ELSE CHOOSE k \in Known : TRUE
    IN  /\ clocks' = Append(cs, [freq |-> freq, divisions |-> divisions, skew |-> skew,
                                 internal |-> internal, ratio |-> 0, lcmSkew |-> 0])
        /\ internals' = IF Known = {}
                        THEN Append(is, [freq |-> freq, skew |-> skew, ext |-> Len(cs)])
                        ELSE is

(* DBListener::NewClock; the windows are opened when the trace is read.    *)
NewClock(id, freq, divisions, skew) ==
    /\ state # "ERROR" /\ moves = 0 /\ Len(clocks) < MaxClocks
    /\ IF state = "GRAPH" /\ Accepted(id, freq, divisions, skew)
       THEN Entered(clocks, internals, freq, divisions, skew) /\ UNCHANGED state
       ELSE state' = "ERROR" /\ UNCHANGED <<clocks, internals>>
    /\ UNCHANGED windowVars

(* The first multiple of b that is one of a.                               *)
computeLCM(a, b) == b * Min({k \in 1..a : (b * k) % a = 0})

(* The multiple of some frequencies, one taken in after the other.         *)
LcmOf(freqs) ==
    LET upto[k \in 0..Len(freqs)] == IF k = 0 THEN 1 ELSE computeLCM(upto[k - 1], freqs[k])
    IN  upto[Len(freqs)]

Lcm(cs) == LcmOf([k \in DOMAIN cs |-> cs[k].freq])

lcm_skewM(skew, ratio) == ((skew * ratio) \div 100) % SKEW_MOD
(* setLCMSkew, in a product of the width of the ratio                      *)
lcm_skew(skew, ratio) == (((skew * ratio * 2) % RATIO_MOD) \div 100) % SKEW_MOD

(* setLCMRatio: the multiple and the frequency are cut, and then divided.  *)
lcm_ratio(lcm, freq) == (lcm % RATIO_MOD) \div (freq % RATIO_MOD)

(* computeRatiosAndLCM for the clocks cs                                   *)
Computed(cs) ==
    [k \in DOMAIN cs |->
        LET ratio == lcm_ratio(Lcm(cs), cs[k].freq)
        IN  [cs[k] EXCEPT !.ratio = ratio, !.lcmSkew = lcm_skew(cs[k].skew, ratio)]]

(* A trace without clocks is given one.                                    *)
DefaultClock == [freq |-> 100, divisions |-> 1, skew |-> 0, internal |-> 1,
                 ratio |-> 0, lcmSkew |-> 0]

(* DBListener::StartActivity, as far as the clocks go.  The first window   *)
(* is opened on the first clock, and the second on the last.               *)
StartActivity ==
    /\ state = "GRAPH" /\ state' = "TRACE"
    /\ IF clocks = <<>>
       THEN /\ clocks' = Computed(<<DefaultClock>>)
            /\ internals' = <<[freq |-> 100, skew |-> 0, ext |-> 0]>>
       ELSE clocks' = Computed(clocks) /\ UNCHANGED internals
    /\ current' = [w \in Windows |-> Start(IF w = 1 THEN 0 ELSE Len(clocks') - 1)]
    /\ UNCHANGED <<displacement, moved, strayed, moves>>

-----------------------------------------------------------------------------
(* Cycles.                                                                 *)

toLCMCycles(x) ==
    (2 * x.cycle + x.division) * getClockDomain(x.clock).ratio + getClockDomain(x.clock).lcmSkew

HalfM(ratio) == 2 * ratio
(* The second half of a cycle starts there, in LCM cycles.                 *)
Half(ratio) == ratio

(* The cycle of clock c at n LCM cycles, the first one before it.          *)
fromLCMCycles(c, n) ==
    LET ratio == getClockDomain(c).ratio
        whole == (2 * ratio) % RATIO_MOD
        rest == n - getClockDomain(c).lcmSkew
    IN  IF rest <= 0 THEN Start(c)
        ELSE [clock |-> c, cycle |-> rest \div whole,
              division |-> IF rest % whole < Half(ratio) THEN 0 ELSE 1]

(* Picoseconds of a cycle, which may have negative fields, cut to zero.    *)
toPs(x) ==
    LET n == x.cycle * 100000 + x.division * 50000
        freq == getClockDomain(x.clock).freq
    IN  IF n >= 0 THEN n \div freq ELSE -((-n) \div freq)

(* The cycle of clock c at ps picoseconds, for ps that are not negative.   *)
fromPs(c, ps) ==
    LET n == ps * getClockDomain(c).freq
    IN  [clock |-> c, cycle |-> n \div 100000, division |-> IF n % 100000 >= 50000 THEN 1 ELSE 0]

CarriedM(x) == x
(* A cycle whose division may be one too many, or one too few              *)
Carried(x) ==
    LET divisions == getClockDomain(x.clock).divisions
    IN  IF x.division >= divisions
        THEN [x EXCEPT !.cycle = @ + 1, !.division = @ - divisions]
        ELSE IF x.division < 0 THEN [x EXCEPT !.cycle = @ - 1, !.division = @ + divisions]
        ELSE x

(* CYCLE::operator+                                                        *)
Plus(x, y) ==
    IF x.clock = y.clock
    THEN Carried([x EXCEPT !.cycle = @ + y.cycle, !.division = @ + y.division])
    ELSE fromLCMCycles(x.clock,
             toLCMCycles(x) + toLCMCycles(y) - getClockDomain(y.clock).lcmSkew)

(* CYCLE::operator-, which never goes below zero                           *)
Minus(x, y) ==
    LET same == Carried([x EXCEPT !.cycle = @ - y.cycle, !.division = @ - y.division])
        n == toLCMCycles(x) - toLCMCycles(y) + getClockDomain(y.clock).lcmSkew
    IN  IF x.clock = y.clock
        THEN IF same.cycle < 0 THEN Start(x.clock) ELSE same
        ELSE IF n < 0 THEN Start(x.clock) ELSE fromLCMCycles(x.clock, n)

-----------------------------------------------------------------------------
(* Windows, locked to each other.                                          *)

Divisions(c) == getClockDomain(c).divisions

sliderValueToCycle(c, value) ==
    [clock |-> c, cycle |-> value \div Divisions(c), division |-> value % Divisions(c)]

cycleToSliderValue(x) ==
    x.cycle * Divisions(x.clock) + IF Divisions(x.clock) > 1 THEN x.division ELSE 0

Abs(n) == IF n < 0 THEN -n ELSE n
Negative(x) == [x EXCEPT !.cycle = -@, !.division = -@]

ClampedM(x) == [x EXCEPT !.cycle = Max({@, 0})]
(* A cycle within the slider                                               *)
Clamped(x) == [x EXCEPT !.cycle = Min({Max({@, 0}), MaxCycle})]

(* showCycle, of a cycle of the window's own clock: where the window is    *)
(* then.                                                                   *)
Shown(x) == Clamped(fromPs(x.clock, toPs(x)))

(* The cycle a displacement amounts to, as getAccCycleChanged computes it. *)
AccCycle(c, disp) ==
    LET x == fromPs(c, Abs(disp))
        whole == IF Divisions(c) > 1 THEN x ELSE [x EXCEPT !.division = 0]
    IN  IF disp < 0 THEN Negative(whole) ELSE whole

RemainderM(disp, acc) == 0
(* What is left of the displacement                                        *)
Remainder(disp, acc) == disp - toPs(acc)

(* Window w attends a change of ps, the windows being at cycles cs.        *)
(* Before the start the division in fromPs is unsigned: the cycle is any   *)
(* of those of the slider.                                                 *)
attendCycleChanged(w, cs, ps) ==
    LET disp == displacement[w] + ps
        acc == AccCycle(cs[w].clock, disp)
        sum == toPs(cs[w]) + toPs(acc)
        x == fromPs(cs[w].clock, sum)
    IN  /\ displacement' = [displacement EXCEPT ![w] = Remainder(disp, acc)]
        /\ IF sum >= 0
           THEN current' = [cs EXCEPT ![w] = Shown(x)]
           ELSE \E n \in 0..MaxCycle, d \in 0..1 :
                    current' = [cs EXCEPT ![w].cycle = n, ![w].division = d]
        /\ strayed' = [strayed EXCEPT ![w] = @ \/ sum < 0 \/ x.cycle > MaxCycle]

(* MDIFloorplanWindow::setFrame, of window w to a value of its slider, and *)
(* Dreams::do_cycleChanged for the other window                            *)
setFrame(w, value) ==
    LET c == current[w].clock
        last == cycleToSliderValue(current[w])
        diff == sliderValueToCycle(c, Abs(value - last))
        ps == toPs(IF value < last THEN Negative(diff) ELSE diff)
    IN  /\ moves' = moves + 1
        /\ moved' = [v \in Windows |-> moved[v] + ps]
        /\ attendCycleChanged(3 - w, [current EXCEPT ![w] = sliderValueToCycle(c, value)], ps)
        /\ UNCHANGED clockVars

(* The user drags a slider.  (Clocks between the first and the last make   *)
(* no difference to the windows: a bound.)                                 *)
Drag ==
    \E w \in Windows, diff \in Diffs, back \in BOOLEAN :
        LET value == cycleToSliderValue(current[w]) + IF back THEN -diff ELSE diff
        IN  /\ state = "TRACE" /\ moves < MaxMoves /\ Len(clocks) <= 2
            /\ value \in 0..(MaxCycle * Divisions(current[w].clock))
            /\ setFrame(w, value)

Next ==
    \/ \E id \in 0..MaxClocks, freq \in Freqs, divisions \in 0..2, skew \in Skews :
            NewClock(id, freq, divisions, skew)
    \/ StartActivity
    \/ Drag

Spec == Init /\ [][Next]_vars

-----------------------------------------------------------------------------
(* Properties.                                                             *)

(* Type correctness.  Every window stays on its slider (QMIN and QMAX of   *)
(* MDIFloorplanWindow::showCycle), whatever it is told to follow.          *)
TypeOK ==
    /\ state \in {"GRAPH", "TRACE", "ERROR"} /\ moves \in 0..MaxMoves
    /\ \A k \in DOMAIN clocks :
           /\ clocks[k].freq \in Freqs \cup {100} /\ clocks[k].divisions \in {1, 2}
           /\ clocks[k].internal \in DOMAIN internals
    /\ \A w \in Windows :
           /\ current[w].cycle \in 0..MaxCycle /\ current[w].division \in {0, 1}
           /\ displacement[w] \in Int /\ strayed[w] \in BOOLEAN

(* Clocks share an internal clock exactly when their frequency and skew    *)
(* are the same, however they were declared, and int_to_ext of it is a     *)
(* clock of theirs: a cycle stored with the internal clock (ItemHeap) and  *)
(* read with the external one is at the same time.                         *)
SharedClocks ==
    /\ Len(internals) <= MAX_CLOCK_ID + 1
    /\ \A j, k \in DOMAIN clocks :
          (clocks[j].internal = clocks[k].internal)
              <=> (clocks[j].freq = clocks[k].freq /\ clocks[j].skew = clocks[k].skew)
    /\ \A k \in DOMAIN clocks :
          LET ext == clocks[internals[clocks[k].internal].ext + 1]
          IN  /\ ext.internal = clocks[k].internal
              /\ ext.ratio = clocks[k].ratio /\ ext.lcmSkew = clocks[k].lcmSkew

(* The clocks are those of the trace; the windows leave them as they are.  *)
Started == state = "TRACE" /\ moves = 0

(* Cycles of the trace, for the properties below                           *)
Cycles == UNION {[clock : {k - 1}, cycle : 0..2, division : 0..(clocks[k].divisions - 1)] :
                     k \in DOMAIN clocks}
Phases(x) == 2 * x.cycle + x.division

(* Whether x is before y in time: (Phases + 2 skew / 100) / (2 freq)       *)
Before(x, y) ==
    LET a == getClockDomain(x.clock) b == getClockDomain(y.clock)
    IN  (50 * Phases(x) + a.skew) * b.freq < (50 * Phases(y) + b.skew) * a.freq

(* The multiple of the frequencies fits the width it is cut to, and so do  *)
(* a cycle of each clock and its skew.  Four frequencies may exceed it.    *)
LcmFits == Lcm(clocks) < RATIO_MOD
RatiosFit == LcmFits /\ \A k \in DOMAIN clocks : 2 * (Lcm(clocks) \div clocks[k].freq) < RATIO_MOD
SkewsFit ==
    \A k \in DOMAIN clocks :
        LET scaled == clocks[k].skew * (Lcm(clocks) \div clocks[k].freq) * 2
        IN  scaled < RATIO_MOD /\ scaled \div 100 < SKEW_MOD

(* CYCLE::operator< and the others compare cycles of two clocks in the     *)
(* order of time, whatever their frequencies and skews, as long as the     *)
(* multiple and the skews fit.                                             *)
TimeOrder ==
    Started /\ LcmFits /\ SkewsFit =>
        \A x, y \in Cycles : Before(x, y) => toLCMCycles(x) <= toLCMCycles(y)

(* A moment in another clock's cycles is in the phase that contains it: at *)
(* or after its start and before the next (fromLCMCycles), as long as the  *)
(* multiple and the length of a cycle fit.                                 *)
PhaseContains ==
    Started /\ RatiosFit =>
        \A y \in Cycles : \A k \in DOMAIN clocks :
            LET n == toLCMCycles(y) x == fromLCMCycles(k - 1, n)
            IN  n >= clocks[k].lcmSkew =>
                    toLCMCycles(x) <= n /\ n < toLCMCycles(x) + clocks[k].ratio

(* lcm_ratio is the "Frequency ratio respect to the LCM": the phases of    *)
(* all clocks are measured in the same unit, whatever the frequencies.     *)
RatioToLcm == Started => \A k \in DOMAIN clocks : clocks[k].ratio * clocks[k].freq = Lcm(clocks)

(* Within a clock operator- undoes operator+, across the carry of a        *)
(* division, and the sum is a phase the clock has, as far from the first   *)
(* term as the second is from the start.                                   *)
SumsUndone ==
    Started =>
        \A x, y \in Cycles :
            x.clock = y.clock =>
                LET sum == Plus(x, y)
                IN  /\ Minus(sum, y) = x /\ sum.division < Divisions(x.clock)
                    /\ Divisions(x.clock) = 2 => Phases(sum) = Phases(x) + Phases(y)

(* A window that follows others is where it was told to go, but for the    *)
(* displacement it still owes, as long as it met no end of its slider and  *)
(* its phases are of whole picoseconds (MDIDreamsWindow::displacement).    *)
Follows ==
    \A w \in Windows :
        state = "TRACE" /\ ~strayed[w] /\ 50000 % getClockDomain(current[w].clock).freq = 0 =>
            toPs(current[w]) + displacement[w] = moved[w]
=============================================================================
