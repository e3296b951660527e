----------------------------- MODULE Workspace -----------------------------
(***************************************************************************)
(* The main window (Dreams.{h,cpp}): the traces that are open, the one     *)
(* that is being loaded with its loader (IOMgr), and the windows that show *)
(* them.  Everything runs in one thread, but some handlers run the event   *)
(* loop before they go on (qApp->processEvents), and the user, the timer   *)
(* of the loader and other handlers come in between.  `calls` is the stack *)
(* of the handlers that wait in that way.                                  *)
(*                                                                         *)
(* Modal dialogs let nothing else happen, and are part of the handler that *)
(* shows them.  The dialog of the loader is not modal: its constructor     *)
(* gives it a top-level window of its own (reparent, IOMgr.h), and only a  *)
(* modal one processes events when it is told the progress.  What the      *)
(* listener makes of the trace is the subject of DBListener; here a load   *)
(* comes to an end in one way or another.                                  *)
(***************************************************************************)
EXTENDS Integers, SequencesExt

CONSTANTS
    Kinds,       \* kinds of windows: "play" (floorplan, watch), "waterfall"...
    Layouts,     \* sequences of kinds of windows a trace may open with
    NULL,        \* no trace
    MaxTraces,   \* bound: traces ever opened, files of the command line
    MaxWindows,  \* bound: windows ever opened
    MaxSteps,    \* bound: timer ticks the loading of a trace takes
    MaxCalls     \* bound: handlers that wait at once

ASSUME KindsAssumption == Layouts \subseteq Seq(Kinds) /\ Kinds \subseteq STRING
ASSUME BoundsAssumption ==
    /\ MaxTraces \in Nat /\ MaxWindows \in Nat /\ MaxSteps \in Nat /\ MaxCalls \in Nat
ASSUME NullAssumption == NULL \notin Nat

VARIABLES
    loading,      \* Dreams::loading
    dreamsdb,     \* the trace being loaded: Dreams::dreamsdb
    timer,        \* the timer of the loader is active
    progress,     \* its dialog, with Stop and Abort, may be shown
    unread,       \* timer ticks until the end of the trace
    files,        \* traces named in the command line and not opened yet
    traces,       \* open traces, in order, with the id each was given
    dbs,          \* DreamsDB's that exist, numbered as they were made
    opened,       \* how many were made
    made,         \* every window ever made: its trace and its kind
    windows,      \* the windows that exist
    mdiList,      \* the windows Dreams keeps informed
    numPlayWindow, numWFWindow,
    playing,      \* Dreams::pTimer is active
    curClock,     \* the trace Dreams::curClock is a clock of
    calls,        \* the handlers that wait, the innermost last
    hasty         \* history: the user closed something while a trace was
                  \* loading, or opened or closed something while a handler
                  \* was closing windows

loadVars   == <<loading, dreamsdb, timer, progress, unread>>
traceVars  == <<files, traces, dbs, opened>>
countVars  == <<numPlayWindow, numWFWindow>>
playVars   == <<playing, curClock>>
windowVars == <<made, windows, mdiList, countVars, playVars>>
vars == <<loadVars, traceVars, windowVars, calls, hasty>>

Init ==
    /\ loading = FALSE /\ dreamsdb = NULL /\ timer = FALSE /\ progress = FALSE /\ unread = 0
    /\ files \in 0 .. MaxTraces /\ traces = <<>> /\ dbs = {} /\ opened = 0
    /\ made = <<>> /\ windows = {} /\ mdiList = <<>>
    /\ numPlayWindow = 0 /\ numWFWindow = 0 /\ playing = FALSE /\ curClock = NULL
    /\ calls = <<>> /\ hasty = FALSE

OpenTraces == {traces[k].db : k \in DOMAIN traces}

(* Handlers that are closing windows.                                      *)
Closings == {k \in DOMAIN calls : calls[k].call \in {"traceClose", "closeAll"}}

(* History: a command of the user that opens or closes something.          *)
Commanded(closes) == hasty' = (hasty \/ Closings # {} \/ (closes /\ loading))

-----------------------------------------------------------------------------
(* The list of windows and its iterators.  An iterator is the window it    *)
(* has come to, 0 at the end.                                              *)

(* The elements of a sequence that are in S, in their order.               *)
Only(s, S) ==
    LET ks == {k \in DOMAIN s : s[k] \in S}
    IN  [n \in 1 .. Cardinality(ks) |->
            s[CHOOSE k \in ks : Cardinality({j \in ks : j <= k}) = n]]

From(p) ==
    IF \E k \in DOMAIN mdiList : mdiList[k] = p
    THEN SubSeq(mdiList, CHOOSE k \in DOMAIN mdiList : mdiList[k] = p, Len(mdiList)) ELSE <<>>

HeadOr0(s) == IF s = <<>> THEN 0 ELSE s[1]
Following(w) == HeadOr0(IF From(w) = <<>> THEN <<>> ELSE Tail(From(w)))

FirstOfM(db, p) == IF p # 0 /\ made[p].db = db THEN p ELSE 0
(* The first window of a trace from an iterator on.                        *)
FirstOf(db, p) == HeadOr0(Only(From(p), {w \in DOMAIN made : made[w].db = db}))

(* QGList moves the iterators off a window that leaves the list: to the    *)
(* next one, and off the last one to the one before it.                    *)
MovedOff(w) ==
    LET rest == Only(mdiList, ToSet(mdiList) \ {w})
        to == IF Following(w) # 0 \/ rest = <<>> THEN Following(w) ELSE Last(rest)
    IN  [k \in DOMAIN calls |->
            IF calls[k].call = "traceClose" /\ calls[k].next = w
            THEN [calls[k] EXCEPT !.next = to] ELSE calls[k]]

-----------------------------------------------------------------------------
(* Windows.                                                                *)

(* mdiCloseEvent beeps, and does nothing more, while a trace is loading.   *)
Erases == ~loading

LastOneM(n) == FALSE
(* No window that plays is left.                                           *)
LastOne(n) == n = 0

(* The windows ws are closed one after the other and, being                *)
(* WDestructiveClose, deleted: the closeEvent of each of them calls        *)
(* Dreams::mdiCloseEvent first, and the last one of all calls reset.       *)
Closed(ws) ==
    LET HowMany(kind) == Cardinality({w \in ws : made[w].kind = kind})
        plays == numPlayWindow - HowMany("play")
        rest == Only(mdiList, ToSet(mdiList) \ ws)
    IN  /\ windows' = windows \ ws
        /\ IF ~Erases THEN UNCHANGED <<mdiList, countVars, playing>>
           ELSE /\ mdiList' = rest
                /\ numPlayWindow' = IF rest = <<>> THEN 0 ELSE plays
                /\ numWFWindow' = IF rest = <<>> THEN 0 ELSE numWFWindow - HowMany("waterfall")
                /\ playing' = (playing /\ ~(HowMany("play") > 0 /\ LastOne(plays)))
        /\ UNCHANGED <<made, curClock>>

(* New windows of trace db, of the kinds ks one after the other.           *)
Opened(db, ks) ==
    LET new == [k \in DOMAIN ks |-> Len(made) + k]
        HowMany(kind) == Cardinality({k \in DOMAIN ks : ks[k] = kind})
    IN  /\ Len(made) + Len(ks) <= MaxWindows
        /\ made' = made \o [k \in DOMAIN ks |-> [db |-> db, kind |-> ks[k]]]
        /\ windows' = windows \cup ToSet(new)
        /\ mdiList' = mdiList \o new
        /\ numPlayWindow' = numPlayWindow + HowMany("play")
        /\ numWFWindow' = numWFWindow + HowMany("waterfall")
        /\ UNCHANGED playVars

(* newResourceDView, newFloorplanDView, newWatchDView, newWaterfallDView,  *)
(* from the menu of an open trace                                          *)
NewWindow(k, kind) ==
    /\ k \in DOMAIN traces
    /\ Opened(traces[k].db, <<kind>>)
    /\ Commanded(FALSE)
    /\ UNCHANGED <<loadVars, traceVars, calls>>

(* A window is closed by its own button, or by do_genericClose when        *)
(* nothing is loading.                                                     *)
CloseWindow(w) ==
    /\ w \in windows
    /\ Closed({w})
    /\ calls' = IF Erases THEN MovedOff(w) ELSE calls
    /\ Commanded(TRUE)
    /\ UNCHANGED <<loadVars, traceVars>>

(* do_closeAllTraceWindows.  It walks the list, that has to be sound, and  *)
(* nothing comes in between.                                               *)
CloseTraceWindows(k) ==
    LET ws == {w \in ToSet(mdiList) : made[w].db = traces[k].db}
    IN  /\ k \in DOMAIN traces /\ ToSet(mdiList) \subseteq windows /\ Closings = {}
        /\ Closed(ws)
        /\ Commanded(TRUE)
        /\ UNCHANGED <<loadVars, traceVars, calls>>

(* do_playFloorplan, do_rewindFloorplan and do_forwardFloorplan, with the  *)
(* window w active                                                         *)
Play(w) ==
    /\ w \in windows /\ numPlayWindow > 0
    /\ playing' = TRUE /\ curClock' = made[w].db
    /\ UNCHANGED <<loadVars, traceVars, made, windows, mdiList, countVars, calls, hasty>>

(* do_stopFloorplan, by the user or because every view came to its last    *)
(* cycle                                                                   *)
StopPlay ==
    /\ playing /\ playing' = FALSE
    /\ UNCHANGED <<loadVars, traceVars, made, windows, mdiList, countVars, curClock, calls,
                   hasty>>

-----------------------------------------------------------------------------
(* Opening and loading.                                                    *)

Idle ==
    /\ loading' = FALSE /\ dreamsdb' = NULL
    /\ timer' = FALSE /\ progress' = FALSE /\ unread' = 0

(* do_genericOpen, past its test of loading, up to the events parseADF     *)
(* processes while it waits for a child process (tar for the files the     *)
(* trace embeds, the ADF's script, its validation): the next file of the   *)
(* command line, or one that the user selects, is refused (or not          *)
(* selected), or becomes the trace being loaded.  `left` are the traces    *)
(* there are, `below` the handlers that wait.                              *)
OpenNext(left, below) ==
    /\ files' = IF files = 0 THEN 0 ELSE files - 1
    /\ \/ Idle /\ dbs' = left /\ calls' = below /\ UNCHANGED opened
       \/ /\ opened < MaxTraces /\ opened' = opened + 1 /\ Len(below) < MaxCalls
          /\ dbs' = left \cup {opened'} /\ dreamsdb' = opened'
          /\ loading' = TRUE /\ timer' = FALSE /\ progress' = FALSE /\ unread' = 0
          /\ calls' = Append(below, [call |-> "open", db |-> opened'])

Open ==
    /\ ~loading
    /\ OpenNext(dbs, calls)
    /\ Commanded(FALSE)
    /\ UNCHANGED <<traces, windowVars>>

Top == Last(calls)
Pop == calls' = Front(calls)
Waiting(call) == calls # <<>> /\ Top.call = call

(* do_genericOpen goes on: the ADF is parsed and the loader starts         *)
(* (IOMgr::startLoading), or it cannot be.                                 *)
ADFParsed ==
    /\ Waiting("open") /\ Pop
    /\ \/ /\ timer' = TRUE /\ progress' = TRUE /\ unread' \in 0 .. MaxSteps
          /\ UNCHANGED <<loading, dreamsdb, dbs>>
       \/ Idle /\ dbs' = dbs \ {dreamsdb}
    /\ UNCHANGED <<files, opened, traces, windowVars, hasty>>

(* IOMgr::processEvent, when there is more to read                         *)
ReadOn ==
    /\ timer /\ unread > 0
    /\ unread' = unread - 1
    /\ UNCHANGED <<loading, dreamsdb, timer, progress, traceVars, windowVars, calls, hasty>>

HiddenM == UNCHANGED progress
(* The dialog of the loader is reset, which hides it.                      *)
Hidden == progress' = FALSE

(* stopRead and cancelRead up to the events they process                   *)
Interrupted(call) ==
    /\ Len(calls) < MaxCalls
    /\ timer' = FALSE /\ Hidden
    /\ calls' = Append(calls, [call |-> call, db |-> dreamsdb])
    /\ UNCHANGED <<loading, dreamsdb, unread, traceVars, windowVars, hasty>>

ReadEndM ==
    /\ timer /\ timer' = FALSE /\ Hidden
    /\ UNCHANGED <<loading, dreamsdb, unread, traceVars, windowVars, calls, hasty>>
(* processEvent comes to the end of the trace, an error, or the end of the *)
(* file.                                                                   *)
ReadEnd == timer /\ Interrupted("stopRead")

(* The Stop and the Abort buttons of the dialog                            *)
StopButton  == progress /\ Interrupted("stopRead")
AbortButton == progress /\ Interrupted("cancelRead")

(* loadFinish, when the loader goes on after stopRead: the windows of a    *)
(* chosen layout are opened and the trace joins the others; or there is no *)
(* layout to open, and the handler ends; or the trace has a fatal error.   *)
(* Then the next file of the command line is opened.                       *)
LoadFinish ==
    LET Then(left) == IF files > 0 THEN OpenNext(left, Front(calls))
                      ELSE Idle /\ dbs' = left /\ Pop /\ UNCHANGED <<files, opened>>
    IN  /\ Waiting("stopRead")
        /\ \/ \E ks \in Layouts \ {<<>>} :
                /\ Opened(dreamsdb, ks)
                /\ traces' = Append(traces, [db |-> dreamsdb, id |-> Len(traces)])
                /\ Then(dbs)
           \/ /\ <<>> \in Layouts
              /\ Idle /\ dbs' = dbs \ {dreamsdb} /\ Pop
              /\ UNCHANGED <<files, opened, traces, windowVars>>
           \/ /\ Then(dbs \ {dreamsdb})
              /\ UNCHANGED <<traces, windowVars>>
        /\ Commanded(FALSE)

(* loadCancel, when the loader goes on after cancelRead                    *)
LoadCancel ==
    /\ Waiting("cancelRead") /\ Pop
    /\ Idle /\ dbs' = dbs \ {dreamsdb}
    /\ UNCHANGED <<files, opened, traces, windowVars, hasty>>

-----------------------------------------------------------------------------
(* Closing a trace, and closing everything.  Both run the event loop       *)
(* before and after each window they close: one step goes from one of      *)
(* these points to the next.  A handler left with a window or a trace that *)
(* was deleted meanwhile has no defined next step.                         *)

RenumberedM(k, t) == t
RenumberedAllM(k, t) == [t EXCEPT !.id = @ - 1]
(* DreamsTraceData::decId for the traces after the one removed, the k-th   *)
(* of those that are left being t                                          *)
Renumbered(k, t) == IF t.id >= k THEN [t EXCEPT !.id = @ - 1] ELSE t

RemovedM(db) ==
    /\ traces' = SelectSeq(traces, LAMBDA t : t.db # db)
    /\ UNCHANGED dbs
(* removeTrace                                                             *)
Removed(db) ==
    LET left == RemoveAt(traces, CHOOSE k \in DOMAIN traces : traces[k].db = db)
    IN  /\ traces' = [k \in DOMAIN left |-> Renumbered(k, left[k])]
        /\ dbs' = dbs \ {db}

Listed == ToSet(mdiList) \subseteq windows

(* do_genericTraceClose of trace db from iterator p on; `below` are the    *)
(* handlers that wait for it.                                              *)
WalkOn(db, p, below) ==
    LET w == FirstOf(db, p)
    IN  IF w = 0 THEN Removed(db) /\ calls' = below
        ELSE /\ calls' = Append(below, [call |-> "traceClose", db |-> db, at |-> w,
                                        next |-> Following(w), closed |-> FALSE])
             /\ UNCHANGED <<traces, dbs>>

TraceClose(k) ==
    /\ k \in DOMAIN traces /\ Listed /\ Len(calls) < MaxCalls - 1
    /\ WalkOn(traces[k].db, HeadOr0(mdiList), calls)
    /\ Commanded(TRUE)
    /\ UNCHANGED <<loadVars, files, opened, windowVars>>

(* The window the handler on top has come to is closed.                    *)
CloseNext(w) ==
    /\ ~Top.closed /\ w \in windows
    /\ Closed({w})
    /\ calls' = [(IF Erases THEN MovedOff(w) ELSE calls) EXCEPT ![Len(calls)].closed = TRUE]
    /\ UNCHANGED <<loadVars, traceVars, hasty>>

TraceCloseStep ==
    /\ Waiting("traceClose") /\ Top.db \in OpenTraces /\ Listed
    /\ \/ CloseNext(Top.at)
       \/ /\ Top.closed
          /\ WalkOn(Top.db, Top.next, Front(calls))
          /\ UNCHANGED <<loadVars, files, opened, windowVars, hasty>>

(* The windows of the work space, in a list of their own                   *)
Copy == Only([k \in DOMAIN made |-> k], windows)

(* The end of do_closeAll: removeTrace of every trace, and reset           *)
AllClosed ==
    /\ traces' = <<>> /\ dbs' = dbs \ OpenTraces
    /\ numPlayWindow' = 0 /\ numWFWindow' = 0
    /\ UNCHANGED <<made, windows, mdiList, playVars>>

CloseAll ==
    /\ ~loading /\ Len(calls) < MaxCalls - 1
    /\ IF windows = {} THEN AllClosed /\ UNCHANGED calls
       ELSE /\ calls' = Append(calls, [call |-> "closeAll", left |-> Copy, closed |-> FALSE])
            /\ UNCHANGED <<traces, dbs, windowVars>>
    /\ Commanded(TRUE)
    /\ UNCHANGED <<loadVars, files, opened>>

CloseAllStep ==
    /\ Waiting("closeAll")
    /\ \/ CloseNext(Top.left[1])
       \/ /\ Top.closed
          /\ IF Len(Top.left) = 1 THEN AllClosed /\ Pop
             ELSE /\ calls' = Append(Front(calls),
                                     [Top EXCEPT !.left = Tail(@), !.closed = FALSE])
                  /\ UNCHANGED <<traces, dbs, windowVars>>
          /\ UNCHANGED <<loadVars, files, opened, hasty>>

-----------------------------------------------------------------------------
Next ==
    \/ Open \/ ADFParsed \/ ReadOn \/ ReadEnd \/ StopButton \/ AbortButton
    \/ LoadFinish \/ LoadCancel
    \/ \E k \in 1 .. MaxTraces :
        TraceClose(k) \/ CloseTraceWindows(k) \/ \E kind \in Kinds : NewWindow(k, kind)
    \/ \E w \in 1 .. MaxWindows : CloseWindow(w) \/ Play(w)
    \/ StopPlay \/ CloseAll \/ TraceCloseStep \/ CloseAllStep

(* The timer of the loader fires at every turn of the event loop, a        *)
(* handler that runs the loop gets control back once nothing is pending,   *)
(* and the child processes of the ADF end.                                 *)
Fairness ==
    /\ WF_vars(ADFParsed) /\ WF_vars(ReadOn) /\ WF_vars(ReadEnd /\ unread = 0)
    /\ WF_vars(LoadFinish) /\ WF_vars(LoadCancel)
    /\ WF_vars(TraceCloseStep) /\ WF_vars(CloseAllStep)

Spec == Init /\ [][Next]_vars
FairSpec == Spec /\ Fairness

-----------------------------------------------------------------------------
(* Properties.                                                             *)

(* The types of the variables.                                             *)
TypeOK ==
    /\ loading \in BOOLEAN /\ timer \in BOOLEAN /\ progress \in BOOLEAN /\ playing \in BOOLEAN
    /\ unread \in 0 .. MaxSteps /\ files \in 0 .. MaxTraces /\ opened \in 0 .. MaxTraces
    /\ dbs \subseteq 1 .. opened /\ {dreamsdb, curClock} \subseteq {NULL} \cup 1 .. opened
    /\ traces \in Seq([db : 1 .. opened, id : 0 .. MaxTraces])
    /\ made \in Seq([db : 1 .. opened, kind : Kinds]) /\ Len(made) <= MaxWindows
    /\ windows \subseteq DOMAIN made /\ mdiList \in Seq(DOMAIN made)
    /\ numPlayWindow \in Int /\ numWFWindow \in Int /\ hasty \in BOOLEAN
    /\ \A k \in DOMAIN calls :
        calls[k].call \in {"open", "stopRead", "cancelRead", "traceClose", "closeAll"}
    /\ Len(calls) <= MaxCalls

(* The handlers that wait in the middle of opening or ending the load      *)
Loaders == {k \in DOMAIN calls : calls[k].call \in {"open", "stopRead", "cancelRead"}}

(* Whatever the user does while a trace is being opened or loading, the    *)
(* timer, the buttons of the dialog and the handlers of the load find the  *)
(* trace they are for: it is the one being loaded, it exists, it is not    *)
(* one of the open ones, and exactly one of the timer and the handlers     *)
(* will go on with it.                                                     *)
LoaderAlive ==
    /\ loading <=> dreamsdb # NULL
    /\ dreamsdb # NULL => dreamsdb \in dbs \ OpenTraces
    /\ timer \/ progress => loading /\ Loaders = {}
    /\ Cardinality(Loaders) <= 1 /\ \A k \in Loaders : calls[k].db = dreamsdb
    /\ loading => timer \/ Loaders # {}

(* A DreamsDB exists as long as it is an open trace or the one being       *)
(* loaded: however traces are opened, stopped, aborted, refused and        *)
(* closed, none is lost and none is used after it was deleted.             *)
DBsOwned == dbs = OpenTraces \cup ({dreamsdb} \ {NULL})

(* The id of a trace is its place among the open ones, where its menu is:  *)
(* DreamsTraceData::id, "decremented if a previous trace is deleted".      *)
TraceIds == \A k \in DOMAIN traces : traces[k].id = k - 1

(* Unless the user is hasty, the windows Dreams keeps informed are those   *)
(* that exist, each once; every window shows an open trace; and a handler  *)
(* that waits goes on with windows and a trace that still exist.           *)
NothingDangles ==
    ~hasty =>
        /\ windows = ToSet(mdiList) /\ IsInjective(mdiList)
        /\ \A w \in windows : made[w].db \in OpenTraces
        /\ \A k \in Closings :
            LET f == calls[k]
            IN  IF f.call = "closeAll"
                THEN ToSet(f.left) \ windows \subseteq (IF f.closed THEN {f.left[1]} ELSE {})
                ELSE /\ f.db \in OpenTraces /\ f.next \in {0} \cup windows
                     /\ ~f.closed => f.at \in windows

(* Unless the user is hasty, the tools are there for the windows that need *)
(* them: the counts are those of the windows that exist, and the animation *)
(* does not run without a window to play.                                  *)
CountsRight ==
    LET HowMany(kind) == Cardinality({w \in windows : made[w].kind = kind})
    IN  ~hasty => /\ numPlayWindow = HowMany("play") /\ numWFWindow = HowMany("waterfall")
                  /\ playing => HowMany("play") > 0

(* The load of a trace comes to an end, whatever the user does meanwhile   *)
(* but closing things: the trace is open, or its database is gone.         *)
LoadEnds == \A db \in 1 .. MaxTraces : (dreamsdb = db) ~> (dreamsdb # db \/ hasty)

(* mdiCloseEvent "erases the window from the mdi list".                    *)
ListIsLive == ToSet(mdiList) \subseteq windows

(* Dreams::curClock is "the current clock domain": while the animation     *)
(* runs, which reads it, the trace it belongs to exists (the user not being*)
(* hasty).                                                                 *)
ClockIsLive == ~hasty /\ playing => curClock \in dbs
=============================================================================
