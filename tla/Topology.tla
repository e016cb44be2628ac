------------------------------ MODULE Topology ------------------------------
(***************************************************************************)
(* Video-present topology: graphics adapters and their display targets,    *)
(* the published snapshot of them, the desktop source, and the             *)
(* transaction (validate, then commit) that moves the desktop to a mode of *)
(* a target.                                                               *)
(*                                                                         *)
(* Every section that calls a driver holds the callback gate (DriverLock), *)
(* so a section is one step here; between two sections of an operation any *)
(* other operation may run.  A mode is a number; `caps' is the set of      *)
(* modes the monitor of a target approves, `hw' what the hardware does.    *)
(***************************************************************************)
EXTENDS Integers, FiniteSets

CONSTANTS Target,       \* display heads
          Adapter,      \* graphics adapters
          AdapterOf,    \* head -> its adapter
          Mode,         \* driver mode indices
          Client,       \* processes changing the topology
          HotPlugged,   \* heads whose monitor comes and goes
          MaxGeneration \* bound on g_topology_generation

VARIABLES adapters,  \* adapter -> [state, rgen]
          targets,   \* head -> its KDisplay
          desktop,   \* g_desktop_source and g_active_path
          generation,\* g_topology_generation
          published, \* g_snapshot
          job,       \* client -> the transaction it is in
          refresh    \* the KE_GFX_RefreshAdapter in progress

topVars == <<adapters, targets, desktop, generation, published, job, refresh>>

NoTarget == 0
NoMode == 0
Off == [known |-> TRUE, enabled |-> FALSE, mode |-> NoMode]
NoDisplay == [exists |-> FALSE, present |-> FALSE, removed |-> FALSE,
              attached |-> FALSE, degraded |-> FALSE, cur |-> NoMode,
              caps |-> {}, hw |-> Off]
NoDesktop == [active |-> FALSE, target |-> NoTarget, mode |-> NoMode,
              path |-> FALSE, pathTarget |-> NoTarget]
NoObs == [present |-> FALSE, caps |-> {}, degraded |-> FALSE, rgen |-> 0, hw |-> Off]
NoSnapshot == [gen |-> 0, live |-> {}, obs |-> [t \in Target |-> NoObs],
               count |-> 0, valid |-> TRUE, target |-> NoTarget]
IdleJob == [pc |-> "idle", goal |-> "none", target |-> NoTarget, mode |-> NoMode,
            gen |-> 0, snap |-> NoSnapshot, reserved |-> FALSE,
            seen |-> NoObs] \* seen: the target when it was validated, for the properties
NoRefresh == [pc |-> "idle", adapter |-> "none", gen |-> 0,
              rec |-> [t \in Target |-> [valid |-> FALSE, present |-> FALSE,
                                         caps |-> {}, fits |-> FALSE]]]

TopInit ==
    /\ adapters = [a \in Adapter |-> [state |-> "Uninitialized", rgen |-> 0]]
    /\ targets = [t \in Target |-> NoDisplay]
    /\ desktop = NoDesktop
    /\ generation = 1
    /\ published = NoSnapshot
    /\ job = [c \in Client |-> IdleJob]
    /\ refresh = NoRefresh

Live(ts) == {t \in Target : ts[t].exists /\ ~ts[t].removed}

Observe(ts, as, t) == [present |-> ts[t].present, caps |-> ts[t].caps,
                       degraded |-> ts[t].degraded, rgen |-> as[AdapterOf[t]].rgen,
                       hw |-> ts[t].hw]

SnapshotMatches(s) ==
    /\ s.live = Live(targets)
    /\ \A t \in s.live : s.obs[t] = Observe(targets, adapters, t)

\* The active path as a snapshot reports it; invalid when the desktop source,
\* its target and the hardware disagree.
CapturePaths(s, d, ts) ==
    [s EXCEPT
        !.count = IF d.active THEN 1 ELSE 0,
        !.target = d.pathTarget,
        !.valid = d.active =>
            /\ d.target # NoTarget /\ d.path /\ d.pathTarget = d.target
            /\ LET x == ts[d.target]
               IN  ~x.removed /\ x.cur = d.mode
                   /\ x.hw = [known |-> TRUE, enabled |-> TRUE, mode |-> x.cur]]

(***************************************************************************)
(* Acquiring a snapshot: the published one if it still matches, a new one  *)
(* otherwise.                                                              *)
(***************************************************************************)
Go(c, j) == job' = [job EXCEPT ![c] = j]
TopAt(c, pc) == job[c].pc = pc

\* A call ends.  On Retry the commit finishes the reservation; other errors
\* close the token, whose destructor finishes it.
Ended == IdleJob

AcquirePublished(c) ==
    /\ TopAt(c, "acquire")
    /\ LET j == job[c]
       IN  Go(c, IF j.gen # generation THEN Ended
                 ELSE IF published.gen = generation
                 THEN [j EXCEPT !.pc = "match", !.snap = published]
                 ELSE [j EXCEPT !.pc = "count"])
    /\ UNCHANGED <<adapters, targets, desktop, generation, published, refresh>>

MatchPublished(c) ==
    /\ TopAt(c, "match")
    /\ LET j == job[c]
           matches == SnapshotMatches(j.snap)
           gen == IF ~matches /\ j.snap.gen = generation THEN generation + 1 ELSE generation
       IN  /\ gen <= MaxGeneration
           /\ generation' = gen
           /\ Go(c, IF j.gen # gen THEN Ended ELSE [j EXCEPT !.pc = "use"])
    /\ UNCHANGED <<adapters, targets, desktop, published, refresh>>

\* First section of BuildSnapshot; the allocations behind it may fail.
BuildCount(c, memory) ==
    /\ TopAt(c, "count")
    /\ Go(c, IF memory THEN [job[c] EXCEPT !.pc = "observe",
                                           !.snap = [NoSnapshot EXCEPT !.gen = generation,
                                                       !.count = IF desktop.active THEN 1 ELSE 0]]
             ELSE IF job[c].goal = "commit" THEN [job[c] EXCEPT !.pc = "token"] ELSE Ended)
    /\ UNCHANGED <<adapters, targets, desktop, generation, published, refresh>>

BuildObserve(c) ==
    /\ TopAt(c, "observe")
    /\ LET j == job[c]
       IN  Go(c, IF j.snap.gen # generation THEN Ended
                 ELSE [j EXCEPT !.pc = "modes", !.snap.live = Live(targets),
                          !.snap.obs = [t \in Target |->
                                IF t \in Live(targets) THEN Observe(targets, adapters, t)
                                ELSE NoObs]])
    /\ UNCHANGED <<adapters, targets, desktop, generation, published, refresh>>

\* The modes are those of the observation, or the call is retried.
BuildModes(c) ==
    /\ TopAt(c, "modes")
    /\ LET j == job[c]
           same == \A t \in j.snap.live :
                      ~targets[t].removed /\ j.snap.obs[t] = Observe(targets, adapters, t)
       IN  Go(c, IF same THEN [j EXCEPT !.pc = "publish"] ELSE Ended)
    /\ UNCHANGED <<adapters, targets, desktop, generation, published, refresh>>

StillCurrent(s) == SnapshotMatches(s) /\ s.gen = generation

BuildPublish(c) ==
    /\ TopAt(c, "publish")
    /\ LET j == job[c]
           s == CapturePaths(j.snap, desktop, targets)
       IN  IF StillCurrent(j.snap) /\ s.count <= j.snap.count
           THEN /\ published' = s
                /\ Go(c, IF j.gen # s.gen THEN Ended ELSE [j EXCEPT !.pc = "use", !.snap = s])
           ELSE published' = published /\ Go(c, Ended)
    /\ UNCHANGED <<adapters, targets, desktop, generation, refresh>>

(***************************************************************************)
(* Validate: a path of the snapshot is resolved and its mode reserved.     *)
(***************************************************************************)
Validate(c, t, m) ==
    /\ TopAt(c, "idle") /\ m \in Mode
    /\ Go(c, [IdleJob EXCEPT !.pc = "acquire", !.goal = "validate", !.target = t,
                             !.mode = m, !.gen = generation])
    /\ UNCHANGED <<adapters, targets, desktop, generation, published, refresh>>

InSnapshot(s, t, m) == t \in s.live /\ m \in s.obs[t].caps

PreparePath(c, driverOk) ==
    /\ TopAt(c, "use") /\ job[c].goal = "validate"
    /\ LET j == job[c]
           ok == /\ j.gen = generation
                 /\ targets[j.target].exists /\ ~targets[j.target].removed
                 /\ targets[j.target].present
                 /\ InSnapshot(j.snap, j.target, j.mode)
                 /\ driverOk /\ j.mode \in targets[j.target].caps
       IN  Go(c, IF ok THEN [j EXCEPT !.pc = "token", !.reserved = TRUE, !.snap = NoSnapshot,
                                           !.seen = Observe(targets, adapters, j.target)]
                 ELSE Ended)
    /\ UNCHANGED <<adapters, targets, desktop, generation, published, refresh>>

CloseToken(c) ==
    /\ TopAt(c, "token")
    /\ Go(c, Ended)
    /\ UNCHANGED <<adapters, targets, desktop, generation, published, refresh>>

Commit(c) ==
    /\ TopAt(c, "token")
    /\ Go(c, [job[c] EXCEPT !.pc = "acquire", !.goal = "commit"])
    /\ UNCHANGED <<adapters, targets, desktop, generation, published, refresh>>

(***************************************************************************)
(* ProgramDisplayMode.  `fault' is the driver call that fails, `restored'  *)
(* whether putting the previous state back succeeds, `lost' whether the    *)
(* failing call leaves the hardware in an unknown state.                   *)
(***************************************************************************)
Fault == {"none", "refuse", "disable", "program", "enable"}

Programmed(x, m, fault, restored, lost) ==
    LET before == x.hw
        unknown == [before EXCEPT !.known = FALSE]
        back == before.known /\ restored /\ ~lost
        after == IF back THEN before
                 ELSE IF lost THEN unknown
                 ELSE [known |-> TRUE, enabled |-> FALSE, mode |-> m]
        failed == [x EXCEPT !.hw = after,
                            !.degraded = ~back \/ ~after.known
                                         \/ after.enabled # before.enabled
                                         \/ (before.known /\ after.mode # before.mode),
                            !.attached = after.known /\ after.enabled]
    IN  CASE fault = "disable" ->
                LET hw == IF lost THEN unknown ELSE before
                IN  [ok |-> FALSE,
                     x |-> [x EXCEPT !.hw = hw, !.degraded = ~hw.known,
                                     !.attached = hw.known /\ hw.enabled]]
          [] fault \in {"program", "enable"} -> [ok |-> FALSE, x |-> failed]
          [] OTHER ->
                [ok |-> TRUE,
                 x |-> [x EXCEPT !.hw = [known |-> TRUE, enabled |-> TRUE, mode |-> m],
                                 !.cur = m, !.attached = TRUE, !.degraded = FALSE]]

\* The previous target is switched off once the new one shows the desktop; if
\* that fails the new one is switched off again and both are degraded.
Release(ts, p, t, prevOk, lost, backOk) ==
    LET old == [ts[p].hw EXCEPT !.known = @ /\ ~lost]
        prev == IF prevOk THEN [ts[p] EXCEPT !.hw.enabled = FALSE, !.attached = FALSE]
                ELSE [ts[p] EXCEPT !.degraded = TRUE, !.hw = old,
                                   !.attached = old.known /\ old.enabled]
        hw == [ts[t].hw EXCEPT !.enabled = ~backOk]
        new == IF prevOk THEN ts[t]
               ELSE [ts[t] EXCEPT !.degraded = TRUE, !.hw = hw, !.attached = hw.enabled]
    IN  [ts EXCEPT ![p] = prev, ![t] = new]

Showing(t, m) == [active |-> TRUE, target |-> t, mode |-> m, path |-> TRUE,
                  pathTarget |-> t]

\* Which target the desktop is on after a commit of mode m on t.
DesktopAfter(d, ts, t, m, ok, released) ==
    IF ok /\ released THEN Showing(t, m)
    ELSE IF ok
    THEN LET p == d.target
         IN  IF ts[p].attached /\ ~ts[t].attached THEN d
             ELSE IF ts[t].attached /\ ~ts[p].attached THEN Showing(t, ts[t].cur)
             ELSE [NoDesktop EXCEPT !.pathTarget = d.pathTarget]
    ELSE IF d.active /\ d.target = t /\ ~ts[t].attached
    THEN [NoDesktop EXCEPT !.pathTarget = d.pathTarget]
    ELSE d

MayCommit(j) ==
    /\ j.gen = generation
    /\ targets[j.target].exists /\ ~targets[j.target].removed
    /\ targets[j.target].present
    /\ InSnapshot(j.snap, j.target, j.mode)

LeavesTarget(d, t) == d.active /\ d.target # NoTarget /\ d.target # t

CommitPath(c, fault, restored, lost, prevOk, backOk) ==
    /\ TopAt(c, "use") /\ job[c].goal = "commit" /\ generation < MaxGeneration
    /\ LET j == job[c]
           t == j.target
           same == /\ desktop.active /\ desktop.target = t
                   /\ targets[t].attached /\ targets[t].cur = j.mode
           made == Programmed(targets[t], j.mode, fault, restored, lost)
           moved == [targets EXCEPT ![t] = made.x]
           leaves == made.ok /\ LeavesTarget(desktop, t)
           done == IF leaves THEN Release(moved, desktop.target, t, prevOk, lost, backOk) ELSE moved
           d == DesktopAfter(desktop, done, t, j.mode, made.ok, leaves => prevOk)
           s == [j.snap EXCEPT !.gen = generation + 1,
                    !.obs = [x \in Target |-> IF x \in j.snap.live
                                              THEN Observe(done, adapters, x) ELSE NoObs]]
       IN  IF ~MayCommit(j) \/ same \/ fault = "refuse" \/ j.mode \notin targets[t].caps
           THEN UNCHANGED <<targets, desktop, generation, published>>
           ELSE /\ targets' = done
                /\ desktop' = d
                /\ generation' = generation + 1
                /\ published' = CapturePaths(s, d, done)
    /\ Go(c, Ended)
    /\ UNCHANGED <<adapters, refresh>>

\* No room for the result, or no memory for the next snapshot: the token is
\* kept for another attempt, if the generation still is the one it was made for.
CommitLater(c) ==
    /\ TopAt(c, "use") /\ job[c].goal = "commit"
    /\ Go(c, IF job[c].gen = generation
             THEN [job[c] EXCEPT !.pc = "token", !.snap = NoSnapshot] ELSE Ended)
    /\ UNCHANGED <<adapters, targets, desktop, generation, published, refresh>>

(***************************************************************************)
(* Adapters: start, refresh after a change, removal.                       *)
(***************************************************************************)
\* The heads of an adapter that become targets, one generation each.
Discovered(ts, a) == {t \in Target : AdapterOf[t] = a /\ ~ts[t].exists}

Added(ts, a) == [t \in Target |-> IF t \in Discovered(ts, a)
                                  THEN [NoDisplay EXCEPT !.exists = TRUE, !.present = TRUE,
                                                         !.caps = Mode]
                                  ELSE ts[t]]

\* What ProbeDisplay may report: all modes, one of them, or no monitor.
Report == {[valid |-> TRUE, present |-> TRUE, caps |-> Mode],
           [valid |-> TRUE, present |-> FALSE, caps |-> {}],
           [valid |-> FALSE, present |-> FALSE, caps |-> {}]}
          \cup {[valid |-> TRUE, present |-> TRUE, caps |-> {m}] : m \in Mode}

StartAdapter(a, probed) ==
    /\ adapters[a].state = "Uninitialized"
    /\ generation + Cardinality(Discovered(targets, a)) <= MaxGeneration
    /\ IF probed
       THEN /\ adapters' = [adapters EXCEPT ![a].state = "Running"]
            /\ targets' = Added(targets, a)
            /\ generation' = generation + Cardinality(Discovered(targets, a))
       ELSE /\ adapters' = [adapters EXCEPT ![a].state = "Terminated"]
            /\ UNCHANGED <<targets, generation>>
    /\ UNCHANGED <<desktop, published, job, refresh>>

RefreshCount(a) ==
    /\ refresh.pc = "idle" /\ adapters[a].state = "Running"
    /\ \E t \in Live(targets) : AdapterOf[t] = a
    /\ refresh' = [NoRefresh EXCEPT !.pc = "probe", !.adapter = a, !.gen = generation]
    /\ UNCHANGED <<adapters, targets, desktop, generation, published, job>>

RefreshProbe(report) ==
    /\ refresh.pc = "probe"
    /\ LET a == refresh.adapter
           ours == {t \in Live(targets) : AdapterOf[t] = a}
           Seen(t) == LET r == IF t \in HotPlugged THEN report
                               ELSE [valid |-> TRUE, present |-> targets[t].present,
                                     caps |-> targets[t].caps]
                          x == targets[t]
                      IN  IF t \notin ours THEN NoRefresh.rec[t]
                          ELSE [valid |-> r.valid, present |-> r.present, caps |-> r.caps,
                                fits |-> x.attached /\ x.cur \in x.caps /\ x.cur \in r.caps]
       IN  refresh' = IF adapters[a].state # "Running" \/ refresh.gen # generation
                      THEN NoRefresh
                      ELSE [refresh EXCEPT !.pc = "apply", !.rec = [t \in Target |-> Seen(t)]]
    /\ UNCHANGED <<adapters, targets, desktop, generation, published, job>>

\* A target that went away, or whose monitor lost the current mode, is
\* switched off; one that cannot be is degraded and stays attached.
Refreshed(x, r, off) ==
    IF ~r.valid THEN x
    ELSE LET y == [x EXCEPT !.present = r.present, !.caps = r.caps]
         IN  IF r.present /\ (x.attached => r.fits) THEN y
             ELSE IF off
             THEN [y EXCEPT !.hw.enabled = FALSE, !.hw.known = TRUE, !.attached = FALSE,
                            !.degraded = FALSE]
             ELSE [y EXCEPT !.attached = x.hw.known /\ x.hw.enabled, !.degraded = TRUE]

DroppedTarget(r, x) == r.valid /\ ~(r.present /\ (x.attached => r.fits))

\* A plausible slip: the desktop keeps its target when it is switched off.
InvalidateKeeps(d, gone) == d

InvalidateActiveTarget(d, gone) ==
    IF d.target \in gone THEN [NoDesktop EXCEPT !.pathTarget = d.pathTarget] ELSE d

GenerationAfterRefresh == generation + 1

RefreshApply(off) ==
    /\ refresh.pc = "apply"
    /\ generation < MaxGeneration
    /\ IF adapters[refresh.adapter].state # "Running" \/ refresh.gen # generation
       THEN /\ refresh' = NoRefresh
            /\ UNCHANGED <<adapters, targets, desktop, generation>>
       ELSE LET a == refresh.adapter
            IN  /\ adapters' = [adapters EXCEPT ![a].rgen = @ + 1]
                /\ targets' = [t \in Target |-> IF AdapterOf[t] = a
                                 THEN Refreshed(targets[t], refresh.rec[t], off) ELSE targets[t]]
                /\ desktop' = InvalidateActiveTarget(desktop,
                                {t \in Target : AdapterOf[t] = a
                                                /\ DroppedTarget(refresh.rec[t], targets[t])})
                /\ generation' = GenerationAfterRefresh
                /\ refresh' = [NoRefresh EXCEPT !.pc = "discover", !.adapter = a]
    /\ UNCHANGED <<published, job>>

RefreshDiscover ==
    /\ refresh.pc = "discover"
    /\ LET a == refresh.adapter
           more == adapters[a].state = "Running"
       IN  /\ more => generation + Cardinality(Discovered(targets, a)) <= MaxGeneration
           /\ targets' = IF more THEN Added(targets, a) ELSE targets
           /\ generation' = IF more THEN generation + Cardinality(Discovered(targets, a))
                            ELSE generation
    /\ refresh' = NoRefresh
    /\ UNCHANGED <<adapters, desktop, published, job>>

\* remove_device and KE_GFX_RemoveAdapter: the targets of the adapter go.
RemoveAdapter(a) ==
    /\ adapters[a].state = "Running"
    /\ LET gone == {t \in Live(targets) : AdapterOf[t] = a}
       IN  /\ generation + Cardinality(gone) <= MaxGeneration
           /\ adapters' = [adapters EXCEPT ![a].state = "Terminated"]
           /\ targets' = [t \in Target |-> IF t \in gone
                            THEN [targets[t] EXCEPT !.present = FALSE, !.removed = TRUE,
                                                    !.attached = FALSE, !.degraded = FALSE]
                            ELSE targets[t]]
           /\ desktop' = InvalidateActiveTarget(desktop, gone)
           /\ generation' = generation + Cardinality(gone)
    /\ UNCHANGED <<published, job, refresh>>

TopNext ==
    \/ \E c \in Client :
        \/ AcquirePublished(c) \/ MatchPublished(c)
        \/ \E memory \in BOOLEAN : BuildCount(c, memory)
        \/ BuildObserve(c) \/ BuildModes(c) \/ BuildPublish(c)
        \/ \E t \in Target, m \in Mode : Validate(c, t, m)
        \/ \E driverOk \in BOOLEAN : PreparePath(c, driverOk)
        \/ CloseToken(c) \/ Commit(c) \/ CommitLater(c)
        \/ \E fault \in Fault, restored, lost, prevOk, backOk \in BOOLEAN :
              CommitPath(c, fault, restored, lost, prevOk, backOk)
    \/ \E a \in Adapter : \/ \E probed \in BOOLEAN : StartAdapter(a, probed)
                          \/ RefreshCount(a) \/ RemoveAdapter(a)
    \/ \E report \in Report : RefreshProbe(report)
    \/ \E off \in BOOLEAN : RefreshApply(off)
    \/ RefreshDiscover

TopSpec == TopInit /\ [][TopNext]_topVars

(***************************************************************************)
(* Properties.                                                             *)
(***************************************************************************)
\* The desktop is only ever on a connected target that is still there, and,
\* unless that target is degraded, its hardware is known to show the current
\* mode: a failed mode set, a refresh or a removal never leaves the desktop
\* believing in a target that is off.
DesktopIsShown ==
    desktop.active =>
        LET x == targets[desktop.target]
        IN  /\ desktop.target # NoTarget /\ x.exists /\ ~x.removed
            /\ ~x.degraded => /\ x.attached /\ x.hw.known /\ x.hw.enabled
                              /\ x.hw.mode = desktop.mode
                              /\ desktop.path /\ desktop.pathTarget = desktop.target

\* No output stays switched on unnoticed: a target whose hardware is on is
\* reported attached or degraded, and one reported attached without being
\* degraded is on, after every failed, restored or half-finished mode set.  (It
\* need not be the desktop's: a refresh that fails to switch a target off leaves
\* it on and degraded, and a later commit that fails on it and restores it
\* clears the mark, gfx_management.cpp:1352.)
OutputsAreReported ==
    \A t \in Live(targets) :
        LET x == targets[t]
            on == x.hw.known /\ x.hw.enabled
        IN  /\ on => x.attached \/ x.degraded
            /\ x.attached /\ ~x.degraded => on

\* The published snapshot, while its generation is current, is the topology:
\* what a client enumerates is never mixed from before and after a change.
PublishedIsCurrent ==
    published.gen = generation => SnapshotMatches(published)

\* A commit touches the hardware only if its target still is what it was when
\* the path was validated: a monitor replaced or unplugged in between, even
\* after the commit took its snapshot, makes the commit fail instead.
CommitsWhatWasValidated ==
    \A c \in Client :
          job[c].goal = "commit" /\ job[c].pc = "use" /\ job'[c].pc = "idle"
          /\ targets' # targets
            => job[c].seen = Observe(targets, adapters, job[c].target)

(* What is published, what the hardware shows and what the desktop is on   *)
(* agree.                                                                  *)
TopologyCoherent == DesktopIsShown /\ OutputsAreReported /\ PublishedIsCurrent
=============================================================================
