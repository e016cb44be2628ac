---------------------------- MODULE MessageQueue ----------------------------
(***************************************************************************)
(* The message queue of one thread (Kernel/Source/src/user/msgqueue.cpp    *)
(* and msgring.hpp), the windows it serves, and the paint cycle that       *)
(* paint.cpp keeps with it.  Posters, the raw input thread and the owner   *)
(* run under the window manager's lock; get_message drops it to wait on    *)
(* the queue's manual-reset header.  "visible" is effective visibility,    *)
(* and damage is a flag: some area of the client is invalid.               *)
(***************************************************************************)
EXTENDS Integers, Sequences, FiniteSets

CONSTANTS
    Window,
    kQueueSize, kPaintFairnessBacklog,
    MaxSeparate             \* bound: notices of all windows pending at a time

ASSUME QueueAssumption ==
    /\ kQueueSize \in Nat /\ kPaintFairnessBacklog \in Nat /\ MaxSeparate \in Nat
    /\ "none" \notin Window

VARIABLES
    queue,     \* ring, header, and where the thread is in get_message
    win,       \* the windows of this queue
    untold     \* history: windows created whose WM_CREATE was not yet delivered

mqVars == <<queue, win, untold>>

GeometryNotices == {"move", "size"}
NoWindow == [alive |-> FALSE, visible |-> FALSE, invalid |-> FALSE, paintDC |-> "none",
             painting |-> FALSE, pending |-> {}]

QueueInit ==
    /\ queue = [ring |-> <<>>, signalled |-> FALSE, pc |-> "run"]
    /\ win = [w \in Window |-> NoWindow]
    /\ untold = {}

-----------------------------------------------------------------------------
(* wake_locked: the header is set and the thread, if it sleeps, runs.      *)
wake(q) == [q EXCEPT !.signalled = TRUE, !.pc = IF @ = "asleep" THEN "look" ELSE @]

Merges(q, m) == m.kind = "mousemove" /\ q.ring # <<>> /\ q.ring[Len(q.ring)] = m

(* MessageRing::Push: a move is merged into a newest move of its window; a *)
(* full ring refuses the message and nobody is woken.                      *)
MsgPush(q, m) == IF Merges(q, m) THEN q ELSE [q EXCEPT !.ring = Append(@, m)]
post(q, m) ==
    IF Len(q.ring) = kQueueSize /\ ~Merges(q, m) THEN q ELSE wake(MsgPush(q, m))

RemoveFor(ring, w) ==
    LET keep[k \in 0..Len(ring)] ==
          IF k = 0 THEN <<>>
          ELSE IF ring[k].hwnd # w THEN Append(keep[k - 1], ring[k]) ELSE keep[k - 1]
    IN  keep[Len(ring)]

(* Faulty variant: damage wakes nobody.                                    *)
invalidate_quietly(q, seen) == q
wake_if_seen(q, seen) == IF seen THEN wake(q) ELSE q

(* expose_locked and invalidate_locked: damage, and a wakeup if visible.   *)
invalidated(w) == [win EXCEPT ![w].invalid = TRUE]

-----------------------------------------------------------------------------
(* The other threads.                                                      *)
PostMessage ==
    /\ \E w \in Window : win[w].alive /\ \E k \in {"post", "mousemove"} :
          queue' = post(queue, [hwnd |-> w, kind |-> k])
    /\ UNCHANGED <<win, untold>>
PostThreadMessage ==
    /\ queue' = post(queue, [hwnd |-> "none", kind |-> "post"]) /\ UNCHANGED <<win, untold>>

Invalidate(w) ==
    /\ win[w].alive /\ win' = invalidated(w)
    /\ queue' = wake_if_seen(queue, win[w].visible) /\ UNCHANGED untold

(* show_window_locked exposes what it shows; hiding exposes others only.   *)
ShowWin(w) ==
    /\ win[w].alive /\ ~win[w].visible
    /\ win' = [win EXCEPT ![w].visible = TRUE, ![w].invalid = TRUE]
    /\ queue' = wake_if_seen(queue, TRUE) /\ UNCHANGED untold
HideWin(w) ==
    /\ win[w].alive /\ win[w].visible /\ win' = [win EXCEPT ![w].visible = FALSE]
    /\ UNCHANGED <<queue, untold>>

(* move_window_locked leaves Move and Size, show_command_locked Size, a    *)
(* font change its notice and perhaps Move; each wakes the queue.          *)
Notify(w, what, exposed) ==
    /\ win[w].alive
    /\ win' = [win EXCEPT ![w].pending = @ \cup what, ![w].invalid = @ \/ exposed]
    /\ MaxSeparate >= Cardinality(UNION {{<<v, n>> : n \in win'[v].pending} : v \in Window})
    /\ queue' = wake(queue) /\ UNCHANGED untold
Notices ==
    \E w \in Window : \/ \E what \in {GeometryNotices, {"size"}, {"font"}, {"font", "move"}} :
                            Notify(w, what, win[w].visible)
                      \/ Notify(w, {"display"}, TRUE)

-----------------------------------------------------------------------------
(* The thread, outside get_message.                                        *)
PumpRuns == queue.pc = "run"

RoomForCreate(q) == Len(q.ring) < kQueueSize

queue_create(w, visible) ==
    /\ PumpRuns /\ ~win[w].alive /\ RoomForCreate(queue)
    /\ win' = [win EXCEPT ![w] = [NoWindow EXCEPT !.alive = TRUE, !.visible = visible,
                                                  !.invalid = visible]]
    /\ queue' = post(wake_if_seen(queue, visible), [hwnd |-> w, kind |-> "create"])
    /\ untold' = untold \cup {w}
queue_destroy(w) ==
    /\ PumpRuns /\ win[w].alive /\ win' = [win EXCEPT ![w] = NoWindow]
    /\ queue' = [queue EXCEPT !.ring = RemoveFor(@, w)] /\ untold' = untold \ {w}

(* Faulty variant: the damage under such a DC is taken as painted.         *)
RecoverForgets(x) ==
    IF x.paintDC = "dead" THEN [x EXCEPT !.paintDC = "none", !.painting = FALSE] ELSE x

(* A paint DC closed behind the window's back gives its damage back.       *)
Recover(x) ==
    IF x.paintDC = "dead"
    THEN [x EXCEPT !.invalid = @ \/ x.painting, !.paintDC = "none", !.painting = FALSE] ELSE x

begin_paint(w) ==
    /\ PumpRuns /\ win[w].alive /\ win[w].paintDC # "live"
    /\ win' = [win EXCEPT ![w] = [Recover(@) EXCEPT !.painting = Recover(win[w]).invalid,
                                                    !.invalid = FALSE, !.paintDC = "live"]]
    /\ UNCHANGED <<queue, untold>>
end_paint(w) ==
    /\ PumpRuns /\ win[w].paintDC = "live"
    /\ win' = [win EXCEPT ![w].paintDC = "none", ![w].painting = FALSE] /\ UNCHANGED <<queue, untold>>
delete_dc(w) ==
    /\ PumpRuns /\ win[w].paintDC = "live"
    /\ win' = [win EXCEPT ![w].paintDC = "dead"] /\ UNCHANGED <<queue, untold>>

-----------------------------------------------------------------------------
(* get_message: one look at everything pending, under the lock.            *)
Candidate(v) == {w \in Window : v[w].visible /\ v[w].paintDC = "none" /\ v[w].invalid}
WithPending(kind) == {w \in Window : win[w].pending \cap kind # {}}
Looked == [w \in Window |-> Recover(win[w])]

(* should_serve_paint_before_input_locked looks for a candidate, and so    *)
(* recovers damage, only behind a backlog.                                 *)
Backlog == Len(queue.ring) >= kPaintFairnessBacklog
PaintFirst == Backlog /\ Candidate(Looked) # {}

ReturnMessage(w) == queue' = [queue EXCEPT !.pc = "run"] /\ win' = w

GetFont ==
    /\ \E w \in WithPending({"font"}) : ReturnMessage([win EXCEPT ![w].pending = @ \ {"font"}])
    /\ UNCHANGED untold
GetInput(remove) ==
    /\ WithPending({"font"}) = {} /\ ~PaintFirst /\ queue.ring # <<>>
    /\ queue' = [queue EXCEPT !.pc = "run", !.ring = IF remove THEN Tail(@) ELSE @]
    /\ untold' = IF remove /\ Head(queue.ring).kind = "create"
                 THEN untold \ {Head(queue.ring).hwnd} ELSE untold
    /\ win' = IF Backlog THEN Looked ELSE win
NextGeometry(pending) == IF "move" \in pending THEN {"move"} ELSE {"size"}
GetGeometry ==
    /\ WithPending({"font"}) = {} /\ queue.ring = <<>>
    /\ \E w \in WithPending(GeometryNotices \cup {"display"}) :
          ReturnMessage([win EXCEPT ![w].pending = @ \ (IF @ \cap GeometryNotices = {} THEN {"display"}
                                                 ELSE NextGeometry(@))])
    /\ UNCHANGED untold
GetPaint ==
    /\ WithPending({"font"}) = {} /\ Candidate(Looked) # {}
    /\ PaintFirst \/ (queue.ring = <<>> /\ WithPending(GeometryNotices \cup {"display"}) = {})
    /\ ReturnMessage(Looked) /\ UNCHANGED untold

ResetHeader(q) == [q EXCEPT !.signalled = FALSE]
GetNothing(block) ==
    /\ queue.ring = <<>> /\ WithPending({"font", "display"} \cup GeometryNotices) = {} /\ Candidate(Looked) = {}
    /\ queue' = [ResetHeader(queue) EXCEPT !.pc = IF block THEN "wait" ELSE "run"]
    /\ win' = Looked /\ UNCHANGED untold

get_message ==
    /\ queue.pc \in {"run", "look"}
    /\ GetFont \/ GetInput(TRUE) \/ (PumpRuns /\ GetInput(FALSE)) \/ GetGeometry \/ GetPaint
         \/ GetNothing(TRUE) \/ (PumpRuns /\ GetNothing(FALSE))

(* KE_SCHED_WaitForHeader, the lock released.                              *)
QueueWait ==
    /\ queue.pc = "wait" /\ UNCHANGED <<win, untold>>
    /\ queue' = [queue EXCEPT !.pc = IF queue.signalled THEN "look" ELSE "asleep"]

QueueNext ==
    \/ PostMessage \/ PostThreadMessage \/ Notices \/ get_message \/ QueueWait
    \/ \E w \in Window : \/ Invalidate(w) \/ ShowWin(w) \/ HideWin(w) \/ queue_destroy(w)
                         \/ begin_paint(w) \/ end_paint(w) \/ delete_dc(w)
                         \/ \E visible \in BOOLEAN : queue_create(w, visible)

QueueSpec == QueueInit /\ [][QueueNext]_mqVars

-----------------------------------------------------------------------------
QueueTypeOK ==
    /\ Len(queue.ring) <= kQueueSize /\ queue.signalled \in BOOLEAN
    /\ queue.pc \in {"run", "look", "wait", "asleep"}
    /\ win \in [Window -> [alive : BOOLEAN, visible : BOOLEAN, invalid : BOOLEAN, painting : BOOLEAN,
                           paintDC : {"none", "live", "dead"},
                           pending : SUBSET {"move", "size", "display", "font"}]]
    /\ untold \subseteq Window

QueuePending == queue.ring # <<>> \/ Candidate(win) # {} \/ \E w \in Window : win[w].pending # {}

(* "Posters signal under the same lock, so resetting here cannot lose a    *)
(* wakeup": the thread never sleeps, nor is about to, while it has work.   *)
NoSleepWithWork ==
    /\ queue.pc = "asleep" => ~QueuePending
    /\ queue.pc = "wait" /\ QueuePending => queue.signalled

(* A destroyed window's messages go with it.                               *)
NoMessageToTheDead == \A k \in DOMAIN queue.ring :
    queue.ring[k].hwnd # "none" => win[queue.ring[k].hwnd].alive

(* "The WM_CREATE posted below must not be dropped once the window exists":*)
(* it stays queued, ahead of the window's other messages, until delivered. *)
CreateIsTold == \A w \in untold :
    \E k \in DOMAIN queue.ring : /\ queue.ring[k] = [hwnd |-> w, kind |-> "create"]
                                 /\ \A j \in 1..k - 1 : queue.ring[j].hwnd # w

(* Damage is never forgotten: a window's damage only goes away when a      *)
(* paint of it ends, or with the window.                                   *)
DamageKept == \A w \in Window :
    (win[w].invalid \/ win[w].painting) /\ ~(win'[w].invalid \/ win'[w].painting)
      => ~win'[w].alive \/ (win[w].paintDC = "live" /\ ~win[w].invalid)

(* "coalesced Move/Size survive a full message ring": a pending notice is  *)
(* taken back only by delivering it, one per message.                      *)
NoticesOneByOne == \A w \in Window :
    win'[w].alive => Cardinality(win[w].pending \ win'[w].pending) <= 1

(* What the thread of a queue relies on: it never sleeps on work it could  *)
(* take, and hears of live windows only, of each one's creation first.     *)
QueueSafe == QueueTypeOK /\ NoSleepWithWork /\ NoMessageToTheDead /\ CreateIsTold

(* What no step of the queue does: drop damage or two notices at a time.   *)
QueueKeeps == [][DamageKept /\ NoticesOneByOne]_mqVars

-----------------------------------------------------------------------------
(***************************************************************************)
(* What reaches the screen (Kernel/Source/src/user/paint.cpp): fills into  *)
(* the surface, the save-under of the software cursor, scene draws whose   *)
(* damage is presented once at the outermost end, and paint DCs whose      *)
(* pixels are presented by EndPaint.  The screen is a row of cells and the *)
(* cursor covers one.  Every operation holds the window manager's lock.    *)
(***************************************************************************)
CONSTANTS Cell, Color, Surface

ASSUME SceneAssumption == 0 \notin Cell

VARIABLES
    adapter,   \* packed shadow surface, fills that show at once, readable pixels
    scene,     \* the primary surface, its pixels, the visible image, g_cursor,
               \* g_drawDepth, g_frameDamage and an unannounced commit
    content,   \* history: what the scene painted last into each cell
    paint      \* the open paint DC: its clip and the pixels EndPaint presents

sceneVars == <<adapter, scene, content, paint>>

CursorShape == "cursor"
NoCursor == [at |-> 0, saved |-> "none", surface |-> "none"]

SceneInit ==
    /\ adapter \in [packed : BOOLEAN, VisibleFill : BOOLEAN, ReadPixel : BOOLEAN]
    /\ \E s \in Surface, c \in Color :
         /\ scene = [surface |-> s, pixels |-> [x \in Cell |-> c], image |-> [x \in Cell |-> c],
                     x |-> 0, drawn |-> NoCursor, drawDepth |-> 0, frameDamage |-> {}, changed |-> FALSE]
         /\ content = [x \in Cell |-> c]
    /\ paint = [open |-> FALSE, clip |-> {}, damage |-> {}]

-----------------------------------------------------------------------------
present(s, cells) == [s EXCEPT !.image = [x \in Cell |-> IF x \in cells THEN s.pixels[x] ELSE @[x]]]

(* fill: a small one, and every one inside a scene draw, stays in a packed *)
(* shadow; the adapter's own may be visible at once.  Deferred says that   *)
(* the pixels still have to be presented.                                  *)
Deferred(s, small) == (adapter.packed /\ (small \/ s.drawDepth > 0)) \/ ~adapter.VisibleFill
fill(s, cells, small, color) ==
    LET painted == [s EXCEPT !.pixels = [x \in Cell |-> IF x \in cells THEN color ELSE @[x]]]
    IN  IF Deferred(s, small) THEN painted ELSE present(painted, cells)

damage(s, cells) ==
    IF s.drawDepth > 0 THEN [s EXCEPT !.frameDamage = @ \cup cells] ELSE present(s, cells)

(* Faulty variant: the cursor is forgotten and its pixels stay.            *)
cursor_forget(s) == [s EXCEPT !.drawn = NoCursor]
(* cursor_hide_locked puts back what it saved, on the surface it saved.    *)
cursor_hide(s) ==
    IF s.drawn = NoCursor THEN s
    ELSE IF s.drawn.surface # s.surface THEN [s EXCEPT !.drawn = NoCursor]
    ELSE present([s EXCEPT !.pixels[s.drawn.at] = s.drawn.saved, !.drawn = NoCursor], {s.drawn.at})

may_show(s) == s.x # 0 /\ s.drawn = NoCursor /\ s.drawDepth = 0
cursor_show(s) ==
    IF ~may_show(s) \/ (~adapter.packed /\ ~adapter.ReadPixel) THEN s
    ELSE present([s EXCEPT !.drawn = [at |-> s.x, saved |-> s.pixels[s.x], surface |-> s.surface],
                           !.pixels[s.x] = CursorShape], {s.x})
cursor_move(s, x) == cursor_show([cursor_hide(s) EXCEPT !.x = x])
cursor_reset(s) == [s EXCEPT !.drawn = NoCursor]

begin_scene(s) == [cursor_hide(s) EXCEPT !.drawDepth = @ + 1]

flush_frame_damage(s) == [present(s, s.frameDamage) EXCEPT !.frameDamage = {}]
end_scene(s) ==
    LET e == [s EXCEPT !.drawDepth = @ - 1]
    IN  cursor_show(IF e.drawDepth = 0 THEN flush_frame_damage(e) ELSE e)

fill_and_damage(s, cells, color) ==
    LET f == fill(s, cells, TRUE, color)
    IN  IF Deferred(s, TRUE) THEN damage(f, cells) ELSE f
fill_screen(s, cells, color) ==
    cursor_show(fill_and_damage(cursor_hide(s), cells, color))

(* expose_locked: backgrounds, then a frame as a nested scene draw.        *)
expose(s, cells, color, frame) ==
    LET b == begin_scene(s)
        f == fill_and_damage(b, cells, color)
        n == end_scene(fill_screen(begin_scene(f), frame, color))
    IN  end_scene(n)

-----------------------------------------------------------------------------
Repainted(cells, color) == content' = [x \in Cell |-> IF x \in cells THEN color ELSE content[x]]

(* The mouse thread: hide, perhaps a drag that exposes, move and show.     *)
MouseMove(x) ==
    scene' = cursor_move(cursor_hide(scene), x) /\ UNCHANGED <<adapter, content, paint>>
Drag(x, cells, color) ==
    /\ scene' = cursor_move(expose(cursor_hide(scene), cells, color, cells), x)
    /\ Repainted(cells, color) /\ UNCHANGED <<adapter, paint>>

Expose(cells, color, frame) ==
    /\ scene' = expose(scene, cells, color, frame)
    /\ Repainted(cells \cup frame, color) /\ UNCHANGED <<adapter, paint>>

(* BeginPaint erases; what is drawn through the DC goes to the surface;    *)
(* EndPaint presents both.                                                 *)
BeginPaint(cells, color) ==
    /\ ~paint.open /\ scene' = cursor_show(fill(cursor_hide(scene), cells, FALSE, color))
    /\ paint' = [open |-> TRUE, clip |-> cells,
                 damage |-> IF Deferred(cursor_hide(scene), FALSE) THEN cells ELSE {}]
    /\ Repainted(cells, color) /\ UNCHANGED adapter
DrawDC(x, color) ==
    /\ x \in paint.clip /\ paint' = [paint EXCEPT !.damage = @ \cup {x}]
    /\ scene' = cursor_show([cursor_hide(scene) EXCEPT !.pixels[x] = color])
    /\ Repainted({x}, color) /\ UNCHANGED adapter
present_locked(s, cells) == cursor_show(damage(s, cells))
EndPaint ==
    /\ paint.open /\ scene' = present_locked(scene, paint.damage)
    /\ paint' = [open |-> FALSE, clip |-> {}, damage |-> {}] /\ UNCHANGED <<adapter, content>>

(* A commit gives the display another surface inside a scene draw; a      *)
(* second one, after the lock was free, forgets the cursor, puts it back   *)
(* into the screen and exposes everything.                                 *)
CommitScenePath(surface, color) ==
    /\ surface # scene.surface /\ ~scene.changed
    /\ scene' = end_scene([begin_scene(scene) EXCEPT !.surface = surface, !.changed = TRUE,
                             !.pixels = [x \in Cell |-> color], !.image = [x \in Cell |-> color]])
    /\ content' = [x \in Cell |-> color] /\ UNCHANGED <<adapter, paint>>
DisplayChanged(x, color) ==
    LET reset == cursor_move(cursor_reset(begin_scene(scene)), x)
    IN  /\ scene.changed
        /\ scene' = end_scene([expose(reset, Cell, color, {}) EXCEPT !.changed = FALSE])
        /\ content' = [y \in Cell |-> color] /\ paint' = [paint EXCEPT !.damage = {}]
        /\ UNCHANGED adapter

SceneNext ==
    \/ \E x \in Cell : MouseMove(x)
    \/ \E cells \in SUBSET Cell \ {{}}, color \in Color :
         \/ BeginPaint(cells, color)
         \/ \E x \in Cell : Drag(x, cells, color) \/ DrawDC(x, color)
         \/ \E frame \in SUBSET cells : Expose(cells, color, frame)
    \/ EndPaint
    \/ \E color \in Color : \/ \E s \in Surface : CommitScenePath(s, color)
                            \/ \E x \in Cell : DisplayChanged(x, color)

SceneSpec == SceneInit /\ [][SceneNext]_sceneVars

-----------------------------------------------------------------------------
(* Save and restore of the cursor never bring back a stale pixel: hiding   *)
(* it leaves exactly what was painted last, on the surface in use.         *)
CursorRestoresScene == cursor_hide(scene).pixels = content

(* "appears atomically at the final present": outside the lock no scene    *)
(* draw is open, no damage is pending, and the image shows every pixel     *)
(* except those a paint DC still has to present.                           *)
ImageShowsTheScene ==
    /\ scene.drawDepth = 0 /\ scene.frameDamage = {}
    /\ \A x \in Cell \ paint.damage : scene.image[x] = scene.pixels[x]

(* Once it was moved, the cursor is on the screen whenever the lock is     *)
(* free, where the mouse is.                                               *)
CursorStaysVisible ==
    (scene.x # 0 /\ (adapter.packed \/ adapter.ReadPixel))
       => scene.drawn.at = scene.x /\ scene.image[scene.x] = CursorShape

(* The screen shows the scene with the cursor over it (paint.cpp).         *)
SceneShown == CursorRestoresScene /\ ImageShowsTheScene /\ CursorStaysVisible
=============================================================================
