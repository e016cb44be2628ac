----------------------------- MODULE QueueProofs -----------------------------
(***************************************************************************)
(* A thread's message queue never sleeps on work, tells of each window's   *)
(* creation first and of live windows only, and loses neither damage nor   *)
(* notices, for any windows, ring size and backlog; and the screen shows   *)
(* the scene with the cursor over it, for any cells, colors and surfaces.  *)
(***************************************************************************)
EXTENDS MessageQueue, SeqLemmas, FiniteSetTheorems

Message == [hwnd : Window \cup {"none"}, kind : {"post", "mousemove", "create"}]
QueueState == [ring : Seq(Message), signalled : BOOLEAN, pc : {"run", "look", "wait", "asleep"}]
NoticeKind == {"move", "size", "display", "font"}
WindowState ==
    [alive : BOOLEAN, visible : BOOLEAN, invalid : BOOLEAN, painting : BOOLEAN,
     paintDC : {"none", "live", "dead"}, pending : SUBSET NoticeKind]

QueueTypes ==
    /\ queue \in QueueState /\ Len(queue.ring) <= kQueueSize
    /\ untold \subseteq Window
WindowTypes == win \in [Window -> WindowState]

(* A window that is gone holds nothing, and damage is being painted only   *)
(* while there is a DC for it: what keeps a paint from forgetting damage.  *)
WindowShape ==
    \A w \in Window :
        /\ ~win[w].alive => ~win[w].invalid /\ ~win[w].painting
                            /\ win[w].paintDC = "none" /\ win[w].pending = {}
        /\ win[w].painting => win[w].paintDC # "none"

WindowInv == WindowTypes /\ WindowShape
RingInv == QueueTypes /\ NoMessageToTheDead /\ CreateIsTold
QueueInv == WindowInv /\ RingInv /\ NoSleepWithWork

-----------------------------------------------------------------------------
(* The windows.                                                            *)
Kept(x, y) ==
    /\ (x.invalid \/ x.painting) /\ ~(y.invalid \/ y.painting)
         => ~y.alive \/ (x.paintDC = "live" /\ ~x.invalid)
    /\ y.alive => \E n : x.pending \ y.pending \subseteq {n}

Shaped(x) ==
    /\ x \in WindowState
    /\ ~x.alive => ~x.invalid /\ ~x.painting /\ x.paintDC = "none" /\ x.pending = {}
    /\ x.painting => x.paintDC # "none"

(* One window after a step that gives a message, and after any other step. *)
LEMMA SameWindow ==
    ASSUME NEW x, Shaped(x)
    PROVE  Kept(x, x)
BY DEF Kept

LEMMA RecoverWindow ==
    ASSUME NEW x, Shaped(x)
    PROVE  /\ Shaped(Recover(x)) /\ Kept(x, Recover(x))
           /\ Recover(x).alive = x.alive /\ Recover(x).pending = x.pending
           /\ Recover(x).visible = x.visible
           /\ Recover(x).paintDC = (IF x.paintDC = "dead" THEN "none" ELSE x.paintDC)
<1>1. CASE x.paintDC = "dead"
  <2>1. Recover(x) = [x EXCEPT !.invalid = @ \/ x.painting, !.paintDC = "none", !.painting = FALSE]
    BY <1>1 DEF Recover
  <2> QED
    BY <1>1, <2>1 DEF Shaped, Kept, WindowState
<1>2. CASE x.paintDC # "dead"
  BY <1>2, SameWindow DEF Recover
<1> QED
  BY <1>1, <1>2

LEMMA BeginWindow ==
    ASSUME NEW x, Shaped(x), x.alive, x.paintDC # "live"
    PROVE  LET y == [Recover(x) EXCEPT !.painting = Recover(x).invalid,
                                       !.invalid = FALSE, !.paintDC = "live"]
           IN  Shaped(y) /\ Kept(x, y) /\ y.alive
<1>1. CASE x.paintDC = "dead"
  <2>1. Recover(x) = [x EXCEPT !.invalid = @ \/ x.painting, !.paintDC = "none", !.painting = FALSE]
    BY <1>1 DEF Recover
  <2> QED
    BY <1>1, <2>1 DEF Shaped, Kept, WindowState
<1>2. CASE x.paintDC = "none"
  <2>1. Recover(x) = x
    BY <1>2 DEF Recover
  <2> QED
    BY <1>2, <2>1 DEF Shaped, Kept, WindowState
<1> QED
  BY <1>1, <1>2 DEF Shaped, WindowState

LEMMA ChangedWindow ==
    ASSUME NEW x, Shaped(x), x.alive
    PROVE  /\ LET y == [x EXCEPT !.invalid = TRUE] IN Shaped(y) /\ Kept(x, y)
           /\ LET y == [x EXCEPT !.visible = TRUE, !.invalid = TRUE] IN Shaped(y) /\ Kept(x, y)
           /\ LET y == [x EXCEPT !.visible = FALSE] IN Shaped(y) /\ Kept(x, y)
           /\ \A what \in SUBSET NoticeKind, e \in BOOLEAN :
                LET y == [x EXCEPT !.pending = @ \cup what, !.invalid = @ \/ e]
                IN  Shaped(y) /\ Kept(x, y)
           /\ Shaped(NoWindow) /\ Kept(x, NoWindow)
<1>1. /\ LET y == [x EXCEPT !.invalid = TRUE] IN Shaped(y) /\ Kept(x, y)
      /\ LET y == [x EXCEPT !.visible = TRUE, !.invalid = TRUE] IN Shaped(y) /\ Kept(x, y)
      /\ LET y == [x EXCEPT !.visible = FALSE] IN Shaped(y) /\ Kept(x, y)
  BY DEF Shaped, Kept, WindowState
<1>2. ASSUME NEW what \in SUBSET NoticeKind, NEW e \in BOOLEAN
      PROVE  LET y == [x EXCEPT !.pending = @ \cup what, !.invalid = @ \/ e]
             IN  Shaped(y) /\ Kept(x, y)
  BY DEF Shaped, Kept, WindowState
<1>3. Shaped(NoWindow) /\ Kept(x, NoWindow)
  BY DEF Shaped, Kept, WindowState, NoWindow
<1> QED
  BY <1>1, <1>2, <1>3

LEMMA OtherWindow ==
    ASSUME NEW x, Shaped(x)
    PROVE  /\ x.paintDC = "live" =>
                /\ LET y == [x EXCEPT !.paintDC = "none", !.painting = FALSE]
                   IN  Shaped(y) /\ Kept(x, y) /\ y.alive = x.alive
                /\ LET y == [x EXCEPT !.paintDC = "dead"]
                   IN  Shaped(y) /\ Kept(x, y) /\ y.alive = x.alive
           /\ \A n \in NoticeKind :
                LET y == [x EXCEPT !.pending = @ \ {n}]
                IN  Shaped(y) /\ Kept(x, y) /\ y.alive = x.alive
           /\ \A visible \in BOOLEAN :
                LET y == [NoWindow EXCEPT !.alive = TRUE, !.visible = visible, !.invalid = visible]
                IN  Shaped(y) /\ (~x.alive => Kept(x, y)) /\ y.alive
<1>1. ASSUME x.paintDC = "live"
      PROVE  /\ LET y == [x EXCEPT !.paintDC = "none", !.painting = FALSE]
                IN  Shaped(y) /\ Kept(x, y) /\ y.alive = x.alive
             /\ LET y == [x EXCEPT !.paintDC = "dead"]
                IN  Shaped(y) /\ Kept(x, y) /\ y.alive = x.alive
  BY <1>1 DEF Shaped, Kept, WindowState
<1>2. ASSUME NEW n \in NoticeKind
      PROVE  LET y == [x EXCEPT !.pending = @ \ {n}]
             IN  Shaped(y) /\ Kept(x, y) /\ y.alive = x.alive
  BY DEF Shaped, Kept, WindowState
<1>3. ASSUME NEW visible \in BOOLEAN
      PROVE  LET y == [NoWindow EXCEPT !.alive = TRUE, !.visible = visible, !.invalid = visible]
             IN  Shaped(y) /\ (~x.alive => Kept(x, y)) /\ y.alive
  BY DEF Shaped, Kept, WindowState, NoWindow
<1> QED
  BY <1>1, <1>2, <1>3

WindowsKept == WindowInv' /\ \A w \in Window : Kept(win[w], win'[w])

LEMMA ShapedWindows ==
    WindowInv <=> win = [w \in Window |-> win[w]] /\ \A w \in Window : Shaped(win[w])
BY DEF WindowInv, WindowTypes, WindowShape, Shaped

LEMMA ShapedWindowsNext ==
    ASSUME win' = [w \in Window |-> win'[w]], \A w \in Window : Shaped(win'[w])
    PROVE  WindowInv'
BY DEF WindowInv, WindowTypes, WindowShape, Shaped

LEMMA OneWindow ==
    ASSUME WindowInv, NEW w \in Window, NEW y, Shaped(y), Kept(win[w], y),
           win' = [win EXCEPT ![w] = y]
    PROVE  WindowsKept
<1>1. \A v \in Window : Shaped(win[v])
  BY ShapedWindows
<1>2. \A v \in Window : win'[v] = IF v = w THEN y ELSE win[v]
  BY ShapedWindows
<1>3. win' = [v \in Window |-> win'[v]]
  BY ShapedWindows
<1>4. \A v \in Window : Shaped(win'[v]) /\ Kept(win[v], win'[v])
  BY <1>1, <1>2, SameWindow
<1> QED
  BY <1>3, <1>4, ShapedWindowsNext DEF WindowsKept

LEMMA SameWindows ==
    ASSUME WindowInv, win' = win
    PROVE  WindowsKept
<1>1. \A w \in Window : Shaped(win[w])
  BY ShapedWindows
<1>2. WindowInv'
  BY DEF WindowInv, WindowTypes, WindowShape
<1> QED
  BY <1>1, <1>2, SameWindow DEF WindowsKept

LEMMA LookedWindows ==
    ASSUME WindowInv, win' = Looked
    PROVE  WindowsKept
<1>1. \A w \in Window : Shaped(win[w]) /\ win'[w] = Recover(win[w])
  BY ShapedWindows DEF Looked
<1>2. win' = [w \in Window |-> win'[w]]
  BY DEF Looked
<1>3. \A w \in Window : Shaped(win'[w]) /\ Kept(win[w], win'[w])
  BY <1>1, RecoverWindow
<1> QED
  BY <1>2, <1>3, ShapedWindowsNext DEF WindowsKept

(* The steps of the other threads and of the paint cycle.                  *)
LEMMA OtherThreadsKeep ==
    ASSUME WindowInv, NEW w \in Window,
           \/ Invalidate(w) \/ ShowWin(w) \/ HideWin(w) \/ queue_destroy(w)
           \/ begin_paint(w) \/ end_paint(w) \/ delete_dc(w)
           \/ \E visible \in BOOLEAN : queue_create(w, visible)
           \/ \E what \in SUBSET NoticeKind, e \in BOOLEAN : Notify(w, what, e)
    PROVE  WindowsKept
<1> DEFINE x == win[w]
<1>0. Shaped(x)
  BY ShapedWindows
<1>a. \A y : win' = [win EXCEPT ![w] = y] /\ Shaped(y) /\ Kept(x, y) => WindowsKept
  BY OneWindow
<1> HIDE DEF x
<1>1. CASE Invalidate(w)
  <2>1. x.alive /\ win' = [win EXCEPT ![w] = [x EXCEPT !.invalid = TRUE]]
    BY <1>1 DEF Invalidate, invalidated, x
  <2> QED
    BY <1>0, <1>a, <2>1, ChangedWindow
<1>2. CASE ShowWin(w)
  <2>1. x.alive /\ win' = [win EXCEPT ![w] = [x EXCEPT !.visible = TRUE, !.invalid = TRUE]]
    BY <1>2, ShapedWindows DEF ShowWin, x
  <2> QED
    BY <1>0, <1>a, <2>1, ChangedWindow
<1>3. CASE HideWin(w)
  <2>1. x.alive /\ win' = [win EXCEPT ![w] = [x EXCEPT !.visible = FALSE]]
    BY <1>3 DEF HideWin, x
  <2> QED
    BY <1>0, <1>a, <2>1, ChangedWindow
<1>4. CASE queue_destroy(w)
  <2>1. x.alive /\ win' = [win EXCEPT ![w] = NoWindow]
    BY <1>4 DEF queue_destroy, x
  <2> QED
    BY <1>0, <1>a, <2>1, ChangedWindow
<1>5. CASE begin_paint(w)
  <2> DEFINE y == [Recover(x) EXCEPT !.painting = Recover(x).invalid,
                                     !.invalid = FALSE, !.paintDC = "live"]
  <2>1. x.alive /\ x.paintDC # "live" /\ win' = [win EXCEPT ![w] = y]
    BY <1>5 DEF begin_paint, x
  <2>2. Shaped(y) /\ Kept(x, y)
    BY <1>0, <2>1, BeginWindow
  <2> HIDE DEF y
  <2> QED
    BY <1>a, <2>1, <2>2
<1>6. CASE end_paint(w)
  <2>1. /\ x.paintDC = "live"
        /\ win' = [win EXCEPT ![w] = [x EXCEPT !.paintDC = "none", !.painting = FALSE]]
    BY <1>6, ShapedWindows DEF end_paint, x
  <2> QED
    BY <1>0, <1>a, <2>1, OtherWindow
<1>7. CASE delete_dc(w)
  <2>1. x.paintDC = "live" /\ win' = [win EXCEPT ![w] = [x EXCEPT !.paintDC = "dead"]]
    BY <1>7 DEF delete_dc, x
  <2> QED
    BY <1>0, <1>a, <2>1, OtherWindow
<1>8. ASSUME NEW visible \in BOOLEAN, queue_create(w, visible) PROVE WindowsKept
  <2> DEFINE y == [NoWindow EXCEPT !.alive = TRUE, !.visible = visible, !.invalid = visible]
  <2>1. ~x.alive /\ win' = [win EXCEPT ![w] = y]
    BY <1>8 DEF queue_create, x
  <2>2. Shaped(y) /\ Kept(x, y)
    BY <1>0, <2>1, OtherWindow
  <2> HIDE DEF y
  <2> QED
    BY <1>a, <2>1, <2>2
<1>9. ASSUME NEW what \in SUBSET NoticeKind, NEW e \in BOOLEAN, Notify(w, what, e)
      PROVE  WindowsKept
  <2> DEFINE y == [x EXCEPT !.pending = @ \cup what, !.invalid = @ \/ e]
  <2>1. x.alive /\ win' = [win EXCEPT ![w] = y]
    BY <1>9, ShapedWindows DEF Notify, x
  <2>2. Shaped(y) /\ Kept(x, y)
    BY <1>0, <2>1, ChangedWindow
  <2> HIDE DEF y
  <2> QED
    BY <1>a, <2>1, <2>2
<1> QED
  BY <1>1, <1>2, <1>3, <1>4, <1>5, <1>6, <1>7, <1>8, <1>9

LEMMA GetMessageKeeps ==
    ASSUME WindowInv, get_message
    PROVE  WindowsKept
<1>a. \A w \in Window, n \in NoticeKind :
        win' = [win EXCEPT ![w].pending = @ \ {n}] => WindowsKept
  <2> SUFFICES ASSUME NEW w \in Window, NEW n \in NoticeKind,
                      win' = [win EXCEPT ![w].pending = @ \ {n}]
               PROVE  WindowsKept
    OBVIOUS
  <2> DEFINE y == [win[w] EXCEPT !.pending = @ \ {n}]
  <2>1. win' = [win EXCEPT ![w] = y]
    OBVIOUS
  <2>2. Shaped(y) /\ Kept(win[w], y)
    BY ShapedWindows, OtherWindow
  <2> HIDE DEF y
  <2> QED
    BY <2>1, <2>2, OneWindow
<1>1. CASE GetFont
  <2>1. PICK w \in Window : win' = [win EXCEPT ![w].pending = @ \ {"font"}]
    BY <1>1 DEF GetFont, WithPending, ReturnMessage
  <2> QED
    BY <1>a, <2>1 DEF NoticeKind
<1>2. ASSUME NEW remove \in BOOLEAN, GetInput(remove) PROVE WindowsKept
  <2>1. win' = Looked \/ win' = win
    BY <1>2 DEF GetInput
  <2> QED
    BY <2>1, LookedWindows, SameWindows
<1>3. CASE GetGeometry
  <2>1. PICK w \in Window :
          win' = [win EXCEPT ![w].pending = @ \ (IF @ \cap GeometryNotices = {} THEN {"display"}
                                                 ELSE NextGeometry(@))]
    BY <1>3 DEF GetGeometry, WithPending, ReturnMessage
  <2>2. \E n \in NoticeKind : win' = [win EXCEPT ![w].pending = @ \ {n}]
    <3>1. CASE win[w].pending \cap GeometryNotices = {}
      BY <2>1, <3>1 DEF NoticeKind
    <3>2. CASE win[w].pending \cap GeometryNotices # {} /\ "move" \in win[w].pending
      BY <2>1, <3>2 DEF NoticeKind, NextGeometry
    <3>3. CASE win[w].pending \cap GeometryNotices # {} /\ "move" \notin win[w].pending
      BY <2>1, <3>3 DEF NoticeKind, NextGeometry
    <3> QED
      BY <3>1, <3>2, <3>3
  <2> QED
    BY <1>a, <2>2
<1>4. CASE GetPaint
  BY <1>4, LookedWindows DEF GetPaint, ReturnMessage
<1>5. ASSUME NEW block \in BOOLEAN, GetNothing(block) PROVE WindowsKept
  BY <1>5, LookedWindows DEF GetNothing
<1> QED
  BY <1>1, <1>2, <1>3, <1>4, <1>5 DEF get_message

LEMMA WindowsStep ==
    ASSUME WindowInv, [QueueNext]_mqVars
    PROVE  WindowsKept
<1>1. CASE PostMessage \/ PostThreadMessage \/ QueueWait \/ UNCHANGED mqVars
  BY <1>1, SameWindows DEF PostMessage, PostThreadMessage, QueueWait, mqVars
<1>2. CASE Notices
  <2>1. \E w \in Window, what \in SUBSET NoticeKind, e \in BOOLEAN : Notify(w, what, e)
    <3>1. \A w \in Window : win[w].visible \in BOOLEAN
      BY DEF WindowInv, WindowTypes, WindowState
    <3>2. {GeometryNotices, {"size"}, {"font"}, {"font", "move"}} \subseteq SUBSET NoticeKind
          /\ {"display"} \in SUBSET NoticeKind
      BY DEF GeometryNotices, NoticeKind
    <3> QED
      BY <1>2, <3>1, <3>2 DEF Notices
  <2> QED
    BY <2>1, OtherThreadsKeep
<1>3. CASE get_message
  BY <1>3, GetMessageKeeps
<1>4. CASE \E w \in Window : \/ Invalidate(w) \/ ShowWin(w) \/ HideWin(w) \/ queue_destroy(w)
                             \/ begin_paint(w) \/ end_paint(w) \/ delete_dc(w)
                             \/ \E visible \in BOOLEAN : queue_create(w, visible)
  BY <1>4, OtherThreadsKeep
<1> QED
  BY <1>1, <1>2, <1>3, <1>4 DEF QueueNext

-----------------------------------------------------------------------------
(* The ring.                                                               *)
RingOK(r, v, u) ==
    /\ r \in Seq(Message) /\ Len(r) <= kQueueSize /\ u \subseteq Window
    /\ \A k \in 1..Len(r) : r[k].hwnd # "none" => v[r[k].hwnd].alive
    /\ \A w \in u : \E k \in 1..Len(r) : /\ r[k] = [hwnd |-> w, kind |-> "create"]
                                         /\ \A j \in 1..k - 1 : r[j].hwnd # w

LEMMA RingInvIs ==
    RingInv <=> queue \in QueueState /\ RingOK(queue.ring, win, untold)
<1>1. ASSUME queue \in QueueState
      PROVE  queue.ring \in Seq(Message) /\ DOMAIN queue.ring = 1..Len(queue.ring)
  BY <1>1 DEF QueueState
<1> QED
  BY <1>1 DEF RingInv, QueueTypes, NoMessageToTheDead, CreateIsTold, RingOK

LEMMA RingInvNext ==
    ASSUME queue' \in QueueState, RingOK(queue'.ring, win', untold')
    PROVE  RingInv'
<1>1. queue'.ring \in Seq(Message) /\ DOMAIN queue'.ring = 1..Len(queue'.ring)
  BY DEF QueueState
<1> QED
  BY <1>1 DEF RingInv, QueueTypes, NoMessageToTheDead, CreateIsTold, RingOK

LEMMA MessageTo ==
    ASSUME NEW r \in Seq(Message), NEW k \in 1..Len(r)
    PROVE  r[k] \in Message /\ (r[k].hwnd # "none" => r[k].hwnd \in Window)
<1>1. r[k] \in Message
  OBVIOUS
<1> QED
  BY <1>1 DEF Message

LEMMA RingSame ==
    ASSUME NEW r, NEW v, NEW v2, NEW u, RingOK(r, v, u),
           \A w \in Window : v[w].alive => v2[w].alive
    PROVE  RingOK(r, v2, u)
<1>1. \A k \in 1..Len(r) : r[k].hwnd # "none" => r[k].hwnd \in Window
  BY MessageTo DEF RingOK
<1> QED
  BY <1>1 DEF RingOK

(* A message to a live window, or to the thread, goes to the end.          *)
LEMMA RingAppended ==
    ASSUME NEW r, NEW v, NEW u, RingOK(r, v, u), NEW m \in Message, Len(r) < kQueueSize,
           m.hwnd # "none" => v[m.hwnd].alive
    PROVE  RingOK(Append(r, m), v, u)
<1> DEFINE a == Append(r, m)
<1>0. r \in Seq(Message) /\ Len(r) \in Nat /\ kQueueSize \in Nat
  BY QueueAssumption DEF RingOK
<1>1. /\ a \in Seq(Message) /\ Len(a) = Len(r) + 1 /\ a[Len(r) + 1] = m
      /\ \A i \in 1..Len(r) : a[i] = r[i]
  BY <1>0
<1> HIDE DEF a
<1>2. Len(a) <= kQueueSize
  BY <1>0, <1>1
<1>3. \A k \in 1..Len(a) : a[k].hwnd # "none" => v[a[k].hwnd].alive
  <2> TAKE k \in 1..Len(a)
  <2>1. CASE k = Len(r) + 1
    BY <1>1, <2>1
  <2>2. CASE k # Len(r) + 1
    <3>1. k \in 1..Len(r)
      BY <1>0, <1>1, <2>2
    <3> QED
      BY <1>1, <3>1 DEF RingOK
  <2> QED
    BY <2>1, <2>2
<1>4. ASSUME NEW w \in u
      PROVE  \E k \in 1..Len(a) : /\ a[k] = [hwnd |-> w, kind |-> "create"]
                                  /\ \A j \in 1..k - 1 : a[j].hwnd # w
  <2>1. PICK k \in 1..Len(r) : /\ r[k] = [hwnd |-> w, kind |-> "create"]
                               /\ \A j \in 1..k - 1 : r[j].hwnd # w
    BY DEF RingOK
  <2>2. k \in 1..Len(a) /\ \A j \in 1..k - 1 : j \in 1..Len(r)
    BY <1>0, <1>1
  <2> QED
    BY <1>1, <2>1, <2>2
<1> QED
  BY <1>1, <1>2, <1>3, <1>4 DEF RingOK, a

(* A new window's WM_CREATE is its first message: no window of that name   *)
(* was alive, so the ring held nothing for it.                             *)
LEMMA RingCreated ==
    ASSUME NEW r, NEW v, NEW v2, NEW u, NEW w \in Window, RingOK(r, v, u), Len(r) < kQueueSize,
           ~v[w].alive, v2[w].alive, \A x \in Window : v[x].alive => v2[x].alive
    PROVE  RingOK(Append(r, [hwnd |-> w, kind |-> "create"]), v2, u \cup {w})
<1> DEFINE m == [hwnd |-> w, kind |-> "create"]
           a == Append(r, m)
<1>0. r \in Seq(Message) /\ Len(r) \in Nat /\ m \in Message /\ m.hwnd = w
  BY DEF RingOK, Message
<1>1. RingOK(a, v2, u)
  BY <1>0, RingSame, RingAppended
<1>2. /\ Len(a) = Len(r) + 1 /\ a[Len(r) + 1] = m
      /\ \A i \in 1..Len(r) : a[i] = r[i]
  BY <1>0
<1>3. \A i \in 1..Len(r) : r[i].hwnd # w
  BY QueueAssumption DEF RingOK
<1> HIDE DEF a
<1>4. /\ Len(r) + 1 \in 1..Len(a)
      /\ \A j \in 1..(Len(r) + 1) - 1 : a[j].hwnd # w
  BY <1>0, <1>2, <1>3
<1>5. \E k \in 1..Len(a) : a[k] = m /\ \A j \in 1..k - 1 : a[j].hwnd # w
  BY <1>2, <1>4
<1> QED
  BY <1>1, <1>5 DEF RingOK, a

(* MessageRing::RemoveFor keeps the other windows' messages in order.      *)
LEMMA RemoveForFacts ==
    ASSUME NEW r \in Seq(Message), NEW w
    PROVE  /\ RemoveFor(r, w) \in Seq(Message)
           /\ \E e : Embeds(e, RemoveFor(r, w), r, Len(r), {m \in Message : m.hwnd # w})
<1> DEFINE K == {m \in Message : m.hwnd # w}
           Is(F) == F = [k \in 0..Len(r) |->
                          IF k = 0 THEN <<>>
                          ELSE IF r[k].hwnd # w THEN Append(F[k - 1], r[k]) ELSE F[k - 1]]
           keep == CHOOSE F : Is(F)
<1>1. \A i \in 1..Len(r) : r[i] \in K <=> r[i].hwnd # w
  OBVIOUS
<1>2. \A F : IsFilter(F, r, K) <=> Is(F)
  <2> TAKE F
  <2>1. \A k \in 0..Len(r) :
          (IF k = 0 THEN <<>> ELSE IF r[k] \in K THEN Append(F[k - 1], r[k]) ELSE F[k - 1])
          = (IF k = 0 THEN <<>> ELSE IF r[k].hwnd # w THEN Append(F[k - 1], r[k]) ELSE F[k - 1])
    <3> TAKE k \in 0..Len(r)
    <3>1. k # 0 => k \in 1..Len(r)
      OBVIOUS
    <3> QED
      BY <1>1, <3>1
  <2> QED
    BY <2>1 DEF IsFilter
<1>3. \E F : Is(F)
  BY <1>2, FilterExists
<1>4. Is(keep)
  <2> HIDE DEF Is
  <2> QED
    BY <1>3
<1>5. RemoveFor(r, w) = keep[Len(r)]
  BY DEF RemoveFor
<1>6. IsFilter(keep, r, K)
  BY <1>2, <1>4
<1> HIDE DEF K, keep
<1>7. keep[Len(r)] \in Seq(Message) /\ \E e : Embeds(e, keep[Len(r)], r, Len(r), K)
  BY <1>6, FilterEmbeds
<1> QED
  BY <1>5, <1>7 DEF K

LEMMA RingRemoved ==
    ASSUME NEW r, NEW v, NEW v2, NEW u, NEW w \in Window, RingOK(r, v, u),
           \A x \in Window \ {w} : v[x].alive => v2[x].alive
    PROVE  RingOK(RemoveFor(r, w), v2, u \ {w})
<1> DEFINE t == RemoveFor(r, w)
           K == {m \in Message : m.hwnd # w}
<1>0. r \in Seq(Message) /\ Len(r) \in Nat /\ kQueueSize \in Nat
  BY QueueAssumption DEF RingOK
<1>1. t \in Seq(Message) /\ \E e : Embeds(e, t, r, Len(r), K)
  BY <1>0, RemoveForFacts
<1> HIDE DEF t, K
<1>2. PICK e : Embeds(e, t, r, Len(r), K)
  BY <1>1
<1>a. Len(t) \in Nat
  BY <1>1
<1>3. /\ Len(t) <= Len(r) /\ e \in [1..Len(t) -> 1..Len(r)]
      /\ \A a, b \in 1..Len(t) : a < b => e[a] < e[b]
      /\ \A a \in 1..Len(t) : t[a] = r[e[a]]
      /\ \A i \in 1..Len(r) : r[i] \in K <=> \E a \in 1..Len(t) : e[a] = i
  BY <1>2 DEF Embeds
<1>4. Len(t) <= kQueueSize
  BY <1>0, <1>a, <1>3 DEF RingOK
<1>5. \A a \in 1..Len(t) : t[a].hwnd # w
  BY <1>3 DEF K
<1>6. ASSUME NEW a \in 1..Len(t), t[a].hwnd # "none"
      PROVE  v2[t[a].hwnd].alive
  <2>1. t[a] \in Message /\ t[a].hwnd \in Window \ {w}
    BY <1>1, <1>5, <1>6, MessageTo
  <2>2. v[t[a].hwnd].alive
    BY <1>3, <1>6 DEF RingOK
  <2> QED
    BY <2>1, <2>2
<1>7. ASSUME NEW x \in u \ {w}
      PROVE  \E k \in 1..Len(t) : /\ t[k] = [hwnd |-> x, kind |-> "create"]
                                  /\ \A j \in 1..k - 1 : t[j].hwnd # x
  <2>1. PICK i \in 1..Len(r) : /\ r[i] = [hwnd |-> x, kind |-> "create"]
                               /\ \A j \in 1..i - 1 : r[j].hwnd # x
    BY DEF RingOK
  <2>2. r[i] \in K
    <3>1. r[i] \in Message /\ r[i].hwnd = x /\ x # w
      BY <1>0, <2>1
    <3> QED
      BY <3>1 DEF K
  <2>3. PICK k \in 1..Len(t) : e[k] = i
    BY <1>3, <2>2
  <2>4. ASSUME NEW j \in 1..k - 1 PROVE t[j].hwnd # x
    <3>1. j \in 1..Len(t) /\ j < k
      BY <1>a
    <3>2. e[j] \in 1..i - 1
      BY <1>3, <2>3, <3>1
    <3> QED
      BY <1>3, <2>1, <3>1, <3>2
  <2> QED
    BY <1>3, <2>1, <2>3, <2>4
<1>8. u \ {w} \subseteq Window
  BY DEF RingOK
<1> QED
  BY <1>1, <1>4, <1>6, <1>7, <1>8 DEF RingOK, t

(* Taking the oldest message: an untold window's WM_CREATE stays first.    *)
LEMMA RingTail ==
    ASSUME NEW r, NEW v, NEW u, RingOK(r, v, u), r # <<>>
    PROVE  RingOK(Tail(r), v, IF Head(r).kind = "create" THEN u \ {Head(r).hwnd} ELSE u)
<1> DEFINE t == Tail(r)
           u2 == IF Head(r).kind = "create" THEN u \ {Head(r).hwnd} ELSE u
<1>0. r \in Seq(Message) /\ Len(r) \in Nat /\ kQueueSize \in Nat /\ Len(r) > 0
  BY QueueAssumption DEF RingOK
<1>1. /\ t \in Seq(Message) /\ Len(t) = Len(r) - 1 /\ Head(r) = r[1]
      /\ \A i \in 1..Len(t) : t[i] = r[i + 1]
  BY <1>0
<1>2. u2 \subseteq u
  OBVIOUS
<1>3. ASSUME NEW x \in u2
      PROVE  \E k \in 1..Len(t) : /\ t[k] = [hwnd |-> x, kind |-> "create"]
                                  /\ \A j \in 1..k - 1 : t[j].hwnd # x
  <2>1. PICK i \in 1..Len(r) : /\ r[i] = [hwnd |-> x, kind |-> "create"]
                               /\ \A j \in 1..i - 1 : r[j].hwnd # x
    BY <1>2 DEF RingOK
  <2>2. i # 1
    BY <1>1, <2>1
  <2> HIDE DEF t
  <2>3. i - 1 \in 1..Len(t) /\ t[i - 1] = r[i]
    BY <1>0, <1>1, <2>2
  <2>4. \A j \in 1..(i - 1) - 1 : t[j].hwnd # x
    <3> TAKE j \in 1..(i - 1) - 1
    <3>1. j \in 1..Len(t) /\ j + 1 \in 1..i - 1
      BY <1>0, <1>1, <2>3
    <3> QED
      BY <1>1, <2>1, <3>1
  <2> QED
    BY <2>1, <2>3, <2>4
<1> HIDE DEF t, u2
<1>4. Len(t) <= kQueueSize
  BY <1>0, <1>1 DEF RingOK
<1>5. ASSUME NEW a \in 1..Len(t), t[a].hwnd # "none" PROVE v[t[a].hwnd].alive
  <2>1. a + 1 \in 1..Len(r) /\ t[a] = r[a + 1]
    BY <1>0, <1>1
  <2> QED
    BY <1>5, <2>1 DEF RingOK
<1>6. u2 \subseteq Window
  BY <1>2 DEF RingOK
<1>7. RingOK(t, v, u2)
  BY <1>1, <1>3, <1>4, <1>5, <1>6 DEF RingOK
<1> QED
  BY <1>7 DEF t, u2

-----------------------------------------------------------------------------
(* wake_locked and post.                                                   *)
Awake(q) == q.signalled /\ q.pc # "asleep"

LEMMA WakeFacts ==
    ASSUME NEW q \in QueueState
    PROVE  wake(q) \in QueueState /\ wake(q).ring = q.ring /\ Awake(wake(q))
BY DEF wake, QueueState, Awake

LEMMA PostFacts ==
    ASSUME NEW q \in QueueState, Len(q.ring) <= kQueueSize, NEW m \in Message
    PROVE  /\ post(q, m) \in QueueState
           /\ \/ post(q, m) = q
              \/ /\ Awake(post(q, m))
                 /\ \/ post(q, m).ring = q.ring
                    \/ Len(q.ring) < kQueueSize /\ post(q, m).ring = Append(q.ring, m)
           /\ m.kind = "create" /\ Len(q.ring) < kQueueSize => post(q, m).ring = Append(q.ring, m)
<1> DEFINE a == [q EXCEPT !.ring = Append(@, m)]
<1>0. q.ring \in Seq(Message) /\ Len(q.ring) \in Nat /\ kQueueSize \in Nat
  BY QueueAssumption DEF QueueState
<1>1. a \in QueueState /\ a.ring = Append(q.ring, m)
  BY <1>0 DEF QueueState
<1>2. CASE Merges(q, m)
  <2>1. post(q, m) = wake(q) /\ m.kind # "create"
    BY <1>2 DEF post, MsgPush, Merges
  <2> QED
    BY <2>1, WakeFacts
<1>3. CASE ~Merges(q, m) /\ Len(q.ring) = kQueueSize
  BY <1>0, <1>3 DEF post
<1>4. CASE ~Merges(q, m) /\ Len(q.ring) # kQueueSize
  <2>1. post(q, m) = wake(a)
    BY <1>4 DEF post, MsgPush
  <2>2. Len(q.ring) < kQueueSize
    BY <1>0, <1>4
  <2> HIDE DEF a
  <2> QED
    BY <1>1, <2>1, <2>2, WakeFacts
<1> QED
  BY <1>2, <1>3, <1>4

-----------------------------------------------------------------------------
(* What a step has to establish beside WindowsKept.                        *)
RestNext == RingInv' /\ NoSleepWithWork'

LEMMA AwakeSafe ==
    ASSUME Awake(queue') \/ queue'.pc \in {"run", "look"}
    PROVE  NoSleepWithWork'
BY DEF Awake, NoSleepWithWork

(* Messages from other threads.                                            *)
LEMMA PostStep ==
    ASSUME QueueInv, NEW m \in Message, m.hwnd # "none" => win[m.hwnd].alive,
           queue' = post(queue, m), UNCHANGED <<win, untold>>
    PROVE  RestNext
<1>1. queue \in QueueState /\ RingOK(queue.ring, win, untold) /\ Len(queue.ring) <= kQueueSize
  BY RingInvIs DEF QueueInv, RingOK
<1>2. /\ queue' \in QueueState
      /\ \/ queue' = queue
         \/ /\ Awake(queue')
            /\ \/ queue'.ring = queue.ring
               \/ Len(queue.ring) < kQueueSize /\ queue'.ring = Append(queue.ring, m)
  BY <1>1, PostFacts
<1>3. RingOK(queue'.ring, win', untold')
  <2>1. CASE queue'.ring = queue.ring
    BY <1>1, <2>1
  <2>2. CASE Len(queue.ring) < kQueueSize /\ queue'.ring = Append(queue.ring, m)
    BY <1>1, <2>2, RingAppended
  <2> QED
    BY <1>2, <2>1, <2>2
<1>4. NoSleepWithWork'
  <2>1. CASE queue' = queue
    BY <2>1 DEF QueueInv, NoSleepWithWork, QueuePending, Candidate
  <2> QED
    BY <1>2, <2>1, AwakeSafe
<1> QED
  BY <1>2, <1>3, <1>4, RingInvNext DEF RestNext

(* A step that leaves the ring and what is alive, and does not put the     *)
(* thread to sleep.                                                        *)
LEMMA QuietStep ==
    ASSUME QueueInv, queue' \in QueueState, queue'.ring = queue.ring, untold' = untold,
           \A w \in Window : win'[w].alive = win[w].alive,
           NoSleepWithWork'
    PROVE  RestNext
<1>1. RingOK(queue.ring, win, untold)
  BY RingInvIs DEF QueueInv
<1>2. RingOK(queue'.ring, win', untold')
  BY <1>1, RingSame
<1> QED
  BY <1>2, RingInvNext DEF RestNext

LEMMA Alive ==
    ASSUME QueueInv
    PROVE  /\ queue \in QueueState /\ win \in [Window -> WindowState]
           /\ \A w \in Window : Shaped(win[w]) /\ Looked[w].alive = win[w].alive
<1>1. queue \in QueueState /\ win \in [Window -> WindowState]
  BY RingInvIs DEF QueueInv, WindowInv, WindowTypes
<1>2. \A w \in Window : Shaped(win[w])
  BY ShapedWindows DEF QueueInv
<1>3. \A w \in Window : Looked[w] = Recover(win[w])
  BY DEF Looked
<1> QED
  BY <1>1, <1>2, <1>3, RecoverWindow

(* The steps on one window of a thread that runs, or of another thread.    *)
LEMMA WindowStep ==
    ASSUME QueueInv, NEW w \in Window,
           \/ Invalidate(w) \/ ShowWin(w) \/ HideWin(w)
           \/ begin_paint(w) \/ end_paint(w) \/ delete_dc(w)
           \/ \E what \in SUBSET NoticeKind, e \in BOOLEAN : Notify(w, what, e)
    PROVE  RestNext
<1>0. queue \in QueueState /\ win \in [Window -> WindowState]
  BY Alive
<1>a. wake(queue) \in QueueState /\ wake(queue).ring = queue.ring /\ Awake(wake(queue))
  BY <1>0, WakeFacts
<1>1. CASE Invalidate(w)
  <2>1. /\ untold' = untold /\ \A x \in Window : win'[x].alive = win[x].alive
    BY <1>0, <1>1 DEF Invalidate, invalidated
  <2>2. CASE win[w].visible
    <3>1. queue' = wake(queue)
      BY <1>1, <2>2 DEF Invalidate, wake_if_seen
    <3> QED
      BY <1>a, <2>1, <3>1, AwakeSafe, QuietStep
  <2>3. CASE ~win[w].visible
    <3>1. queue' = queue
      BY <1>1, <2>3 DEF Invalidate, wake_if_seen
    <3>2. \A x \in Window : /\ win'[x].visible = win[x].visible /\ win'[x].paintDC = win[x].paintDC
                            /\ win'[x].pending = win[x].pending
                            /\ win'[x].visible => win'[x].invalid = win[x].invalid
      <4>1. /\ win'[w] = [win[w] EXCEPT !.invalid = TRUE] /\ win[w] \in WindowState
            /\ \A x \in Window : x # w => win'[x] = win[x]
        BY <1>0, <1>1 DEF Invalidate, invalidated
      <4> QED
        BY <2>3, <4>1 DEF WindowState
    <3>3. Candidate(win') \subseteq Candidate(win)
      BY <3>2 DEF Candidate
    <3>4. QueuePending' => QueuePending
      BY <3>1, <3>2, <3>3 DEF QueuePending
    <3>5. NoSleepWithWork'
      BY <3>1, <3>4 DEF NoSleepWithWork, QueueInv
    <3> QED
      BY <1>0, <2>1, <3>1, <3>5, QuietStep
  <2> QED
    BY <2>2, <2>3
<1>2. CASE ShowWin(w)
  <2>1. untold' = untold /\ queue' = wake(queue) /\ \A x \in Window : win'[x].alive = win[x].alive
    BY <1>0, <1>2 DEF ShowWin, wake_if_seen
  <2> QED
    BY <1>a, <2>1, AwakeSafe, QuietStep
<1>3. CASE HideWin(w)
  <2>1. /\ untold' = untold /\ queue' = queue
        /\ \A x \in Window : /\ win'[x].alive = win[x].alive /\ win'[x].pending = win[x].pending
                             /\ win'[x].paintDC = win[x].paintDC /\ win'[x].invalid = win[x].invalid
                             /\ win'[x].visible => win[x].visible
    BY <1>0, <1>3 DEF HideWin
  <2>2. Candidate(win') \subseteq Candidate(win)
    BY <2>1 DEF Candidate
  <2>3. QueuePending' => QueuePending
    BY <2>1, <2>2 DEF QueuePending
  <2>4. NoSleepWithWork'
    BY <2>1, <2>3 DEF NoSleepWithWork, QueueInv
  <2> QED
    BY <1>0, <2>1, <2>4, QuietStep
<1>4. CASE begin_paint(w)
  <2> DEFINE y == [Recover(win[w]) EXCEPT !.painting = Recover(win[w]).invalid,
                                          !.invalid = FALSE, !.paintDC = "live"]
  <2>1. /\ untold' = untold /\ queue' = queue /\ queue.pc = "run" /\ win[w].alive
        /\ win[w].paintDC # "live" /\ win' = [win EXCEPT ![w] = y]
    BY <1>4 DEF begin_paint, PumpRuns
  <2>2. y.alive
    BY <2>1, Alive, BeginWindow
  <2>3. win[w].alive \in BOOLEAN /\ y.alive \in BOOLEAN
    <3>1. Shaped(y)
      BY <2>1, Alive, BeginWindow
    <3> QED
      BY <1>0, <3>1 DEF Shaped, WindowState
  <2> HIDE DEF y
  <2>4. \A x \in Window : win'[x].alive = win[x].alive
    BY <1>0, <2>1, <2>2, <2>3
  <2> QED
    BY <1>0, <2>1, <2>4, AwakeSafe, QuietStep
<1>5. CASE end_paint(w) \/ delete_dc(w)
  <2>1. /\ untold' = untold /\ queue' = queue /\ queue.pc = "run"
        /\ \A x \in Window : win'[x].alive = win[x].alive
    <3>1. untold' = untold /\ queue' = queue /\ queue.pc = "run"
      BY <1>5 DEF end_paint, delete_dc, PumpRuns
    <3>2. \/ win' = [win EXCEPT ![w] = [win[w] EXCEPT !.paintDC = "none", !.painting = FALSE]]
          \/ win' = [win EXCEPT ![w] = [win[w] EXCEPT !.paintDC = "dead"]]
      BY <1>0, <1>5 DEF end_paint, delete_dc
    <3>3. win[w] \in WindowState /\ \A x \in Window : x # w => win'[x] = win[x]
      BY <1>0, <3>2
    <3>4. \/ win'[w] = [win[w] EXCEPT !.paintDC = "none", !.painting = FALSE]
          \/ win'[w] = [win[w] EXCEPT !.paintDC = "dead"]
      BY <1>0, <3>2
    <3>5. win'[w].alive = win[w].alive
      BY <3>3, <3>4 DEF WindowState
    <3> QED
      BY <3>1, <3>3, <3>5
  <2> QED
    BY <1>0, <2>1, AwakeSafe, QuietStep
<1>6. ASSUME NEW what \in SUBSET NoticeKind, NEW e \in BOOLEAN, Notify(w, what, e)
      PROVE  RestNext
  <2>1. untold' = untold /\ queue' = wake(queue) /\ \A x \in Window : win'[x].alive = win[x].alive
    <3>1. untold' = untold /\ queue' = wake(queue)
      BY <1>6 DEF Notify
    <3>2. win' = [win EXCEPT ![w] = [win[w] EXCEPT !.pending = @ \cup what, !.invalid = @ \/ e]]
      BY <1>0, <1>6 DEF Notify
    <3>3. win[w] \in WindowState /\ \A x \in Window : x # w => win'[x] = win[x]
      BY <1>0, <3>2
    <3>4. win'[w] = [win[w] EXCEPT !.pending = @ \cup what, !.invalid = @ \/ e]
      BY <1>0, <3>2
    <3>5. win'[w].alive = win[w].alive
      BY <3>3, <3>4 DEF WindowState
    <3> QED
      BY <3>1, <3>3, <3>5
  <2> QED
    BY <1>a, <2>1, AwakeSafe, QuietStep
<1> QED
  BY <1>1, <1>2, <1>3, <1>4, <1>5, <1>6

LEMMA CreateStep ==
    ASSUME QueueInv, NEW w \in Window, NEW visible \in BOOLEAN, queue_create(w, visible)
    PROVE  RestNext
<1> DEFINE q == wake_if_seen(queue, visible)
           m == [hwnd |-> w, kind |-> "create"]
           y == [NoWindow EXCEPT !.alive = TRUE, !.visible = visible, !.invalid = visible]
<1>0. queue \in QueueState /\ win \in [Window -> WindowState] /\ m \in Message /\ m.kind = "create"
  BY Alive DEF Message
<1>1. q \in QueueState /\ q.ring = queue.ring /\ q.pc # "asleep"
  BY <1>0, WakeFacts DEF wake_if_seen, queue_create, PumpRuns, Awake
<1>2. /\ ~win[w].alive /\ Len(queue.ring) < kQueueSize /\ win' = [win EXCEPT ![w] = y]
      /\ queue' = post(q, m) /\ untold' = untold \cup {w}
  BY DEF queue_create, RoomForCreate
<1> HIDE DEF q
<1>3. Len(q.ring) < kQueueSize /\ Len(q.ring) <= kQueueSize /\ Len(queue.ring) \in Nat
  BY <1>0, <1>1, <1>2, QueueAssumption DEF QueueState
<1>4. queue' \in QueueState /\ queue'.ring = Append(queue.ring, m)
  BY <1>0, <1>1, <1>2, <1>3, PostFacts
<1>5. y.alive
  BY DEF NoWindow
<1> HIDE DEF y, m
<1>6. win'[w].alive /\ \A x \in Window : win[x].alive => win'[x].alive
  BY <1>0, <1>2, <1>5
<1>7. RingOK(queue.ring, win, untold)
  BY RingInvIs DEF QueueInv
<1>8. RingOK(queue'.ring, win', untold')
  <2>1. RingOK(Append(queue.ring, m), win', untold \cup {w})
    BY <1>2, <1>6, <1>7, RingCreated DEF m
  <2> QED
    BY <1>2, <1>4, <2>1
<1>9. Awake(queue')
  <2>1. queue' # q
    <3>1. queue.ring \in Seq(Message)
      BY <1>0 DEF QueueState
    <3>2. Append(queue.ring, m) # queue.ring
      BY <1>0, <3>1
    <3> QED
      BY <1>1, <1>4, <3>2
  <2> QED
    BY <1>0, <1>1, <1>2, <1>3, <2>1, PostFacts
<1> QED
  BY <1>4, <1>8, <1>9, AwakeSafe, RingInvNext DEF RestNext

LEMMA DestroyStep ==
    ASSUME QueueInv, NEW w \in Window, queue_destroy(w)
    PROVE  RestNext
<1>0. queue \in QueueState /\ win \in [Window -> WindowState]
  BY Alive
<1>1. /\ queue.pc = "run" /\ win' = [win EXCEPT ![w] = NoWindow]
      /\ queue' = [queue EXCEPT !.ring = RemoveFor(@, w)] /\ untold' = untold \ {w}
  BY DEF queue_destroy, PumpRuns
<1>2. RemoveFor(queue.ring, w) \in Seq(Message)
  <2>1. queue.ring \in Seq(Message)
    BY <1>0 DEF QueueState
  <2> QED
    BY <2>1, RemoveForFacts
<1>3. queue' \in QueueState /\ queue'.ring = RemoveFor(queue.ring, w) /\ queue'.pc = "run"
  BY <1>0, <1>1, <1>2 DEF QueueState
<1>4. \A x \in Window \ {w} : win[x].alive => win'[x].alive
  BY <1>0, <1>1
<1>5. RingOK(queue.ring, win, untold)
  BY RingInvIs DEF QueueInv
<1>6. RingOK(queue'.ring, win', untold')
  <2>1. RingOK(RemoveFor(queue.ring, w), win', untold \ {w})
    BY <1>4, <1>5, RingRemoved
  <2> QED
    BY <1>1, <1>3, <2>1
<1> QED
  BY <1>3, <1>6, AwakeSafe, RingInvNext DEF RestNext

LEMMA GetMessageStep ==
    ASSUME QueueInv, get_message
    PROVE  RestNext
<1>0. queue \in QueueState /\ win \in [Window -> WindowState]
  BY Alive
<1>r. [queue EXCEPT !.pc = "run"] \in QueueState /\ [queue EXCEPT !.pc = "run"].ring = queue.ring
      /\ [queue EXCEPT !.pc = "run"].pc = "run"
  BY <1>0 DEF QueueState
<1>l. \A w \in Window : Looked[w].alive = win[w].alive
  BY Alive
<1>1. CASE GetFont \/ GetGeometry
  <2>1. /\ untold' = untold /\ queue' = [queue EXCEPT !.pc = "run"]
        /\ \E w \in Window : \E d : win' = [win EXCEPT ![w].pending = @ \ d]
    <3>1. CASE GetFont
      BY <3>1 DEF GetFont, ReturnMessage, WithPending
    <3>2. CASE GetGeometry
      <4>1. untold' = untold
        BY <3>2 DEF GetGeometry
      <4>2. PICK w \in Window : ReturnMessage([win EXCEPT ![w].pending = @ \
                (IF @ \cap GeometryNotices = {} THEN {"display"} ELSE NextGeometry(@))])
        BY <3>2 DEF GetGeometry, WithPending
      <4> DEFINE d == IF win[w].pending \cap GeometryNotices = {} THEN {"display"}
                      ELSE NextGeometry(win[w].pending)
      <4>3. win' = [win EXCEPT ![w].pending = @ \ d] /\ queue' = [queue EXCEPT !.pc = "run"]
        BY <4>2 DEF ReturnMessage
      <4> HIDE DEF d
      <4> QED
        BY <4>1, <4>3
    <3> QED
      BY <1>1, <3>1, <3>2
  <2>2. \A x \in Window : win'[x].alive = win[x].alive
    <3>0. PICK w \in Window : \E d : win' = [win EXCEPT ![w].pending = @ \ d]
      BY <2>1
    <3>1. PICK d : win' = [win EXCEPT ![w].pending = @ \ d]
      BY <3>0
    <3>2. win[w] \in WindowState /\ \A x \in Window : x # w => win'[x] = win[x]
      BY <1>0, <3>1
    <3>3. win'[w] = [win[w] EXCEPT !.pending = @ \ d]
      BY <1>0, <3>1
    <3> QED
      BY <3>2, <3>3 DEF WindowState
  <2> QED
    BY <1>r, <2>1, <2>2, AwakeSafe, QuietStep
<1>2. CASE GetPaint
  <2>1. untold' = untold /\ queue' = [queue EXCEPT !.pc = "run"] /\ win' = Looked
    BY <1>2 DEF GetPaint, ReturnMessage
  <2> QED
    BY <1>r, <1>l, <2>1, AwakeSafe, QuietStep
<1>3. ASSUME NEW remove \in BOOLEAN, GetInput(remove) PROVE RestNext
  <2>1. \A w \in Window : win'[w].alive = win[w].alive
    BY <1>3, <1>l DEF GetInput
  <2>2. queue.ring # <<>> /\ RingOK(queue.ring, win, untold) /\ queue.ring \in Seq(Message)
    BY <1>3, RingInvIs DEF GetInput, QueueInv, RingOK
  <2>3. CASE remove
    <3> DEFINE h == Head(queue.ring)
    <3>1. /\ queue' = [queue EXCEPT !.pc = "run", !.ring = Tail(@)]
          /\ untold' = IF h.kind = "create" THEN untold \ {h.hwnd} ELSE untold
      BY <1>3, <2>3 DEF GetInput
    <3>2. Tail(queue.ring) \in Seq(Message)
      BY <2>2
    <3>3. queue' \in QueueState /\ queue'.ring = Tail(queue.ring) /\ queue'.pc = "run"
      BY <1>0, <3>1, <3>2 DEF QueueState
    <3>4. RingOK(Tail(queue.ring), win, untold')
      BY <2>2, <3>1, RingTail
    <3>5. RingOK(queue'.ring, win', untold')
      BY <2>1, <3>3, <3>4, RingSame
    <3> QED
      BY <3>3, <3>5, AwakeSafe, RingInvNext DEF RestNext
  <2>4. CASE ~remove
    <3>1. queue' = [queue EXCEPT !.pc = "run", !.ring = @] /\ untold' = untold
      BY <1>3, <2>4 DEF GetInput
    <3>2. queue' \in QueueState /\ queue'.ring = queue.ring /\ queue'.pc = "run"
      BY <1>0, <3>1 DEF QueueState
    <3> QED
      BY <2>1, <3>1, <3>2, AwakeSafe, QuietStep
  <2> QED
    BY <2>3, <2>4
<1>4. ASSUME NEW block \in BOOLEAN, GetNothing(block) PROVE RestNext
  <2>1. /\ untold' = untold /\ win' = Looked /\ queue.ring = <<>> /\ Candidate(Looked) = {}
        /\ WithPending({"font", "display"} \cup GeometryNotices) = {}
        /\ queue' = [ResetHeader(queue) EXCEPT !.pc = IF block THEN "wait" ELSE "run"]
    BY <1>4 DEF GetNothing
  <2>2. queue' \in QueueState /\ queue'.ring = queue.ring /\ queue'.pc \in {"wait", "run"}
    BY <1>0, <2>1 DEF QueueState, ResetHeader
  <2>3. \A w \in Window : win[w].pending = {}
    <3> TAKE w \in Window
    <3>1. w \notin WithPending({"font", "display"} \cup GeometryNotices)
      BY <2>1
    <3>2. win[w].pending \subseteq NoticeKind
      BY <1>0 DEF WindowState
    <3> QED
      BY <3>1, <3>2 DEF WithPending, GeometryNotices, NoticeKind
  <2>4. \A w \in Window : win'[w].pending = {}
    <3> TAKE w \in Window
    <3>1. win'[w] = Recover(win[w]) /\ Shaped(win[w])
      BY <2>1, Alive DEF Looked
    <3> QED
      BY <2>3, <3>1, RecoverWindow
  <2>5. ~QueuePending'
    BY <2>1, <2>2, <2>4 DEF QueuePending
  <2>6. NoSleepWithWork'
    BY <2>2, <2>5 DEF NoSleepWithWork
  <2> QED
    BY <1>l, <2>1, <2>2, <2>6, QuietStep
<1> QED
  BY <1>1, <1>2, <1>3, <1>4 DEF get_message

LEMMA QueueStep ==
    ASSUME QueueInv, [QueueNext]_mqVars
    PROVE  QueueInv' /\ WindowsKept
<1>w. WindowsKept
  BY WindowsStep DEF QueueInv
<1> SUFFICES RestNext
  BY <1>w DEF WindowsKept, RestNext, QueueInv
<1>0. queue \in QueueState /\ win \in [Window -> WindowState]
  BY Alive
<1>1. CASE PostMessage
  <2>1. PICK w \in Window, k \in {"post", "mousemove"} :
          win[w].alive /\ queue' = post(queue, [hwnd |-> w, kind |-> k])
    BY <1>1 DEF PostMessage
  <2> DEFINE m == [hwnd |-> w, kind |-> k]
  <2>2. m \in Message /\ win[m.hwnd].alive
    BY <2>1 DEF Message
  <2>3. queue' = post(queue, m) /\ UNCHANGED <<win, untold>>
    BY <1>1, <2>1 DEF PostMessage
  <2> HIDE DEF m
  <2> QED
    BY <2>2, <2>3, PostStep
<1>2. CASE PostThreadMessage
  <2> DEFINE m == [hwnd |-> "none", kind |-> "post"]
  <2>1. m \in Message /\ m.hwnd = "none"
    BY DEF Message
  <2>2. queue' = post(queue, m) /\ UNCHANGED <<win, untold>>
    BY <1>2 DEF PostThreadMessage
  <2> HIDE DEF m
  <2> QED
    BY <2>1, <2>2, PostStep
<1>3. CASE Notices
  <2>1. \E w \in Window, what \in SUBSET NoticeKind, e \in BOOLEAN : Notify(w, what, e)
    <3>1. \A w \in Window : win[w].visible \in BOOLEAN
      BY <1>0 DEF WindowState
    <3>2. {GeometryNotices, {"size"}, {"font"}, {"font", "move"}} \subseteq SUBSET NoticeKind
          /\ {"display"} \in SUBSET NoticeKind
      BY DEF GeometryNotices, NoticeKind
    <3> QED
      BY <1>3, <3>1, <3>2 DEF Notices
  <2> QED
    BY <2>1, WindowStep
<1>4. CASE get_message
  BY <1>4, GetMessageStep
<1>5. CASE QueueWait
  <2>1. /\ untold' = untold /\ win' = win /\ queue.pc = "wait"
        /\ queue' = [queue EXCEPT !.pc = IF queue.signalled THEN "look" ELSE "asleep"]
    BY <1>5 DEF QueueWait
  <2>2. queue' \in QueueState /\ queue'.ring = queue.ring
        /\ queue'.pc = IF queue.signalled THEN "look" ELSE "asleep"
    BY <1>0, <2>1 DEF QueueState
  <2>3. QueuePending' <=> QueuePending
    BY <2>1, <2>2 DEF QueuePending, Candidate
  <2>4. NoSleepWithWork'
    BY <2>1, <2>2, <2>3 DEF NoSleepWithWork, QueueInv
  <2> QED
    BY <2>1, <2>2, <2>4, QuietStep
<1>6. CASE \E w \in Window, visible \in BOOLEAN : queue_create(w, visible)
  BY <1>6, CreateStep
<1>7. CASE \E w \in Window : queue_destroy(w)
  BY <1>7, DestroyStep
<1>8. CASE \E w \in Window : \/ Invalidate(w) \/ ShowWin(w) \/ HideWin(w)
                             \/ begin_paint(w) \/ end_paint(w) \/ delete_dc(w)
  BY <1>8, WindowStep
<1>9. CASE UNCHANGED mqVars
  <2>1. queue' = queue /\ win' = win /\ untold' = untold
    BY <1>9 DEF mqVars
  <2>2. NoSleepWithWork'
    BY <2>1 DEF NoSleepWithWork, QueuePending, Candidate, QueueInv
  <2> QED
    BY <1>0, <2>1, <2>2, QuietStep
<1> QED
  BY <1>1, <1>2, <1>3, <1>4, <1>5, <1>6, <1>7, <1>8, <1>9 DEF QueueNext

LEMMA QueueStart ==
    ASSUME QueueInit
    PROVE  QueueInv
<1>1. queue \in QueueState /\ queue.ring = <<>> /\ queue.pc = "run" /\ Len(<<>>) <= kQueueSize
  BY QueueAssumption DEF QueueInit, QueueState
<1>2. \A w \in Window : win[w] = NoWindow
  BY DEF QueueInit
<1>3. win = [w \in Window |-> win[w]] /\ \A w \in Window : Shaped(win[w])
  <2>1. Shaped(NoWindow)
    BY DEF Shaped, NoWindow, WindowState
  <2> QED
    BY <1>2, <2>1 DEF QueueInit
<1>4. RingOK(queue.ring, win, untold)
  BY <1>1 DEF QueueInit, RingOK
<1>5. NoSleepWithWork
  BY <1>1 DEF NoSleepWithWork
<1> QED
  BY <1>1, <1>3, <1>4, <1>5, ShapedWindows, RingInvIs DEF QueueInv

(* The thread of a queue never sleeps while it has a message, a notice or  *)
(* damage to take; the ring never holds a message to a destroyed window;   *)
(* and a window's WM_CREATE is its first message and is never dropped.     *)
THEOREM QueueIsSafe == QueueSpec => []QueueSafe
<1>1. QueueInit => QueueInv
  BY QueueStart
<1>2. QueueInv /\ [QueueNext]_mqVars => QueueInv'
  BY QueueStep
<1>3. QueueInv => QueueSafe
  BY DEF QueueInv, QueueSafe, QueueTypeOK, RingInv, WindowInv, WindowTypes, QueueTypes,
         QueueState, WindowState, NoticeKind
<1> QED
  BY <1>1, <1>2, <1>3, PTL DEF QueueSpec

LEMMA AtMostOne ==
    ASSUME NEW S, NEW n, S \subseteq {n}
    PROVE  Cardinality(S) <= 1
<1>1. S = {} \/ S = {n}
  OBVIOUS
<1>2. Cardinality({}) = 0 /\ Cardinality({n}) = 1
  BY FS_EmptySet, FS_Singleton
<1> QED
  BY <1>1, <1>2

(* No step drops a window's damage before a paint of it ended, nor takes   *)
(* back two pending notices of a window at once.                           *)
THEOREM QueueNeverDrops == QueueSpec => QueueKeeps
<1>1. QueueInit => QueueInv
  BY QueueStart
<1>2. QueueInv /\ [QueueNext]_mqVars => QueueInv'
  BY QueueStep
<1>3. QueueInv /\ [QueueNext]_mqVars => [DamageKept /\ NoticesOneByOne]_mqVars
  <2> SUFFICES ASSUME QueueInv, [QueueNext]_mqVars
               PROVE  DamageKept /\ NoticesOneByOne
    OBVIOUS
  <2>1. \A w \in Window : Kept(win[w], win'[w])
    BY QueueStep DEF WindowsKept
  <2>2. DamageKept
    BY <2>1 DEF Kept, DamageKept
  <2>3. ASSUME NEW w \in Window, win'[w].alive
        PROVE  Cardinality(win[w].pending \ win'[w].pending) <= 1
    <3>1. PICK n : win[w].pending \ win'[w].pending \subseteq {n}
      BY <2>1, <2>3 DEF Kept
    <3> QED
      BY <3>1, AtMostOne
  <2> QED
    BY <2>2, <2>3 DEF NoticesOneByOne
<1> QED
  BY <1>1, <1>2, <1>3, PTL DEF QueueSpec, QueueKeeps

-----------------------------------------------------------------------------
(* The screen, seen from the scene: c is what was painted, and the cells   *)
(* of d wait for EndPaint.                                                 *)
Shade == Color \cup {CursorShape}
SceneType ==
    [surface : Surface, pixels : [Cell -> Shade], image : [Cell -> Shade], x : Cell \cup {0},
     drawn : {NoCursor} \cup [at : Cell, saved : Color, surface : Surface], drawDepth : Nat,
     frameDamage : SUBSET Cell, changed : BOOLEAN]

ShowsBut(s, d) == \A y \in Cell : y \in d \/ y \in s.frameDamage \/ s.image[y] = s.pixels[y]

(* Without the cursor the pixels are the scene; the cursor covers one, and *)
(* keeps what is under it.                                                 *)
Clean(s, c, d) == s \in SceneType /\ s.drawn = NoCursor /\ s.pixels = c /\ ShowsBut(s, d)
Covered(s, c, d) ==
    /\ s \in SceneType /\ ShowsBut(s, d)
    /\ s.drawn = [at |-> s.x, saved |-> c[s.x], surface |-> s.surface] /\ s.x # 0
    /\ s.pixels = [c EXCEPT ![s.x] = CursorShape] /\ s.image[s.x] = CursorShape

(* Whenever the lock is free.                                              *)
Capable == adapter.packed \/ adapter.ReadPixel
Stable(s, c, d) ==
    /\ s.drawDepth = 0 /\ s.frameDamage = {}
    /\ IF s.x # 0 /\ Capable THEN Covered(s, c, d) ELSE Clean(s, c, d)

SceneInv ==
    /\ adapter \in [packed : BOOLEAN, VisibleFill : BOOLEAN, ReadPixel : BOOLEAN]
    /\ content \in [Cell -> Color]
    /\ paint \in [open : BOOLEAN, clip : SUBSET Cell, damage : SUBSET Cell]
    /\ ~paint.open => paint.damage = {} /\ paint.clip = {}
    /\ Stable(scene, content, paint.damage)

Painted(c, cells, color) == [y \in Cell |-> IF y \in cells THEN color ELSE c[y]]
Same(s, t) == s.x = t.x /\ s.surface = t.surface /\ s.changed = t.changed

(* Presenting cells.                                                       *)
LEMMA PresentFacts ==
    ASSUME NEW s \in SceneType, NEW cells
    PROVE  /\ present(s, cells) \in SceneType
           /\ present(s, cells).pixels = s.pixels /\ present(s, cells).drawn = s.drawn
           /\ present(s, cells).drawDepth = s.drawDepth
           /\ present(s, cells).frameDamage = s.frameDamage /\ Same(present(s, cells), s)
           /\ \A y \in Cell : present(s, cells).image[y] =
                                IF y \in cells THEN s.pixels[y] ELSE s.image[y]
<1> DEFINE i == [y \in Cell |-> IF y \in cells THEN s.pixels[y] ELSE s.image[y]]
<1>1. i \in [Cell -> Shade]
      BY DEF SceneType
<1>2. present(s, cells) = [s EXCEPT !.image = i]
      BY DEF present
<1> HIDE DEF i
<1>3. /\ present(s, cells) \in SceneType /\ present(s, cells).image = i
      /\ present(s, cells).pixels = s.pixels /\ present(s, cells).drawn = s.drawn
      /\ present(s, cells).drawDepth = s.drawDepth
      /\ present(s, cells).frameDamage = s.frameDamage /\ Same(present(s, cells), s)
      BY <1>1, <1>2 DEF SceneType, Same
<1>q. QED
      BY <1>3 DEF i

(* Hiding the cursor.                                                      *)
LEMMA HideNothing == ASSUME NEW s, s.drawn = NoCursor PROVE cursor_hide(s) = s
BY DEF cursor_hide

LEMMA HideFacts ==
    ASSUME NEW s, NEW c \in [Cell -> Color], NEW d, Stable(s, c, d)
    PROVE  /\ Clean(cursor_hide(s), c, d) /\ Same(cursor_hide(s), s)
           /\ cursor_hide(s).drawDepth = 0 /\ cursor_hide(s).frameDamage = {}
<1>1. CASE Clean(s, c, d)
      BY <1>1, HideNothing DEF Clean, Stable, Same
<1>2. CASE Covered(s, c, d)
      <2>1. /\ s \in SceneType /\ s.x \in Cell /\ s.drawDepth = 0 /\ s.frameDamage = {}
            /\ s.drawn = [at |-> s.x, saved |-> c[s.x], surface |-> s.surface]
            BY <1>2 DEF Covered, Stable, SceneType
      <2>2. s.drawn.at = s.x /\ s.drawn.saved = c[s.x] /\ s.drawn.surface = s.surface
            BY <2>1
      <2>3. s.drawn # NoCursor
            BY <2>1, <2>2, SceneAssumption DEF NoCursor
      <2> DEFINE p == [s.pixels EXCEPT ![s.x] = c[s.x]]
                 t == [s EXCEPT !.pixels = p, !.drawn = NoCursor]
      <2>4. cursor_hide(s) = present(t, {s.x})
            BY <2>2, <2>3 DEF cursor_hide
      <2>5. p = c
            BY <1>2, <2>1 DEF Covered
      <2>6. c \in [Cell -> Shade]
            BY DEF Shade
      <2> HIDE DEF p
      <2>7. /\ t \in SceneType /\ t.pixels = c /\ t.drawn = NoCursor /\ t.image = s.image
            /\ t.drawDepth = 0 /\ t.frameDamage = {} /\ Same(t, s)
            BY <2>1, <2>5, <2>6 DEF SceneType, Same
      <2> HIDE DEF t
      <2> DEFINE h == present(t, {s.x})
      <2>8. /\ h \in SceneType /\ h.pixels = c /\ h.drawn = NoCursor /\ Same(h, s)
            /\ h.drawDepth = 0 /\ h.frameDamage = {}
            /\ \A y \in Cell : h.image[y] = IF y = s.x THEN c[y] ELSE s.image[y]
            BY <2>7, PresentFacts, SMTT(30) DEF Same
      <2>9. \A y \in Cell : y # s.x => s.pixels[y] = c[y]
            BY <1>2, <2>1 DEF Covered
      <2>10. ShowsBut(h, d)
            BY <1>2, <2>1, <2>8, <2>9 DEF ShowsBut, Covered
      <2>q. QED
            BY <2>4, <2>8, <2>10 DEF Clean
<1>q. QED
      BY <1>1, <1>2 DEF Stable

(* Showing it: nothing within a scene draw.                                *)
LEMMA ShowNothing ==
    ASSUME NEW s \in SceneType, s.drawDepth > 0 PROVE cursor_show(s) = s
BY DEF cursor_show, may_show, SceneType

LEMMA ShowFacts ==
    ASSUME NEW s, NEW c \in [Cell -> Color], NEW d, Clean(s, c, d), s.drawDepth = 0,
           s.frameDamage = {}
    PROVE  Stable(cursor_show(s), c, d) /\ Same(cursor_show(s), s)
<1>1. CASE ~(s.x # 0 /\ Capable)
      <2>1. cursor_show(s) = s
            BY <1>1 DEF cursor_show, may_show, Capable
      <2>q. QED
            BY <1>1, <2>1 DEF Stable, Same
<1>2. CASE s.x # 0 /\ Capable
      <2>1. s \in SceneType /\ s.x \in Cell /\ s.pixels = c /\ s.surface \in Surface
            BY <1>2 DEF Clean, SceneType
      <2> DEFINE p == [s.pixels EXCEPT ![s.x] = CursorShape]
                 r == [at |-> s.x, saved |-> s.pixels[s.x], surface |-> s.surface]
                 t == [s EXCEPT !.drawn = r, !.pixels = p]
      <2>2. cursor_show(s) = present(t, {s.x})
            BY <1>2 DEF cursor_show, may_show, Capable, Clean
      <2>3. p \in [Cell -> Shade] /\ p = [c EXCEPT ![s.x] = CursorShape] /\ p[s.x] = CursorShape
            BY <2>1 DEF Shade
      <2>4. r \in [at : Cell, saved : Color, surface : Surface]
            BY <2>1
      <2>5. r = [at |-> s.x, saved |-> c[s.x], surface |-> s.surface]
            BY <2>1
      <2> HIDE DEF p, r
      <2>6. /\ t \in SceneType /\ t.pixels = p /\ t.drawn = r /\ t.image = s.image
            /\ t.drawDepth = 0 /\ t.frameDamage = {} /\ Same(t, s)
            BY <2>1, <2>3, <2>4 DEF SceneType, Same
      <2> HIDE DEF t
      <2> DEFINE h == present(t, {s.x})
      <2>7. /\ h \in SceneType /\ h.pixels = p /\ h.drawn = r /\ Same(h, s)
            /\ h.drawDepth = 0 /\ h.frameDamage = {}
            /\ \A y \in Cell : h.image[y] = IF y = s.x THEN p[y] ELSE s.image[y]
            BY <2>6, PresentFacts, SMTT(30) DEF Same
      <2>8. \A y \in Cell : y # s.x => p[y] = c[y]
            BY <2>1 DEF p
      <2>9. ShowsBut(h, d)
            BY <2>1, <2>7, <2>8, ZenonT(60) DEF ShowsBut, Clean
      <2>10. Covered(h, c, d)
            BY <1>2, <2>1, <2>3, <2>5, <2>7, <2>9 DEF Covered, Same
      <2>q. QED
            BY <1>2, <2>2, <2>7, <2>10 DEF Stable, Same
<1>q. QED
      BY <1>1, <1>2

(* Painting: the cells are presented, or are damage to be presented.       *)
LEMMA FillFacts ==
    ASSUME NEW s, NEW c \in [Cell -> Color], NEW d, Clean(s, c, d), NEW cells \in SUBSET Cell,
           NEW color \in Color, NEW small \in BOOLEAN
    PROVE  LET f == fill(s, cells, small, color)
           IN  /\ f \in SceneType /\ f.drawn = NoCursor /\ f.pixels = Painted(c, cells, color)
               /\ f.drawDepth = s.drawDepth /\ f.frameDamage = s.frameDamage /\ Same(f, s)
               /\ IF Deferred(s, small) THEN ShowsBut(f, d \cup cells) ELSE ShowsBut(f, d \ cells)
<1> DEFINE p == Painted(c, cells, color)
           t == [s EXCEPT !.pixels = p]
           f == fill(s, cells, small, color)
<1>1. s \in SceneType /\ s.pixels = c /\ s.drawn = NoCursor
      BY DEF Clean
<1>2. p \in [Cell -> Shade] /\ \A y \in Cell : p[y] = IF y \in cells THEN color ELSE c[y]
      BY DEF Painted, Shade
<1>3. f = IF Deferred(s, small) THEN t ELSE present(t, cells)
      BY <1>1 DEF fill, Painted
<1> HIDE DEF p
<1>4. /\ t \in SceneType /\ t.pixels = p /\ t.drawn = NoCursor /\ t.image = s.image
      /\ t.drawDepth = s.drawDepth /\ t.frameDamage = s.frameDamage /\ Same(t, s)
      BY <1>1, <1>2 DEF SceneType, Same
<1> HIDE DEF t, f
<1>5. CASE Deferred(s, small)
      <2>1. ShowsBut(t, d \cup cells)
            BY <1>1, <1>2, <1>4 DEF ShowsBut, Clean
      <2>q. QED
            BY <1>3, <1>4, <1>5, <2>1 DEF f, p
<1>6. CASE ~Deferred(s, small)
      <2> DEFINE h == present(t, cells)
      <2>1. /\ h \in SceneType /\ h.pixels = p /\ h.drawn = NoCursor /\ Same(h, s)
            /\ h.drawDepth = s.drawDepth /\ h.frameDamage = s.frameDamage
            /\ \A y \in Cell : h.image[y] = IF y \in cells THEN p[y] ELSE s.image[y]
            BY <1>4, PresentFacts, SMTT(30) DEF Same
      <2>2. ShowsBut(h, d \ cells)
            BY <1>1, <1>2, <2>1 DEF ShowsBut, Clean
      <2>q. QED
            BY <1>3, <1>6, <2>1, <2>2 DEF f, p
<1>q. QED
      BY <1>5, <1>6

LEMMA FillLarge ==
    ASSUME NEW s, NEW c \in [Cell -> Color], NEW d, Clean(s, c, d), NEW cells \in SUBSET Cell,
           NEW color \in Color
    PROVE  LET f == fill(s, cells, FALSE, color)
           IN  /\ f \in SceneType /\ f.drawn = NoCursor /\ f.pixels = Painted(c, cells, color)
               /\ f.drawDepth = s.drawDepth /\ f.frameDamage = s.frameDamage
               /\ IF Deferred(s, FALSE) THEN ShowsBut(f, d \cup cells) ELSE ShowsBut(f, d \ cells)
<1> PICK small \in BOOLEAN : small = FALSE
    OBVIOUS
<1> DEFINE f == fill(s, cells, small, color)
<1>1. /\ f \in SceneType /\ f.drawn = NoCursor /\ f.pixels = Painted(c, cells, color)
      /\ f.drawDepth = s.drawDepth /\ f.frameDamage = s.frameDamage
      /\ IF Deferred(s, small) THEN ShowsBut(f, d \cup cells) ELSE ShowsBut(f, d \ cells)
      BY FillFacts, ZenonT(60)
<1>q. QED
      BY <1>1

LEMMA FillDamageFacts ==
    ASSUME NEW s, NEW c \in [Cell -> Color], NEW d, Clean(s, c, d), NEW cells \in SUBSET Cell,
           NEW color \in Color
    PROVE  LET f == fill_and_damage(s, cells, color)
           IN  /\ Clean(f, Painted(c, cells, color), d \ cells)
               /\ f.drawDepth = s.drawDepth /\ Same(f, s)
               /\ s.drawDepth = 0 => f.frameDamage = s.frameDamage
<1> DEFINE p == Painted(c, cells, color)
           g == fill(s, cells, TRUE, color)
<1>1. /\ g \in SceneType /\ g.drawn = NoCursor /\ g.pixels = p
      /\ g.drawDepth = s.drawDepth /\ g.frameDamage = s.frameDamage /\ Same(g, s)
      /\ IF Deferred(s, TRUE) THEN ShowsBut(g, d \cup cells) ELSE ShowsBut(g, d \ cells)
      BY FillFacts
<1>2. fill_and_damage(s, cells, color) = IF Deferred(s, TRUE) THEN damage(g, cells) ELSE g
      BY DEF fill_and_damage
<1>3. s.drawDepth \in Nat
      BY DEF Clean, SceneType
<1> HIDE DEF g, p
<1>4. CASE ~Deferred(s, TRUE)
      BY <1>1, <1>2, <1>4 DEF Clean, p
<1>5. CASE Deferred(s, TRUE) /\ s.drawDepth > 0
      <2> DEFINE h == [g EXCEPT !.frameDamage = @ \cup cells]
      <2>1. fill_and_damage(s, cells, color) = h
            BY <1>1, <1>2, <1>5 DEF damage
      <2>2. /\ h \in SceneType /\ h.pixels = p /\ h.drawn = NoCursor /\ Same(h, s)
            /\ h.drawDepth = s.drawDepth /\ h.frameDamage = g.frameDamage \cup cells
            /\ h.image = g.image
            BY <1>1 DEF SceneType, Same
      <2> HIDE DEF h
      <2>3. ShowsBut(h, d \ cells)
            BY <1>1, <1>5, <2>2 DEF ShowsBut
      <2>q. QED
            BY <1>3, <1>5, <2>1, <2>2, <2>3 DEF Clean, p
<1>6. CASE Deferred(s, TRUE) /\ ~(s.drawDepth > 0)
      <2> DEFINE h == present(g, cells)
      <2>1. fill_and_damage(s, cells, color) = h
            BY <1>1, <1>2, <1>6 DEF damage
      <2>2. /\ h \in SceneType /\ h.pixels = p /\ h.drawn = NoCursor /\ Same(h, s)
            /\ h.drawDepth = s.drawDepth /\ h.frameDamage = s.frameDamage
            /\ \A y \in Cell : h.image[y] = IF y \in cells THEN p[y] ELSE g.image[y]
            BY <1>1, PresentFacts, SMTT(30) DEF Same
      <2> HIDE DEF h
      <2>3. ShowsBut(h, d \ cells)
            BY <1>1, <1>6, <2>2 DEF ShowsBut
      <2>q. QED
            BY <2>1, <2>2, <2>3 DEF Clean, p
<1>q. QED
      BY <1>4, <1>5, <1>6

(* The end of a nested scene draw, and of the outermost.                   *)
LEMMA EndInner ==
    ASSUME NEW s, NEW c, NEW d, Clean(s, c, d), s.drawDepth > 1
    PROVE  /\ Clean(end_scene(s), c, d) /\ end_scene(s).drawDepth = s.drawDepth - 1
           /\ Same(end_scene(s), s)
<1> DEFINE e == [s EXCEPT !.drawDepth = @ - 1]
<1>1. /\ e \in SceneType /\ e.drawDepth = s.drawDepth - 1 /\ e.drawDepth > 0 /\ Same(e, s)
      /\ e.pixels = s.pixels /\ e.image = s.image /\ e.drawn = s.drawn
      /\ e.frameDamage = s.frameDamage
      BY DEF Clean, SceneType, Same
<1>2. end_scene(s) = cursor_show(IF e.drawDepth = 0 THEN flush_frame_damage(e) ELSE e)
      BY DEF end_scene
<1> HIDE DEF e
<1>3. end_scene(s) = e
      <2>1. e.drawDepth # 0
            BY <1>1 DEF SceneType
      <2>q. QED
            BY <1>1, <1>2, <2>1, ShowNothing
<1>4. Clean(e, c, d)
      BY <1>1 DEF Clean, ShowsBut
<1>q. QED
      BY <1>1, <1>3, <1>4

LEMMA EndOuter ==
    ASSUME NEW s, NEW c \in [Cell -> Color], NEW d, Clean(s, c, d), s.drawDepth = 1
    PROVE  Stable(end_scene(s), c, d) /\ Same(end_scene(s), s)
<1> DEFINE e == [s EXCEPT !.drawDepth = @ - 1]
           t == present(e, e.frameDamage)
           f == [t EXCEPT !.frameDamage = {}]
<1>1. /\ e \in SceneType /\ e.drawDepth = 0 /\ Same(e, s)
      /\ e.pixels = c /\ e.image = s.image /\ e.drawn = NoCursor
      /\ e.frameDamage = s.frameDamage
      BY DEF Clean, SceneType, Same
<1>2. end_scene(s) = cursor_show(f)
      BY <1>1 DEF end_scene, flush_frame_damage
<1> HIDE DEF e
<1>3. /\ t \in SceneType /\ t.pixels = c /\ t.drawn = NoCursor /\ Same(t, s) /\ t.drawDepth = 0
      /\ \A y \in Cell : t.image[y] = IF y \in s.frameDamage THEN c[y] ELSE s.image[y]
      BY <1>1, PresentFacts, SMTT(30) DEF Same
<1> HIDE DEF t
<1>4. /\ f \in SceneType /\ f.pixels = c /\ f.drawn = NoCursor /\ Same(f, s) /\ f.drawDepth = 0
      /\ f.image = t.image /\ f.frameDamage = {}
      BY <1>3 DEF SceneType, Same
<1> HIDE DEF f
<1>5. ShowsBut(f, d)
      BY <1>3, <1>4 DEF ShowsBut, Clean
<1>6. Clean(f, c, d)
      BY <1>4, <1>5 DEF Clean
<1>7. Stable(cursor_show(f), c, d) /\ Same(cursor_show(f), f)
      BY <1>4, <1>6, ShowFacts
<1>q. QED
      BY <1>2, <1>4, <1>7 DEF Same

LEMMA BeginFacts ==
    ASSUME NEW s, NEW c, NEW d, Clean(s, c, d)
    PROVE  /\ Clean(begin_scene(s), c, d) /\ begin_scene(s).drawDepth = s.drawDepth + 1
           /\ Same(begin_scene(s), s) /\ begin_scene(s).frameDamage = s.frameDamage
<1>1. begin_scene(s) = [s EXCEPT !.drawDepth = @ + 1]
      BY HideNothing DEF begin_scene, Clean
<1> DEFINE b == [s EXCEPT !.drawDepth = @ + 1]
<1>2. /\ b \in SceneType /\ b.drawDepth = s.drawDepth + 1 /\ Same(b, s)
      /\ b.pixels = s.pixels /\ b.image = s.image /\ b.drawn = s.drawn
      /\ b.frameDamage = s.frameDamage
      BY DEF Clean, SceneType, Same
<1> HIDE DEF b
<1>q. QED
      BY <1>1, <1>2 DEF b, Clean, ShowsBut

LEMMA StillStable ==
    ASSUME NEW s, NEW c, NEW d, Stable(s, c, d), NEW e, d \subseteq e
    PROVE  Stable(s, c, e)
BY DEF Stable, Clean, Covered, ShowsBut

LEMMA ExposeFacts ==
    ASSUME NEW s, NEW c \in [Cell -> Color], NEW d, Clean(s, c, d), NEW cells \in SUBSET Cell,
           NEW frame \in SUBSET Cell, NEW color \in Color
    PROVE  LET e == expose(s, cells, color, frame)
               p == Painted(c, cells \cup frame, color)
           IN  /\ Same(e, s)
               /\ s.drawDepth = 0 => Stable(e, p, (d \ cells) \ frame)
               /\ s.drawDepth > 0 => Clean(e, p, (d \ cells) \ frame) /\ e.drawDepth = s.drawDepth
<1> DEFINE b == begin_scene(s)
           f == fill_and_damage(b, cells, color)
           g == begin_scene(f)
           i == fill_screen(g, frame, color)
           n == end_scene(i)
           q == Painted(c, cells, color)
           p == Painted(c, cells \cup frame, color)
<1>1. s.drawDepth \in Nat
      BY DEF Clean, SceneType
<1>2. Clean(b, c, d) /\ b.drawDepth = s.drawDepth + 1 /\ Same(b, s)
      BY BeginFacts
<1>3. q \in [Cell -> Color] /\ p \in [Cell -> Color] /\ Painted(q, frame, color) = p
      BY DEF Painted
<1> HIDE DEF b, q, p
<1>4. Clean(f, q, d \ cells) /\ f.drawDepth = s.drawDepth + 1 /\ Same(f, s)
      <2>1. Clean(f, q, d \ cells) /\ f.drawDepth = b.drawDepth /\ Same(f, b)
            BY <1>2, FillDamageFacts DEF q
      <2>q. QED
            BY <1>2, <2>1 DEF Same
<1> HIDE DEF f
<1>5. Clean(g, q, d \ cells) /\ g.drawDepth = s.drawDepth + 2 /\ Same(g, s)
      BY <1>1, <1>4, BeginFacts DEF Same
<1> HIDE DEF g
<1>6. Clean(i, p, (d \ cells) \ frame) /\ i.drawDepth = s.drawDepth + 2 /\ Same(i, s)
      <2> DEFINE j == fill_and_damage(g, frame, color)
      <2>1. Clean(j, p, (d \ cells) \ frame) /\ j.drawDepth = s.drawDepth + 2 /\ Same(j, s)
            <3>1. /\ Clean(j, Painted(q, frame, color), (d \ cells) \ frame)
                  /\ j.drawDepth = g.drawDepth /\ Same(j, g)
                  BY <1>3, <1>5, FillDamageFacts
            <3>q. QED
                  BY <1>3, <1>5, <3>1 DEF Same
      <2>2. i = cursor_show(j)
            BY <1>5, HideNothing DEF fill_screen, Clean
      <2> HIDE DEF j
      <2>3. j \in SceneType /\ j.drawDepth > 0
            BY <1>1, <2>1 DEF Clean
      <2>q. QED
            BY <2>1, <2>2, <2>3, ShowNothing
<1> HIDE DEF i
<1>7. Clean(n, p, (d \ cells) \ frame) /\ n.drawDepth = s.drawDepth + 1 /\ Same(n, s)
      <2>1. i.drawDepth > 1 /\ i.drawDepth - 1 = s.drawDepth + 1
            BY <1>1, <1>6
      <2>q. QED
            BY <1>6, <2>1, EndInner DEF Same
<1>8. expose(s, cells, color, frame) = end_scene(n)
      BY DEF expose, n, i, g, f, b
<1> HIDE DEF n
<1>9. CASE s.drawDepth = 0
      <2>1. n.drawDepth = 1
            BY <1>7, <1>9
      <2>2. Stable(end_scene(n), p, (d \ cells) \ frame) /\ Same(end_scene(n), n)
            BY <1>3, <1>7, <2>1, EndOuter
      <2>q. QED
            BY <1>7, <1>8, <1>9, <2>2 DEF Same, p
<1>10. CASE s.drawDepth > 0
      <2>1. n.drawDepth > 1 /\ n.drawDepth - 1 = s.drawDepth
            BY <1>1, <1>7, <1>10
      <2>2. /\ Clean(end_scene(n), p, (d \ cells) \ frame)
            /\ end_scene(n).drawDepth = s.drawDepth /\ Same(end_scene(n), n)
            BY <1>7, <2>1, EndInner
      <2>q. QED
            BY <1>7, <1>8, <1>10, <2>2 DEF Same, p
<1>q. QED
      BY <1>1, <1>9, <1>10

LEMMA ExposeAll ==
    ASSUME NEW s, NEW c \in [Cell -> Color], NEW d, Clean(s, c, d), NEW color \in Color,
           s.drawDepth = 1
    PROVE  LET e == expose(s, Cell, color, {})
           IN  Clean(e, Painted(c, Cell \cup {}, color), (d \ Cell) \ {}) /\ e.drawDepth = 1
<1> PICK none \in SUBSET Cell, all \in SUBSET Cell : none = {} /\ all = Cell
    OBVIOUS
<1> DEFINE e == expose(s, all, color, none)
<1>1. s.drawDepth > 0
      OBVIOUS
<1>2. /\ s.drawDepth > 0 => /\ Clean(e, Painted(c, all \cup none, color), (d \ all) \ none)
                            /\ e.drawDepth = s.drawDepth
      BY ExposeFacts
<1>q. QED
      BY <1>1, <1>2

(* Moving the cursor, when none is drawn.                                  *)
LEMMA MoveFacts ==
    ASSUME NEW s, NEW c \in [Cell -> Color], NEW d, Clean(s, c, d), NEW x \in Cell
    PROVE  /\ s.drawDepth = 0 /\ s.frameDamage = {} => Stable(cursor_move(s, x), c, d)
           /\ s.drawDepth > 0 => /\ Clean(cursor_move(s, x), c, d)
                                 /\ cursor_move(s, x).drawDepth = s.drawDepth
<1> DEFINE t == [s EXCEPT !.x = x]
<1>1. cursor_move(s, x) = cursor_show(t)
      BY HideNothing DEF cursor_move, Clean
<1>2. /\ t \in SceneType /\ t.drawDepth = s.drawDepth /\ t.frameDamage = s.frameDamage
      /\ t.pixels = s.pixels /\ t.image = s.image /\ t.drawn = s.drawn
      BY DEF Clean, SceneType
<1> HIDE DEF t
<1>3. Clean(t, c, d)
      BY <1>2 DEF Clean, ShowsBut
<1>q. QED
      BY <1>1, <1>2, <1>3, ShowFacts, ShowNothing, SMTT(30)

-----------------------------------------------------------------------------
LEMMA SceneInitInv == SceneInit => SceneInv
<1> SUFFICES ASSUME SceneInit PROVE SceneInv
    OBVIOUS
<1>1. PICK s \in Surface, c \in Color :
         /\ scene = [surface |-> s, pixels |-> [x \in Cell |-> c], image |-> [x \in Cell |-> c],
                     x |-> 0, drawn |-> NoCursor, drawDepth |-> 0, frameDamage |-> {}, changed |-> FALSE]
         /\ content = [x \in Cell |-> c]
      BY DEF SceneInit
<1> DEFINE p == [x \in Cell |-> c]
<1>2. p \in [Cell -> Shade] /\ content = p /\ content \in [Cell -> Color]
      BY <1>1 DEF Shade
<1> HIDE DEF p
<1>3. /\ scene \in SceneType /\ scene.pixels = p /\ scene.image = p /\ scene.x = 0
      /\ scene.drawn = NoCursor /\ scene.drawDepth = 0 /\ scene.frameDamage = {}
      BY <1>1, <1>2 DEF SceneType, p
<1>4. Stable(scene, content, paint.damage)
      BY <1>2, <1>3 DEF Stable, Clean, ShowsBut
<1>5. paint \in [open : BOOLEAN, clip : SUBSET Cell, damage : SUBSET Cell] /\ paint.damage = {}
      BY DEF SceneInit
<1>q. QED
      BY <1>2, <1>4, <1>5 DEF SceneInit, SceneInv

LEMMA MouseInv ==
    ASSUME SceneInv, NEW x \in Cell
    PROVE  /\ MouseMove(x) => SceneInv'
           /\ \A cells \in SUBSET Cell, color \in Color : Drag(x, cells, color) => SceneInv'
<1> DEFINE h == cursor_hide(scene)
<1>1. /\ content \in [Cell -> Color] /\ Clean(h, content, paint.damage)
      /\ h.drawDepth = 0 /\ h.frameDamage = {}
      BY HideFacts DEF SceneInv
<1>2. ASSUME MouseMove(x) PROVE SceneInv'
      <2>1. Stable(scene', content, paint.damage)
            BY <1>1, <1>2, MoveFacts DEF MouseMove
      <2>q. QED
            BY <1>2, <2>1 DEF MouseMove, SceneInv, Stable, Clean, Covered, Capable
<1>3. ASSUME NEW cells \in SUBSET Cell, NEW color \in Color, Drag(x, cells, color) PROVE SceneInv'
      <2> DEFINE e == expose(h, cells, color, cells)
                 p == Painted(content, cells, color)
      <2>1. content' = p /\ p \in [Cell -> Color] /\ cells \cup cells = cells
            BY <1>1, <1>3 DEF Drag, Repainted, Painted
      <2>2. Stable(e, Painted(content, cells \cup cells, color), (paint.damage \ cells) \ cells)
            BY <1>1, ExposeFacts
      <2> HIDE DEF e, p
      <2>3. Stable(e, p, paint.damage)
            BY <2>1, <2>2, StillStable DEF p
      <2> DEFINE k == cursor_hide(e)
      <2>4. Clean(k, p, paint.damage) /\ k.drawDepth = 0 /\ k.frameDamage = {}
            BY <2>1, <2>3, HideFacts
      <2>5. cursor_move(e, x) = cursor_move(k, x)
            BY <2>4, HideNothing DEF cursor_move, Clean
      <2> HIDE DEF k
      <2>6. Stable(cursor_move(k, x), p, paint.damage)
            BY <2>1, <2>4, MoveFacts
      <2>7. Stable(scene', p, paint.damage)
            BY <1>3, <2>5, <2>6 DEF Drag, e
      <2>q. QED
            BY <1>3, <2>1, <2>7 DEF Drag, SceneInv, Stable, Clean, Covered, Capable
<1>q. QED
      BY <1>2, <1>3

LEMMA ExposeInv ==
    ASSUME SceneInv, NEW cells \in SUBSET Cell, NEW frame \in SUBSET cells, NEW color \in Color,
           Expose(cells, color, frame)
    PROVE  SceneInv'
<1> DEFINE h == cursor_hide(scene)
           p == Painted(content, cells \cup frame, color)
<1>1. /\ content \in [Cell -> Color] /\ Clean(h, content, paint.damage) /\ h.drawDepth = 0
      BY HideFacts DEF SceneInv
<1>2. content' = p /\ p \in [Cell -> Color]
      BY <1>1 DEF Expose, Repainted, Painted
<1>3. expose(scene, cells, color, frame) = expose(h, cells, color, frame)
      BY <1>1, HideNothing DEF expose, begin_scene, Clean
<1>4. Stable(expose(h, cells, color, frame), p, (paint.damage \ cells) \ frame)
      BY <1>1, ExposeFacts
<1> HIDE DEF p, h
<1>5. Stable(scene', p, paint.damage)
      BY <1>3, <1>4, StillStable DEF Expose
<1>q. QED
      BY <1>2, <1>5 DEF Expose, SceneInv, Stable, Clean, Covered, Capable

LEMMA PaintInv ==
    ASSUME SceneInv
    PROVE  /\ \A cells \in SUBSET Cell, color \in Color : BeginPaint(cells, color) => SceneInv'
           /\ \A x \in Cell, color \in Color : DrawDC(x, color) => SceneInv'
           /\ EndPaint => SceneInv'
<1> DEFINE h == cursor_hide(scene)
<1>1. /\ content \in [Cell -> Color] /\ Clean(h, content, paint.damage)
      /\ h.drawDepth = 0 /\ h.frameDamage = {}
      BY HideFacts DEF SceneInv
<1>2. paint \in [open : BOOLEAN, clip : SUBSET Cell, damage : SUBSET Cell]
      BY DEF SceneInv
<1>3. ASSUME NEW cells \in SUBSET Cell, NEW color \in Color, BeginPaint(cells, color)
      PROVE  SceneInv'
      <2> DEFINE f == fill(h, cells, FALSE, color)
                 p == Painted(content, cells, color)
      <2>1. paint.damage = {} /\ content' = p /\ p \in [Cell -> Color]
            BY <1>1, <1>3 DEF BeginPaint, SceneInv, Repainted, Painted
      <2>2. /\ f \in SceneType /\ f.drawn = NoCursor /\ f.pixels = p
            /\ f.drawDepth = 0 /\ f.frameDamage = {}
            /\ IF Deferred(h, FALSE) THEN ShowsBut(f, paint.damage \cup cells)
                                     ELSE ShowsBut(f, paint.damage \ cells)
            <3> HIDE DEF h
            <3>1. /\ f \in SceneType /\ f.drawn = NoCursor /\ f.pixels = p
                  /\ f.drawDepth = h.drawDepth /\ f.frameDamage = h.frameDamage
                  /\ IF Deferred(h, FALSE) THEN ShowsBut(f, paint.damage \cup cells)
                                           ELSE ShowsBut(f, paint.damage \ cells)
                  BY <1>1, FillLarge
            <3>q. QED
                  BY <1>1, <3>1
      <2>3. /\ paint'.damage = IF Deferred(h, FALSE) THEN cells ELSE {}
            /\ paint' \in [open : BOOLEAN, clip : SUBSET Cell, damage : SUBSET Cell] /\ paint'.open
            BY <1>3 DEF BeginPaint
      <2>4. scene' = cursor_show(f)
            BY <1>3 DEF BeginPaint
      <2> HIDE DEF f, p, h
      <2>5. Clean(f, p, paint'.damage)
            BY <2>1, <2>2, <2>3 DEF Clean, ShowsBut
      <2>6. Stable(scene', p, paint'.damage)
            BY <2>1, <2>2, <2>4, <2>5, ShowFacts
      <2>q. QED
            BY <1>3, <2>1, <2>3, <2>6 DEF BeginPaint, SceneInv, Stable, Clean, Covered, Capable
<1>4. ASSUME NEW x \in Cell, NEW color \in Color, DrawDC(x, color) PROVE SceneInv'
      <2> DEFINE q == [h.pixels EXCEPT ![x] = color]
                 t == [h EXCEPT !.pixels = q]
                 p == Painted(content, {x}, color)
      <2>1. content' = p /\ p \in [Cell -> Color] /\ p \in [Cell -> Shade] /\ q = p
            BY <1>1, <1>4 DEF DrawDC, Repainted, Painted, Clean, Shade
      <2>2. scene' = cursor_show(t)
            BY <1>4 DEF DrawDC
      <2>3. /\ paint'.damage = paint.damage \cup {x} /\ paint'.open = paint.open
            /\ paint' \in [open : BOOLEAN, clip : SUBSET Cell, damage : SUBSET Cell]
            BY <1>2, <1>4 DEF DrawDC
      <2>4. \A y \in Cell : y # x => p[y] = content[y]
            BY DEF Painted
      <2> HIDE DEF h, q, p
      <2>5. /\ t \in SceneType /\ t.pixels = p /\ t.image = h.image /\ t.drawn = NoCursor
            /\ t.drawDepth = 0 /\ t.frameDamage = {}
            BY <1>1, <2>1 DEF Clean, SceneType
      <2> HIDE DEF t
      <2>6. Clean(t, p, paint'.damage)
            BY <1>1, <2>3, <2>4, <2>5 DEF Clean, ShowsBut
      <2>7. Stable(scene', p, paint'.damage)
            BY <2>1, <2>2, <2>5, <2>6, ShowFacts
      <2>8. paint.clip # {} => paint.open
            BY DEF SceneInv
      <2>q. QED
            BY <1>4, <2>1, <2>3, <2>7, <2>8 DEF DrawDC, SceneInv, Stable, Clean, Covered, Capable
<1>5. ASSUME EndPaint PROVE SceneInv'
      <2> DEFINE t == present(scene, paint.damage)
      <2>1. scene \in SceneType /\ scene.drawDepth = 0 /\ scene.frameDamage = {}
            BY DEF SceneInv, Stable, Clean, Covered
      <2>2. /\ t \in SceneType /\ t.pixels = scene.pixels /\ t.drawn = scene.drawn
            /\ t.drawDepth = 0 /\ t.frameDamage = {} /\ Same(t, scene)
            /\ \A y \in Cell : t.image[y] = IF y \in paint.damage THEN scene.pixels[y]
                                                                  ELSE scene.image[y]
            BY <2>1, PresentFacts, SMTT(30)
      <2>3. scene' = cursor_show(t)
            BY <1>5, <2>1 DEF EndPaint, present_locked, damage
      <2> HIDE DEF t
      <2>4. ShowsBut(t, {})
            BY <2>1, <2>2 DEF SceneInv, Stable, Clean, Covered, ShowsBut
      <2>5. /\ paint'.damage = {} /\ ~paint'.open
            /\ paint' \in [open : BOOLEAN, clip : SUBSET Cell, damage : SUBSET Cell]
            BY <1>5 DEF EndPaint
      <2>6. Stable(scene', content, {})
            <3>1. CASE scene.x # 0 /\ Capable
                  <4>1. Covered(scene, content, paint.damage) /\ scene.x \in Cell
                        BY <2>1, <3>1 DEF SceneInv, Stable, SceneType
                  <4>2. t.drawn # NoCursor
                        <5>1. t.drawn.at = scene.x
                              BY <2>2, <4>1, SMTT(30) DEF Covered
                        <5>q. QED
                              BY <4>1, <5>1, SceneAssumption DEF NoCursor
                  <4>3. scene' = t
                        BY <2>3, <4>2 DEF cursor_show, may_show
                  <4>4. scene.pixels[scene.x] = CursorShape
                        BY <1>1, <4>1 DEF Covered
                  <4>5. Covered(t, content, {})
                        BY <2>2, <2>4, <4>1, <4>4 DEF Covered, Same
                  <4>q. QED
                        BY <2>2, <3>1, <4>3, <4>5 DEF Stable, Same
            <3>2. CASE ~(scene.x # 0 /\ Capable)
                  <4>1. Clean(scene, content, paint.damage)
                        BY <3>2 DEF SceneInv, Stable
                  <4>2. Clean(t, content, {})
                        BY <2>2, <2>4, <4>1 DEF Clean
                  <4>q. QED
                        BY <1>1, <2>2, <2>3, <4>2, ShowFacts
            <3>q. QED
                  BY <3>1, <3>2
      <2>q. QED
            BY <1>5, <2>5, <2>6 DEF EndPaint, SceneInv, Stable, Clean, Covered, Capable
<1>q. QED
      BY <1>3, <1>4, <1>5

(* Another surface, and its announcement.                                  *)
LEMMA DisplayInv ==
    ASSUME SceneInv, NEW color \in Color
    PROVE  /\ \A surface \in Surface : CommitScenePath(surface, color) => SceneInv'
           /\ \A x \in Cell : DisplayChanged(x, color) => SceneInv'
<1> DEFINE b == begin_scene(scene)
           p == [y \in Cell |-> color]
<1>1. /\ content \in [Cell -> Color] /\ Clean(b, content, paint.damage)
      /\ b.drawDepth = 1 /\ b.frameDamage = {}
      <2> DEFINE h == cursor_hide(scene)
      <2>1. /\ content \in [Cell -> Color] /\ Clean(h, content, paint.damage)
            /\ h.drawDepth = 0 /\ h.frameDamage = {}
            BY HideFacts DEF SceneInv
      <2>2. b = begin_scene(h)
            BY <2>1, HideNothing DEF begin_scene, Clean
      <2> HIDE DEF h, b
      <2>3. Clean(b, content, paint.damage) /\ b.drawDepth = h.drawDepth + 1 /\ b.frameDamage = {}
            BY <2>1, <2>2, BeginFacts
      <2>q. QED
            BY <2>1, <2>3
<1>2. p \in [Cell -> Color] /\ p \in [Cell -> Shade]
      BY DEF Shade
<1> HIDE DEF b
<1>3. ASSUME NEW surface \in Surface, CommitScenePath(surface, color) PROVE SceneInv'
      <2> DEFINE t == [b EXCEPT !.surface = surface, !.changed = TRUE, !.pixels = p, !.image = p]
      <2>1. scene' = end_scene(t) /\ content' = p
            BY <1>3 DEF CommitScenePath, b
      <2> HIDE DEF p
      <2>2. /\ t \in SceneType /\ t.pixels = p /\ t.image = p /\ t.drawn = NoCursor
            /\ t.drawDepth = 1
            BY <1>1, <1>2 DEF Clean, SceneType
      <2> HIDE DEF t
      <2>3. Clean(t, p, paint.damage)
            BY <2>2 DEF Clean, ShowsBut
      <2>4. Stable(scene', p, paint.damage)
            BY <1>2, <2>1, <2>2, <2>3, EndOuter
      <2>q. QED
            BY <1>2, <1>3, <2>1, <2>4 DEF CommitScenePath, SceneInv, Stable, Clean, Covered, Capable
<1>4. ASSUME NEW x \in Cell, DisplayChanged(x, color) PROVE SceneInv'
      <2> DEFINE r == [b EXCEPT !.drawn = NoCursor]
                 m == cursor_move(r, x)
                 e == expose(m, Cell, color, {})
                 t == [e EXCEPT !.changed = FALSE]
      <2>1. scene' = end_scene(t) /\ content' = p
            BY <1>4 DEF DisplayChanged, cursor_reset, b
      <2>2. /\ paint'.damage = {} /\ paint'.open = paint.open /\ paint'.clip = paint.clip
            /\ paint' \in [open : BOOLEAN, clip : SUBSET Cell, damage : SUBSET Cell]
            BY <1>4 DEF DisplayChanged, SceneInv
      <2> HIDE DEF p
      <2>3. Clean(r, content, paint.damage) /\ r.drawDepth = 1
            <3>1. /\ r \in SceneType /\ r.pixels = b.pixels /\ r.image = b.image
                  /\ r.drawn = NoCursor /\ r.drawDepth = 1 /\ r.frameDamage = b.frameDamage
                  BY <1>1 DEF Clean, SceneType
            <3> HIDE DEF r
            <3>q. QED
                  BY <1>1, <3>1 DEF Clean, ShowsBut
      <2> HIDE DEF r
      <2>4. Clean(m, content, paint.damage) /\ m.drawDepth = 1
            <3>1. r.drawDepth > 0
                  BY <2>3
            <3>q. QED
                  BY <1>1, <2>3, <3>1, MoveFacts
      <2> HIDE DEF m
      <2>5. Clean(e, p, {}) /\ e.drawDepth = 1
            <3>1. /\ Clean(e, Painted(content, Cell \cup {}, color), (paint.damage \ Cell) \ {})
                  /\ e.drawDepth = 1
                  BY <1>1, <2>4, ExposeAll
            <3>2. Painted(content, Cell \cup {}, color) = p
                  BY DEF Painted, p
            <3>3. (paint.damage \ Cell) \ {} = {}
                  BY DEF SceneInv
            <3>q. QED
                  BY <3>1, <3>2, <3>3
      <2> HIDE DEF e
      <2>6. Clean(t, p, {}) /\ t.drawDepth = 1
            <3>1. /\ t \in SceneType /\ t.pixels = e.pixels /\ t.image = e.image
                  /\ t.drawn = e.drawn /\ t.drawDepth = 1 /\ t.frameDamage = e.frameDamage
                  BY <2>5 DEF Clean, SceneType
            <3> HIDE DEF t
            <3>q. QED
                  BY <2>5, <3>1 DEF Clean, ShowsBut
      <2> HIDE DEF t
      <2>7. Stable(scene', p, paint'.damage)
            BY <1>2, <2>1, <2>2, <2>6, EndOuter
      <2>q. QED
            BY <1>2, <1>4, <2>1, <2>2, <2>7
               DEF DisplayChanged, SceneInv, Stable, Clean, Covered, Capable
<1>q. QED
      BY <1>3, <1>4

LEMMA SceneNextInv == SceneInv /\ [SceneNext]_sceneVars => SceneInv'
<1> SUFFICES ASSUME SceneInv, [SceneNext]_sceneVars PROVE SceneInv'
    OBVIOUS
<1>1. CASE UNCHANGED sceneVars
      BY <1>1 DEF sceneVars, SceneInv, Stable, Clean, Covered, Capable
<1>2. CASE EndPaint
      BY <1>2, PaintInv
<1>q. QED
      BY <1>1, <1>2, MouseInv, ExposeInv, PaintInv, DisplayInv DEF SceneNext

(* At every instant the lock is free, the screen shows the scene that was  *)
(* painted, except for the pixels an open paint DC still has to present,   *)
(* with the cursor drawn where the mouse is, over what it will restore.    *)
THEOREM SceneIsShown == SceneSpec => []SceneShown
<1>1. SceneInv => SceneShown
      <2> SUFFICES ASSUME SceneInv PROVE SceneShown
          OBVIOUS
      <2>1. content \in [Cell -> Color] /\ Clean(cursor_hide(scene), content, paint.damage)
            BY HideFacts DEF SceneInv
      <2>2. CursorRestoresScene
            BY <2>1 DEF CursorRestoresScene, Clean
      <2>3. ImageShowsTheScene
            BY DEF SceneInv, Stable, Clean, Covered, ShowsBut, ImageShowsTheScene
      <2>4. CursorStaysVisible
            BY SMTT(30) DEF SceneInv, Stable, Covered, Capable, CursorStaysVisible
      <2>q. QED
            BY <2>2, <2>3, <2>4 DEF SceneShown
<1>q. QED
      BY SceneInitInv, SceneNextInv, <1>1, PTL DEF SceneSpec
=============================================================================
