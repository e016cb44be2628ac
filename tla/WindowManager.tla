--------------------------- MODULE WindowManager ----------------------------
(***************************************************************************)
(* The window table, the window tree, the z-order and the input owners of  *)
(* Kernel/Source/src/user/window.cpp, and what rawinput.cpp does to them.  *)
(* Every operation runs under g_lock, so each is one step.  Rectangles are *)
(* abstracted: a click may meet any visible window, and a placement that   *)
(* is out of range changes nothing.                                        *)
(***************************************************************************)
EXTENDS Integers, SequencesExt, FiniteSetsExt, Functions

CONSTANTS UserProcess, kMaxWindows,
          MaxCreated          \* bound: windows created in one run

VARIABLE user     \* windows by live hwnd, the generation of each slot, z-order
                  \* from the top, and the hwnd with capture, activation, focus

Slots == 1..kMaxWindows
hwndOf(slot, gen) == gen * (kMaxWindows + 1) + slot
slotOf(hwnd) == hwnd % (kMaxWindows + 1)

UserInit ==
    user = [windows |-> <<>>, generation |-> [s \in Slots |-> 0], z |-> <<>>,
            capture |-> 0, active |-> 0, focus |-> 0]

-----------------------------------------------------------------------------
(* lookup_locked: a handle is live while its slot holds its generation.    *)
lookup(u, hwnd) == hwnd \in DOMAIN u.windows

(* A window and its ancestors; 0, no parent, is never live.                *)
RECURSIVE Branch(_, _)
Branch(u, hwnd) ==
    IF ~lookup(u, hwnd) THEN {} ELSE {hwnd} \cup Branch(u, u.windows[hwnd].parent)

within(u, hwnd, top) == lookup(u, hwnd) /\ top \in Branch(u, hwnd)

effectively_visible(u, hwnd) ==
    /\ u.windows[hwnd].visible
    /\ \A a \in Branch(u, u.windows[hwnd].parent) :
          u.windows[a].visible /\ u.windows[a].state # "Minimized"

root(u, hwnd) == CHOOSE r \in Branch(u, hwnd) : ~lookup(u, u.windows[r].parent)

(* raise_subtree: the subtree goes, in its order, above its siblings or    *)
(* directly above its parent; a root's subtree goes to the top.            *)
raise_subtree(u, w) ==
    LET members == SelectSeq(u.z, LAMBDA x : within(u, x, w))
        rest    == SelectSeq(u.z, LAMBDA x : ~within(u, x, w))
        p       == u.windows[w].parent
        before  == IF lookup(u, p) THEN Min({k \in DOMAIN rest : within(u, rest[k], p)}) ELSE 1
    IN  [u EXCEPT !.z = SubSeq(rest, 1, before - 1) \o members \o SubSeq(rest, before, Len(rest))]

RECURSIVE raise_branch(_, _)
raise_branch(u, w) ==
    IF ~lookup(u, w) THEN u ELSE raise_subtree(raise_branch(u, u.windows[w].parent), w)

set_active_window(u, hwnd) ==
    IF hwnd = 0 THEN [u EXCEPT !.active = 0]
    ELSE IF ~lookup(u, hwnd) \/ ~effectively_visible(u, hwnd) THEN u
    ELSE [raise_branch(u, hwnd) EXCEPT !.active = root(u, hwnd)]

(* Faulty variant: focus moves without activation.                         *)
focus_only(u, hwnd) == [u EXCEPT !.focus = hwnd]
take_focus(u, hwnd) == set_active_window([u EXCEPT !.focus = hwnd], hwnd)

may_focus(u, hwnd) ==
    /\ lookup(u, hwnd) /\ effectively_visible(u, hwnd)
    /\ u.windows[hwnd].state = "Minimized" => u.windows[hwnd].parent # 0
set_focus(u, hwnd) ==
    IF hwnd = u.focus \/ (hwnd # 0 /\ ~may_focus(u, hwnd)) THEN u
    ELSE IF hwnd = 0 THEN [u EXCEPT !.focus = 0]
    ELSE take_focus(u, hwnd)

clear_input_for(u, w) ==
    LET a == IF within(u, u.capture, w) THEN [u EXCEPT !.capture = 0] ELSE u
        b == IF within(a, a.focus, w) THEN set_focus(a, 0) ELSE a
    IN  IF within(b, b.active, w) THEN set_active_window(b, 0) ELSE b

choose_active(u) ==
    LET fit == {k \in DOMAIN u.z : /\ effectively_visible(u, u.z[k])
                                   /\ u.windows[u.z[k]].state # "Minimized"}
    IN  IF u.active # 0 \/ fit = {} THEN u ELSE set_focus(u, u.z[Min(fit)])

-----------------------------------------------------------------------------
(* destroy_window_locked: children first, in table order.                  *)
RECURSIVE destroy_window_locked(_, _)
destroy_child(u, slot, parent) ==
    LET child == {h \in DOMAIN u.windows : slotOf(h) = slot /\ u.windows[h].parent = parent}
    IN  IF child = {} THEN u ELSE destroy_window_locked(u, CHOOSE h \in child : TRUE)

destroy_children(u, w) == FoldLeft(LAMBDA v, s : destroy_child(v, s, w), u, [s \in Slots |-> s])

(* Faulty variant: nothing is activated in place of the destroyed window.  *)
choose_none(u) == u
choose_next(u) == choose_active(u)

destroy_window_locked(u, w) ==
    LET a == [clear_input_for(u, w) EXCEPT !.windows[w].visible = FALSE]
        b == destroy_children(a, w)
    IN  choose_next([b EXCEPT !.z = SelectSeq(@, LAMBDA x : x # w),
                              !.windows = RestrictDomain(@, LAMBDA h : h # w)])

show_window_locked(u, w, show) ==
    IF show = u.windows[w].visible THEN u
    ELSE LET a == [u EXCEPT !.windows[w].visible = show]
         IN  IF show THEN a ELSE choose_active(clear_input_for(a, w))

drop_input(u, w) == clear_input_for(u, w)

(* show_command_locked, when the move it makes is in range.                *)
show_command_locked(u, w, next) ==
    IF u.windows[w].state = next THEN show_window_locked(u, w, TRUE)
    ELSE LET a == [u EXCEPT !.windows[w].state = next]
             b == IF next = "Minimized" THEN drop_input(a, w) ELSE a
             c == show_window_locked(b, w, TRUE)
         IN  IF next = "Minimized" THEN choose_active(c) ELSE set_focus(c, w)

-----------------------------------------------------------------------------
owned(p) == {h \in DOMAIN user.windows : user.windows[h].process = p}

create_window(p, parent, visible) ==
    \E s \in Slots :
       /\ \A h \in DOMAIN user.windows : slotOf(h) # s
       /\ \A t \in 1..s - 1 : \E h \in DOMAIN user.windows : slotOf(h) = t
       /\ FoldFunction(+, 0, user.generation) < MaxCreated
       /\ parent # 0 => parent \in owned(p)
       /\ LET h == hwndOf(s, user.generation[s] + 1)
              w == [parent |-> parent, process |-> p, visible |-> visible, state |-> "Restored"]
          IN  user' = raise_branch([user EXCEPT !.generation[s] = @ + 1, !.z = <<h>> \o @,
                                                !.windows = h :> w @@ @], h)

destroy_window(h) == user' = destroy_window_locked(user, h)

(* show_window commands, set_window_long's visible bit, and the caption    *)
(* buttons of a clicked frame.                                             *)
show_window(h) ==
    \/ \E show \in BOOLEAN : user' = show_window_locked(user, h, show)
    \/ \E next \in {"Restored", "Minimized", "Maximized"} : user' = show_command_locked(user, h, next)

set_capture(h) ==
    /\ effectively_visible(user, h) /\ user.windows[h].state # "Minimized"
    /\ user' = [user EXCEPT !.capture = h]
release_capture == lookup(user, user.capture) /\ user' = [user EXCEPT !.capture = 0]

clear_focus == user' = set_focus(user, 0)

(* A click: the captured window gets it; else the target is focused, a     *)
(* minimized root restored; the desktop takes focus and activation away.   *)
mouse_down(h) ==
    /\ ~lookup(user, user.capture) /\ effectively_visible(user, h)
    /\ user' = IF user.windows[h].state = "Minimized" /\ user.windows[h].parent = 0
               THEN show_command_locked(user, h, "Restored") ELSE set_focus(user, h)
mouse_down_desktop ==
    /\ ~lookup(user, user.capture) /\ user' = set_active_window(set_focus(user, 0), 0)

(* cycle_window_locked: the next window in slot order, around the end.     *)
cycle_window(children, reverse) ==
    LET fit  == {h \in DOMAIN user.windows :
                   /\ effectively_visible(user, h)
                   /\ user.windows[h].state = "Minimized" => children
                   /\ user.windows[h].parent = IF children THEN user.active ELSE 0}
        list == SetToSortSeq(fit, LAMBDA a, b : slotOf(a) < slotOf(b))
        now  == IF children THEN user.focus ELSE user.active
        n    == Len(list)
        at   == IF now \in fit
                THEN (CHOOSE k \in 1..n : list[k] = now) - 1 + (IF reverse THEN n - 1 ELSE 1)
                ELSE IF reverse THEN n - 1 ELSE 0
    IN  /\ fit # {} /\ (children => user.active # 0)
        /\ user' = set_focus(user, list[(at % n) + 1])

on_process_exit(p) ==
    /\ owned(p) # {}
    /\ user' = FoldLeft(LAMBDA v, s :
                   LET mine == {h \in DOMAIN v.windows : slotOf(h) = s /\ v.windows[h].process = p}
                   IN  IF mine = {} THEN v ELSE destroy_window_locked(v, CHOOSE h \in mine : TRUE),
                 user, [s \in Slots |-> s])

display_input_changed == user' = [user EXCEPT !.capture = 0]

UserNext ==
    \/ \E p \in UserProcess :
         \/ \E parent \in {0} \cup owned(p), visible \in BOOLEAN : create_window(p, parent, visible)
         \/ on_process_exit(p)
    \/ \E h \in DOMAIN user.windows :
         destroy_window(h) \/ show_window(h) \/ set_capture(h) \/ mouse_down(h)
    \/ release_capture \/ clear_focus \/ mouse_down_desktop \/ display_input_changed
    \/ \E children, reverse \in BOOLEAN : cycle_window(children, reverse)

UserSpec == UserInit /\ [][UserNext]_user

-----------------------------------------------------------------------------
UserTypeOK ==
    /\ DOMAIN user.windows \subseteq {hwndOf(s, user.generation[s]) : s \in Slots}
    /\ \A h \in DOMAIN user.windows : user.windows[h] \in
          [parent : Nat, process : UserProcess, visible : BOOLEAN,
           state : {"Restored", "Minimized", "Maximized"}]
    /\ user.generation \in [Slots -> 0..MaxCreated]
    /\ {user.capture, user.active, user.focus} \subseteq DOMAIN user.windows \cup {0}

(* "Each subtree is contiguous, children ahead of their parent": the       *)
(* z-order lists every window once, and a window's subtree is the run that *)
(* ends with it.                                                           *)
SubtreesContiguous ==
    /\ Len(user.z) = Cardinality(DOMAIN user.windows) /\ ToSet(user.z) = DOMAIN user.windows
    /\ \A k \in DOMAIN user.z :
          LET n == Cardinality({h \in DOMAIN user.windows : within(user, h, user.z[k])})
          IN  \A j \in DOMAIN user.z : within(user, user.z[j], user.z[k]) <=> j \in k - n + 1..k

(* "no surviving handle may name a dead parent".                           *)
ParentsAlive ==
    \A h \in DOMAIN user.windows : user.windows[h].parent \in DOMAIN user.windows \cup {0}

(* Whoever owns the keyboard or the mouse is on the screen: no hidden,     *)
(* minimized or destroyed window keeps capture or activation, nor focus.   *)
InputOwnersVisible ==
    /\ \A h \in {user.capture, user.active, user.focus} \ {0} : effectively_visible(user, h)
    /\ \A h \in {user.capture, user.active} \ {0} : user.windows[h].state # "Minimized"

(* The active window is a root, and the focused window is in its subtree.  *)
FocusWithinActive ==
    /\ user.active # 0 => user.windows[user.active].parent = 0
    /\ user.focus # 0 => root(user, user.focus) = user.active

(* A visible desktop is not left without an active window when the active  *)
(* one goes away by itself: some window is focused unless none can be.     *)
SuccessorChosen ==
    (\E h \in DOMAIN user.windows : h = user.active /\ ~lookup(user', h))
         => (user'.active # 0 \/ \A h \in DOMAIN user'.windows :
                ~effectively_visible(user', h) \/ user'.windows[h].state = "Minimized")

-----------------------------------------------------------------------------
(***************************************************************************)
(* Menus of the window manager (Kernel/Source/src/user/menu.cpp): the      *)
(* table of menus and submenus, menu bars attached to windows, and the     *)
(* open popup with the stack of popups below it.  Every operation holds    *)
(* the window manager's lock; positions are abstracted to what was hit.    *)
(***************************************************************************)
CONSTANTS MenuProcess, MenuWindow, WindowOwner, WindowParent, kMaxMenus, kMaxMenuItems,
          MaxEntries   \* bound: entries of all menus together

VARIABLES
    g_menus,    \* slot -> owner, popup, parent menu, entries
    barOf,      \* window -> attached menu, 0 for none, Dead
    g_openMenu, \* the popups from the bar outwards: g_menuStack, then g_openMenu
    g_menuMouseCapture

menuVars == <<g_menus, barOf, g_openMenu, g_menuMouseCapture>>

Dead == -1
Slot == 1..kMaxMenus
FreeMenu == [owner |-> "none", popup |-> FALSE, parent |-> 0, entries |-> <<>>]
used(menus, m) == m \in Slot /\ menus[m].owner # "none"

MenuInit ==
    /\ g_menus = [m \in Slot |-> FreeMenu] /\ barOf = [w \in MenuWindow |-> 0]
    /\ g_openMenu = <<>> /\ g_menuMouseCapture = FALSE

-----------------------------------------------------------------------------
Submenus(menus, m) == {e.item : e \in {x \in ToSet(menus[m].entries) : x.popup}}
RECURSIVE menu_contains(_, _, _)
menu_contains(menus, menu, target) ==
    \/ menu = target
    \/ used(menus, menu) /\ \E m \in Submenus(menus, menu) : menu_contains(menus, m, target)

RECURSIVE WithinWindow(_, _)
WithinWindow(w, ancestor) ==
    w = ancestor \/ (WindowParent[w] # "none" /\ WithinWindow(WindowParent[w], ancestor))

first_enabled_item(m) == SelectInSeq(g_menus[m].entries, LAMBDA e : e.enabled)

(* open_popup_locked: on top of its parent's popup, else instead of all.   *)
Opened(open, w, m, parentMenu, index) ==
    LET popup == [window |-> w, menu |-> m, parentMenu |-> parentMenu, parentIndex |-> index,
                  selected |-> first_enabled_item(m)]
    IN  IF ~used(g_menus, m) \/ ~g_menus[m].popup \/ g_menus[m].owner # WindowOwner[w] THEN open
        ELSE IF open # <<>> /\ Last(open).menu = parentMenu /\ Len(open) <= kMaxMenus
        THEN Append(open, popup) ELSE <<popup>>

Select(open, index) ==
    LET p == Last(open)  e == g_menus[p.menu].entries[index]
    IN  IF e.popup THEN Opened(open, p.window, e.item, p.menu, index)
        ELSE IF e.enabled THEN <<>> ELSE open

close_menu_for_window(open, w) ==
    IF open # <<>> /\ WithinWindow(Last(open).window, w) THEN <<>> ELSE open

-----------------------------------------------------------------------------
create_menu(p, popup) ==
    LET free == {m \in Slot : ~used(g_menus, m)}
    IN  /\ free # {}
        /\ g_menus' = [g_menus EXCEPT ![CHOOSE m \in free : \A n \in free : m <= n] =
                          [FreeMenu EXCEPT !.owner = p, !.popup = popup]]
        /\ UNCHANGED <<barOf, g_openMenu, g_menuMouseCapture>>

MayNest(m, item) ==
    g_menus[item].popup /\ g_menus[item].parent = 0 /\ ~menu_contains(g_menus, item, m)

MayAppend(p, m) ==
    /\ g_menus[m].owner = p /\ Len(g_menus[m].entries) < kMaxMenuItems
    /\ MapThenSumSet(LAMBDA n : Len(g_menus[n].entries), Slot) < MaxEntries
append_menu(p, m, enabled) ==
    /\ MayAppend(p, m)
    /\ g_menus' = [g_menus EXCEPT ![m].entries =
                      Append(@, [popup |-> FALSE, item |-> 0, enabled |-> enabled])]
    /\ UNCHANGED <<barOf, g_openMenu, g_menuMouseCapture>>
append_submenu(p, m, item, enabled) ==
    /\ MayAppend(p, m)
    /\ g_menus[item].owner = p /\ MayNest(m, item)
    /\ g_menus' = [g_menus EXCEPT ![item].parent = m,
                      ![m].entries = Append(@, [popup |-> TRUE, item |-> item, enabled |-> enabled])]
    /\ UNCHANGED <<barOf, g_openMenu, g_menuMouseCapture>>

(* destroy_menu_locked: close what the menu is part of, take it off its    *)
(* windows, free it, then its submenus.                                    *)
ClosesOpen(menus, open, m) ==
    open # <<>> /\ (menu_contains(menus, m, Last(open).menu) \/ menu_contains(menus, Last(open).menu, m))
Detach(s, m) ==
    LET on == {w \in MenuWindow : s.bar[w] = m}
    IN  [s EXCEPT !.bar = [w \in MenuWindow |-> IF w \in on THEN 0 ELSE @[w]],
                  !.open = FoldSet(LAMBDA w, open : close_menu_for_window(open, w), @, on)]
RECURSIVE destroy_menu_locked(_, _)
destroy_menu_locked(s, m) ==
    IF ~used(s.menus, m) THEN s
    ELSE LET closed == [s EXCEPT !.open = IF ClosesOpen(s.menus, @, m) THEN <<>> ELSE @]
             freed  == [Detach(closed, m) EXCEPT !.menus[m] = FreeMenu]
         IN  FoldSet(LAMBDA c, t : destroy_menu_locked(t, c), freed, Submenus(s.menus, m))

Becomes(s) ==
    g_menus' = s.menus /\ barOf' = s.bar /\ g_openMenu' = s.open /\ UNCHANGED g_menuMouseCapture
MenuState == [menus |-> g_menus, bar |-> barOf, open |-> g_openMenu]

MayDestroy(p, m) == g_menus[m].owner = p /\ g_menus[m].parent = 0
destroy_menu(p, m) == MayDestroy(p, m) /\ Becomes(destroy_menu_locked(MenuState, m))

set_menu(w, m) ==
    /\ barOf[w] \notin {Dead, m}
    /\ m # 0 => g_menus[m].owner = WindowOwner[w] /\ ~g_menus[m].popup
    /\ Becomes([MenuState EXCEPT !.bar[w] = m, !.open = close_menu_for_window(@, w)])

destroy_window_menus(s, w) ==
    LET gone == {v \in MenuWindow : WithinWindow(v, w)}
    IN  [s EXCEPT !.bar = [v \in MenuWindow |-> IF v \in gone THEN Dead ELSE @[v]],
                  !.open = close_menu_for_window(@, w)]
DestroyWindow(w) == barOf[w] # Dead /\ Becomes(destroy_window_menus(MenuState, w))
CreateWindow(w) ==
    /\ barOf[w] = Dead /\ \A v \in MenuWindow : v = WindowParent[w] => barOf[v] # Dead
    /\ Becomes([MenuState EXCEPT !.bar[w] = 0])

(* on_process_exit: the process's menus in slot order, then its windows.   *)
MenuProcessExit(p) ==
    LET Owned(m) == g_menus[m].owner = p
        s == FoldLeftDomain(LAMBDA t, m : IF Owned(m) THEN destroy_menu_locked(t, m) ELSE t,
                            MenuState, g_menus)
    IN  Becomes(FoldSet(LAMBDA w, t : destroy_window_menus(t, w), s, {w \in MenuWindow : WindowOwner[w] = p}))

-----------------------------------------------------------------------------
SetSelected(open, index) == [open EXCEPT ![Len(open)].selected = index]
Entries == g_menus[Last(g_openMenu).menu].entries

(* menu_mouse_locked: a release after a captured press is swallowed; a hit *)
(* on a popup makes it the outermost; else a bar; else a press closes all. *)
MouseRelease ==
    /\ g_menuMouseCapture /\ g_menuMouseCapture' = FALSE /\ UNCHANGED <<g_menus, barOf, g_openMenu>>
MousePopup(level, row, down) ==
    LET open  == SubSeq(g_openMenu, 1, level)
        ents  == g_menus[Last(open).menu].entries
        valid == row \in DOMAIN ents /\ ents[row].enabled
        over  == SetSelected(open, IF valid THEN row ELSE 0)
    IN  /\ ~g_menuMouseCapture \/ down
        /\ g_openMenu' = IF down /\ valid THEN Select(over, row) ELSE over
        /\ g_menuMouseCapture' = (g_menuMouseCapture \/ down)
        /\ UNCHANGED <<g_menus, barOf>>
MouseBar(w, index, down) ==
    LET e == g_menus[barOf[w]].entries[index]
        again == g_openMenu # <<>> /\ Last(g_openMenu).menu = e.item
    IN  /\ ~g_menuMouseCapture \/ down
        /\ g_menuMouseCapture' = (g_menuMouseCapture \/ down)
        /\ g_openMenu' =
             IF ~e.enabled THEN g_openMenu
             ELSE IF ~e.popup THEN IF down THEN <<>> ELSE g_openMenu
             ELSE IF again THEN IF down /\ Last(g_openMenu).parentMenu = barOf[w] THEN <<>>
                                ELSE IF down THEN Opened(g_openMenu, w, e.item, barOf[w], index)
                                ELSE g_openMenu
             ELSE IF down \/ g_openMenu # <<>> THEN Opened(g_openMenu, w, e.item, barOf[w], index)
             ELSE g_openMenu
        /\ UNCHANGED <<g_menus, barOf>>
MouseElsewhere ==
    g_openMenu # <<>> /\ g_openMenu' = <<>> /\ UNCHANGED <<g_menus, barOf, g_menuMouseCapture>>

(* menu_key_locked.                                                        *)
KeyOnly(open) == g_openMenu' = open /\ UNCHANGED <<g_menus, barOf, g_menuMouseCapture>>
OpensAt(w, index) == LET e == g_menus[barOf[w]].entries[index]
                     IN  Opened(g_openMenu, w, e.item, barOf[w], index)
Openable(m) == {i \in DOMAIN g_menus[m].entries : g_menus[m].entries[i].popup /\ g_menus[m].entries[i].enabled}
KeyMenu(w) ==
    /\ g_openMenu = <<>> /\ barOf[w] \in Slot
    /\ \E i \in Openable(barOf[w]) : (\A j \in Openable(barOf[w]) : i <= j) /\ KeyOnly(OpensAt(w, i))
KeyEscape == g_openMenu # <<>> /\ KeyOnly(Front(g_openMenu))
(* The nearest enabled entry in a direction, cyclically; with nothing      *)
(* selected, up starts one before the last.                                *)
Steps(n, from, direction) == [k \in 1..n |-> ((from - 1 + k * direction + 2 * n) % n) + 1]
KeyArrow(direction) ==
    LET n == Len(Entries)  at == Steps(n, Last(g_openMenu).selected, direction)
        hits == {k \in 1..n : Entries[at[k]].enabled}
    IN  /\ g_openMenu # <<>> /\ n > 0
        /\ \E k \in hits : (\A j \in hits : k <= j) /\ KeyOnly(SetSelected(g_openMenu, at[k]))
KeyEnter ==
    /\ g_openMenu # <<>> /\ Last(g_openMenu).selected # 0
    /\ KeyOnly(Select(g_openMenu, Last(g_openMenu).selected))
SwitchTopLevel(direction) ==
    LET p == Last(g_openMenu)  n == Len(g_menus[p.parentMenu].entries)
        at == Steps(n, p.parentIndex, direction)
        hits == {k \in 1..n : at[k] \in Openable(p.parentMenu)}
    IN  /\ Len(g_openMenu) = 1
        /\ \E k \in hits : (\A j \in hits : k <= j) /\ KeyOnly(OpensAt(p.window, at[k]))
KeyRight ==
    /\ g_openMenu # <<>>
    /\ LET sel == Last(g_openMenu).selected
       IN  IF sel # 0 /\ Entries[sel].popup THEN KeyOnly(Select(g_openMenu, sel)) ELSE SwitchTopLevel(1)
KeyLeft == IF Len(g_openMenu) > 1 THEN KeyOnly(Front(g_openMenu)) ELSE SwitchTopLevel(-1)

MenuNext ==
    \/ \E p \in MenuProcess :
         \/ MenuProcessExit(p)
         \/ \E popup \in BOOLEAN : create_menu(p, popup)
         \/ \E m \in Slot : \/ destroy_menu(p, m)
                            \/ \E b \in BOOLEAN : \/ append_menu(p, m, b)
                                                  \/ \E n \in Slot : append_submenu(p, m, n, b)
    \/ \E w \in MenuWindow : \/ DestroyWindow(w) \/ CreateWindow(w) \/ KeyMenu(w)
                             \/ \E m \in Slot \cup {0} : set_menu(w, m)
                             \/ /\ barOf[w] \in Slot
                                /\ \E i \in DOMAIN g_menus[barOf[w]].entries, down \in BOOLEAN :
                                     MouseBar(w, i, down)
    \/ \E level \in DOMAIN g_openMenu, row \in 0..kMaxMenuItems, down \in BOOLEAN :
         MousePopup(level, row, down)
    \/ MouseRelease \/ MouseElsewhere \/ KeyEscape \/ KeyEnter \/ KeyRight \/ KeyLeft
    \/ KeyArrow(1) \/ KeyArrow(-1)

MenuSpec == MenuInit /\ [][MenuNext]_menuVars

-----------------------------------------------------------------------------
(* Submenus form a forest: a popup entry names a live menu of the same     *)
(* process that has the entry's menu as its parent, a menu has one parent, *)
(* and no menu is below itself, so every walk over submenus ends.          *)
SubmenuForest ==
    \A m \in Slot : used(g_menus, m) =>
        /\ \A n \in Submenus(g_menus, m) :
             /\ used(g_menus, n) /\ g_menus[n].parent = m /\ g_menus[n].owner = g_menus[m].owner
             /\ g_menus[n].popup /\ ~menu_contains(g_menus, n, m)
        /\ g_menus[m].parent # 0 => used(g_menus, g_menus[m].parent) /\ m \in Submenus(g_menus, g_menus[m].parent)

(* What is open is alive: each popup is a live popup menu of its window's  *)
(* process, opened from an entry of the popup below it, the first from the *)
(* bar its window still has, and its selection is an enabled entry.        *)
OpenMenusAlive ==
    \A k \in DOMAIN g_openMenu :
        LET p == g_openMenu[k]
        IN  /\ used(g_menus, p.menu) /\ g_menus[p.menu].popup
            /\ barOf[p.window] # Dead /\ g_menus[p.menu].owner = WindowOwner[p.window]
            /\ p.parentMenu = IF k = 1 THEN barOf[p.window] ELSE g_openMenu[k - 1].menu
            /\ g_menus[p.parentMenu].entries[p.parentIndex].item = p.menu
            /\ p.selected # 0 => g_menus[p.menu].entries[p.selected].enabled

(* An attached bar is a live menu of the window's process and no popup.    *)
BarsAlive ==
    \A w \in MenuWindow : barOf[w] \in Slot =>
        g_menus[barOf[w]].owner = WindowOwner[w] /\ ~g_menus[barOf[w]].popup

(* The window tree and the menus name only live objects, and input goes to *)
(* a visible window.                                                       *)
WindowsSound ==
    /\ UserTypeOK /\ SubtreesContiguous /\ ParentsAlive /\ InputOwnersVisible
    /\ FocusWithinActive /\ SubmenuForest /\ OpenMenusAlive /\ BarsAlive
=============================================================================
