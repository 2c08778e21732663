---------------------------- MODULE UiFramework ----------------------------
(* The widget framework of ui/ui_framework.c: screens list the handles of their
   widgets, destroying a widget frees its slot and leaves the handle in the list,
   and a slot is given to the next widget of any screen. Touches press and release
   the first widget they hit; a render clears the background and draws the dirty
   widgets. Everything runs on one thread; a widget's callback is the last thing a
   touch does. Where a widget lies is one of a few places. *)
EXTENDS Integers, FiniteSets, Sequences, SequencesExt, FiniteSetsExt

CONSTANTS MaxWidgets,  \* UI_MAX_WIDGETS, of the table and of a screen's list
          MaxScreens,  \* UI_MAX_SCREENS
          Places       \* where widgets and touches can be

VARIABLES widgets,  \* the widget table
          screens,  \* per screen: in_use and its list of handles
          current,  \* current_screen, or -1
          sent      \* per widget: the last event its callback was given

vars == <<widgets, screens, current, sent>>

WidgetSlots == 0 .. MaxWidgets - 1
ScreenSlots == 0 .. MaxScreens - 1
NoWidget == [used |-> FALSE, screen |-> 0, place |-> Min(Places), visible |-> TRUE,
             enabled |-> TRUE, dirty |-> TRUE, pressed |-> FALSE]

(* get_widget, get_screen *)
Widget(w) == widgets[w].used
Screen(s) == s \in ScreenSlots /\ screens[s].used
List(s) == screens[s].list
Current == IF Screen(current) THEN List(current) ELSE <<>>

CreateScreen ==
    LET free == {s \in ScreenSlots : ~screens[s].used} IN
    /\ free # {}
    /\ screens' = [screens EXCEPT ![Min(free)] = [used |-> TRUE, list |-> <<>>]]
    /\ UNCHANGED <<widgets, current, sent>>

(* in_use is cleared; what else a free slot holds is never looked at. *)
(* ui_destroy_screen destroys whatever widgets its list names, now in use for
   this screen or for another. *)
Without(s) == [w \in WidgetSlots |-> IF Contains(List(s), w)
                                     THEN NoWidget
                                     ELSE widgets[w]]
DestroyScreen(s) ==
    /\ Screen(s)
    /\ widgets' = Without(s)
    /\ screens' = [screens EXCEPT ![s].used = FALSE]
    /\ current' = IF current = s THEN -1 ELSE current
    /\ UNCHANGED sent

SetScreen(s) ==
    /\ Screen(s)
    /\ current' = s
    /\ widgets' = [w \in WidgetSlots |-> IF Contains(List(s), w) /\ Widget(w)
                                         THEN [widgets[w] EXCEPT !.dirty = TRUE]
                                         ELSE widgets[w]]
    /\ UNCHANGED <<screens, sent>>

(* create_widget: a label, button, progress bar or image *)
CreateWidget(s, p) ==
    LET free == {w \in WidgetSlots : ~Widget(w)}  w == Min(free) IN
    /\ Screen(s) /\ Len(List(s)) < MaxWidgets /\ free # {}
    /\ widgets' = [widgets EXCEPT ![w] = [NoWidget EXCEPT !.used = TRUE, !.screen = s, !.place = p]]
    /\ screens' = [screens EXCEPT ![s].list = Append(@, w)]
    /\ sent' = [sent EXCEPT ![w] = "none"]
    /\ UNCHANGED current

DestroyWidget(w) ==
    /\ Widget(w)
    /\ widgets' = [widgets EXCEPT ![w] = NoWidget]
    /\ UNCHANGED <<screens, current, sent>>

(* ui_set_text, ui_set_value, ui_set_style, ui_invalidate; and what sets a widget
   to what it is already *)
Change(w) ==
    /\ Widget(w)
    /\ widgets' = [widgets EXCEPT ![w].dirty = TRUE]
    /\ UNCHANGED <<screens, current, sent>>

SetVisible(w, on) ==
    /\ Widget(w) /\ widgets[w].visible # on
    /\ widgets' = [widgets EXCEPT ![w].visible = on, ![w].dirty = TRUE]
    /\ UNCHANGED <<screens, current, sent>>

SetEnabled(w, on) ==
    /\ Widget(w) /\ widgets[w].enabled # on
    /\ widgets' = [widgets EXCEPT ![w].enabled = on, ![w].dirty = TRUE]
    /\ UNCHANGED <<screens, current, sent>>

Move(w, p) ==
    /\ Widget(w)
    /\ widgets' = [widgets EXCEPT ![w].place = p, ![w].dirty = TRUE]
    /\ UNCHANGED <<screens, current, sent>>

(* ui_process_touch: the first widget of the current screen's list that is hit and
   changes between pressed and released *)
ChangesBug(w, pressed) == TRUE  \* mutation: every touch is a change
Changes(w, pressed) == widgets[w].pressed # pressed
Hit(i, p, pressed) ==
    LET w == Current[i] IN
    /\ Widget(w) /\ widgets[w].visible /\ widgets[w].enabled
    /\ widgets[w].place = p /\ Changes(w, pressed)

(* The event the callback gets; "again" when it does not follow the last one. *)
Event(w, pressed) == IF pressed = (sent[w] = "pressed") THEN "again"
                     ELSE IF pressed THEN "pressed" ELSE "released"

Touch(p, pressed) ==
    LET hits == {i \in 1 .. Len(Current) : Hit(i, p, pressed)}  w == Current[Min(hits)] IN
    /\ hits # {}
    /\ widgets' = [widgets EXCEPT ![w].pressed = pressed, ![w].dirty = TRUE]
    /\ sent' = [sent EXCEPT ![w] = Event(w, pressed)]
    /\ UNCHANGED <<screens, current>>

(* ui_render clears the background, and render_widget passes over the widgets
   that are not dirty. *)
Rendered == {w \in ToSet(Current) : Widget(w) /\ widgets[w].visible /\ widgets[w].dirty}
Render ==
    /\ Screen(current)
    /\ widgets' = [w \in WidgetSlots |-> IF w \in Rendered
                                         THEN [widgets[w] EXCEPT !.dirty = FALSE]
                                         ELSE widgets[w]]
    /\ UNCHANGED <<screens, current, sent>>

Init ==
    /\ widgets = [w \in WidgetSlots |-> NoWidget]
    /\ screens = [s \in ScreenSlots |-> [used |-> FALSE, list |-> <<>>]]
    /\ current = -1 /\ sent = [w \in WidgetSlots |-> "none"]

Next ==
    \/ CreateScreen \/ Render
    \/ \E s \in ScreenSlots : DestroyScreen(s) \/ SetScreen(s)
    \/ \E s \in ScreenSlots, p \in Places : CreateWidget(s, p)
    \/ \E w \in WidgetSlots : DestroyWidget(w) \/ Change(w) \/ \E p \in Places : Move(w, p)
    \/ \E w \in WidgetSlots, on \in BOOLEAN : SetVisible(w, on) \/ SetEnabled(w, on)
    \/ \E p \in Places, pressed \in BOOLEAN : Touch(p, pressed)

Spec == Init /\ [][Next]_vars

TypeOK ==
    /\ \A w \in WidgetSlots : widgets[w].screen \in ScreenSlots /\ widgets[w].place \in Places
    /\ \A s \in ScreenSlots : List(s) \in Seq(WidgetSlots)
    /\ current \in ScreenSlots \union {-1}

(* A widget in use belongs to a screen in use, which lists it: destroying the
   screen reaches it, and no slot of the table is lost, through all reuse of
   widget and screen slots. *)
WidgetsAreListed ==
    \A w \in WidgetSlots : Widget(w) =>
        Screen(widgets[w].screen) /\ Contains(List(widgets[w].screen), w)

(* The current screen exists. *)
CurrentExists == current = -1 \/ Screen(current)

(* A widget's callback sees a press before a release and never two presses or two
   releases in a row, also after its slot or its screen was reused. *)
EventsAlternate == \A w \in WidgetSlots : sent[w] # "again"

(* The widget framework as a whole. *)
UiSound == WidgetsAreListed /\ CurrentExists /\ EventsAlternate
=============================================================================
