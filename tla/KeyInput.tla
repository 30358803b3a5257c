------------------------------ MODULE KeyInput ------------------------------
(***************************************************************************)
(* From keys to actions: the handler of crates/atm/src/keybinding.rs and   *)
(* the modes of the event loop (bin/atm/tui.rs) that take keys before it.  *)
(*                                                                         *)
(* The handler reads `[count] motion`, `[count] g motion`, two-key chords  *)
(* after d, o and z, and single actions.  Nothing times out: a half-typed  *)
(* chord waits for the next key, however late it comes.  The help popup,   *)
(* the search prompt and Esc with an active filter take the key first.     *)
(***************************************************************************)
EXTENDS Naturals, Sequences

CONSTANTS
  MaxCount,  \* MAX_COUNT of keybinding.rs, small here
  MaxWord    \* bound on the keys of an unfinished word

Plain(c) == [code |-> c, ctrl |-> FALSE]
Ctrl(c)  == [code |-> c, ctrl |-> TRUE]

Keys == {Plain(d) : d \in {"0", "1", "3"}}
        \cup {Plain(c) : c \in {"g", "G", "d", "o", "z", "j", "k", "h", "l", "x", "I", "n", "N", "c",
                                "a", "M", "r", "R", "q", "/", "?", "Esc", "Enter", "Backspace"}}
        \cup {Ctrl(c) : c \in {"c", "d", "u", "h"}}

VARIABLES
  state,      \* [at, n]: the handler's state; n = 0 is "no count"
  help,       \* show_help
  searching,  \* search_active
  filtered,   \* filter_matches is some
  act,        \* the action the last key made, "none" included
  word,       \* keys of the unfinished word, kept for the properties
  said,       \* the keys that made `act`
  done

vars == <<state, help, searching, filtered, act, word, said, done>>

Ready == [at |-> "ready", n |-> 0]
At(s, n) == [at |-> s, n |-> n]
Act(name) == [name |-> name, n |-> 0]
NoAct == Act("none")

--------------------------------------------------------------------------
(* VimKeyResolver: what a key means outside any chord *)

DigitOf(key) == CASE key.code = "0" -> 0 [] key.code = "1" -> 1 [] OTHER -> 3
IsDigit(key) == ~ key.ctrl /\ key.code \in {"0", "1", "3"}

Motion(key) ==
  CASE key = Ctrl("d")  -> "half_page_down"
    [] key = Ctrl("u")  -> "half_page_up"
    [] key = Plain("j") -> "down"
    [] key = Plain("k") -> "up"
    [] key = Plain("G") -> "bottom"
    [] OTHER -> "none"

Simple(key) ==
  CASE key \in {Ctrl("c"), Plain("Esc"), Plain("q")} -> "quit"
    [] key \in {Plain("h"), Plain("l")} -> "expand"
    [] key = Plain("n") -> "next_attention"
    [] key = Plain("N") -> "prev_attention"
    [] key = Plain("x") -> "kill"
    [] key = Plain("I") -> "interrupt"
    [] key \in {Plain("r"), Plain("R")} -> "refresh"
    [] key = Plain("?") -> "help"
    [] key = Plain("/") -> "search"
    [] key = Plain("Enter") -> "jump"
    [] OTHER -> "none"

Prefixes == {"g", "d", "o", "z"}
IsPrefixKey(key) == ~ key.ctrl /\ key.code \in Prefixes

--------------------------------------------------------------------------
(* InputHandler: one transition, as [state, act] *)

To(s) == [state |-> s, act |-> NoAct]
Emit(a) == [state |-> Ready, act |-> a]

Capped(n) == IF n > MaxCount THEN MaxCount ELSE n

\* motion_with_count: an explicit count of one before G is a bare G.
Moved(n, motion) ==
  CASE motion = "bottom" /\ n = 1 -> Act("last_row")
    [] motion = "bottom" /\ n # 1 -> [name |-> "row", n |-> n - 1]
    [] OTHER -> [name |-> motion, n |-> n]

\* Faulty: a digit after a count starts a new one.
StepCountForgets(n, key) ==
  CASE IsDigit(key) -> To(At("count", DigitOf(key)))
    [] IsPrefixKey(key) -> To(At(key.code, IF key.code = "g" THEN n ELSE 0))
    [] Motion(key) # "none" -> Emit(Moved(n, Motion(key)))
    [] OTHER -> Emit(Act(Simple(key)))
\* The count counts for motions and gg; before d, o and z it is dropped.
StepCount(n, key) ==
  CASE IsDigit(key) -> To(At("count", Capped(n * 10 + DigitOf(key))))
    [] IsPrefixKey(key) -> To(At(key.code, IF key.code = "g" THEN n ELSE 0))
    [] Motion(key) # "none" -> Emit(Moved(n, Motion(key)))
    [] OTHER -> Emit(Act(Simple(key)))

StepReady(key) ==
  CASE key = Plain("0") -> Emit(Act("first_row"))
    [] IsDigit(key) /\ key # Plain("0") -> To(At("count", DigitOf(key)))
    [] IsPrefixKey(key) -> To(At(key.code, 0))
    [] Motion(key) # "none" -> Emit(Moved(1, Motion(key)))
    [] OTHER -> Emit(Act(Simple(key)))

StepG(n, key) ==
  CASE key = Plain("g") /\ n = 0 -> Emit(Act("first_row"))
    [] key = Plain("g") /\ n # 0 -> Emit([name |-> "row", n |-> n - 1])
    [] OTHER -> Emit(Act(Simple(key)))

StepD(key) == Emit(IF key = Plain("d") THEN Act("kill") ELSE NoAct)

\* After o and z the key's character decides, its modifiers do not.
StepO(key) ==
  Emit(CASE key.code = "h" -> Act("spawn_left")
         [] key.code = "j" -> Act("spawn_below")
         [] key.code = "k" -> Act("spawn_above")
         [] key.code = "l" -> Act("spawn_right")
         [] key.code = "o" -> Act("spawn")
         [] OTHER -> NoAct)

StepZ(key) ==
  Emit(CASE key.code = "M" -> Act("collapse_all")
         [] key.code = "R" -> Act("expand_all")
         [] key.code = "c" -> Act("close_fold")
         [] key.code = "o" -> Act("expand")
         [] key.code = "a" -> Act("toggle_fold")
         [] OTHER -> NoAct)

Step(key) ==
  CASE state.at = "ready" -> StepReady(key)
    [] state.at = "count" -> StepCount(state.n, key)
    [] state.at = "g" -> StepG(state.n, key)
    [] state.at = "d" -> StepD(key)
    [] state.at = "o" -> StepO(key)
    [] state.at = "z" -> StepZ(key)

--------------------------------------------------------------------------
(* The modes of run_event_loop *)

Init ==
  /\ state = Ready /\ act = NoAct /\ word = <<>> /\ said = <<>>
  /\ help = FALSE /\ searching = FALSE /\ filtered = FALSE /\ done = FALSE

HelpKey(key) ==
  /\ help
  /\ help' = (key \notin {Plain("?"), Plain("Esc")})
  /\ state' = IF help' THEN state ELSE Ready
  /\ done' = (key = Ctrl("c"))
  /\ act' = NoAct /\ said' = <<>> /\ word' = IF help' THEN word ELSE <<>>
  /\ UNCHANGED <<searching, filtered>>

\* Any character edits the query; it may match something or be removed again.
SearchKey(key) ==
  /\ ~ help /\ searching
  /\ searching' = (key \notin {Plain("Esc"), Plain("Enter")})
  /\ CASE key = Plain("Esc") -> filtered' = FALSE
       [] key = Plain("Backspace") -> filtered' \in {FALSE, filtered}
       [] ~ key.ctrl /\ key.code \notin {"Esc", "Backspace", "Enter"} -> filtered' = TRUE
       [] OTHER -> filtered' = filtered
  /\ done' = (key = Ctrl("c"))
  /\ act' = NoAct /\ said' = <<>>
  /\ UNCHANGED <<state, help, word>>

EscFilter ==
  /\ ~ help /\ ~ searching /\ filtered
  /\ filtered' = FALSE /\ state' = Ready /\ word' = <<>> /\ act' = NoAct /\ said' = <<>>
  /\ UNCHANGED <<help, searching, done>>

ListKey(key) ==
  /\ ~ help /\ ~ searching /\ ~ (key = Plain("Esc") /\ filtered)
  /\ Len(word) < MaxWord
  /\ state' = Step(key).state /\ act' = Step(key).act
  /\ word' = IF state' = Ready THEN <<>> ELSE Append(word, key)
  /\ said' = IF state' = Ready THEN Append(word, key) ELSE <<>>
  /\ help' = (act'.name = "help") /\ searching' = (act'.name = "search")
  /\ done' = (act'.name = "quit")
  /\ UNCHANGED filtered

KeyPress ==
  ~ done /\ \E key \in Keys :
    HelpKey(key) \/ SearchKey(key) \/ ListKey(key) \/ (key = Plain("Esc") /\ EscFilter)

Next == KeyPress
Spec == Init /\ [][Next]_vars

--------------------------------------------------------------------------
(* KEYBINDING_HINTS: what the help popup and the footer tell.  A hint names *)
(* keys and the action they make, after a count (`Nj`) or without one.      *)

Hint(keys, action) == [keys |-> keys, action |-> action, counted |-> FALSE]
CountedHint(keys, action) == [keys |-> keys, action |-> action, counted |-> TRUE]
Chord(c, d) == <<Plain(c), Plain(d)>>

NavigationHints ==
  {Hint(<<Plain("j")>>, "down"), Hint(<<Plain("k")>>, "up"),
   Hint(<<Plain("0")>>, "first_row"), Hint(Chord("g", "g"), "first_row"),
   Hint(<<Plain("G")>>, "last_row"),
   Hint(<<Ctrl("d")>>, "half_page_down"), Hint(<<Ctrl("u")>>, "half_page_up"),
   CountedHint(Chord("g", "g"), "row"),
   CountedHint(<<Plain("j")>>, "down"), CountedHint(<<Plain("k")>>, "up"),
   Hint(<<Plain("n")>>, "next_attention"), Hint(<<Plain("N")>>, "prev_attention")}

\* The folds are among them, though they are navigation too.
ActionHints ==
  {Hint(<<Plain("Enter")>>, "jump"), Hint(<<Plain("r")>>, "refresh"), Hint(<<Plain("q")>>, "quit"),
   Hint(<<Plain("/")>>, "search"), Hint(<<Plain("?")>>, "help"),
   Hint(<<Plain("Esc")>>, "quit"), Hint(<<Ctrl("c")>>, "quit"),
   Hint(<<Plain("h")>>, "expand"), Hint(<<Plain("l")>>, "expand"),
   Hint(Chord("z", "c"), "close_fold"), Hint(Chord("z", "o"), "expand"),
   Hint(Chord("z", "a"), "toggle_fold"),
   Hint(Chord("z", "M"), "collapse_all"), Hint(Chord("z", "R"), "expand_all"),
   Hint(Chord("d", "d"), "kill"), Hint(<<Plain("x")>>, "kill"), Hint(<<Plain("I")>>, "interrupt"),
   Hint(Chord("o", "o"), "spawn"), Hint(Chord("o", "h"), "spawn_left"),
   Hint(Chord("o", "j"), "spawn_below"), Hint(Chord("o", "k"), "spawn_above"),
   Hint(Chord("o", "l"), "spawn_right")}

--------------------------------------------------------------------------
(* Properties: the grammar as a reader of the help text knows it.          *)

\* The number a run of digits spells, up to the cap.
Number(digits) ==
  LET upTo[i \in 0 .. Len(digits)] ==
        IF i = 0 THEN 0 ELSE upTo[i - 1] * 10 + DigitOf(digits[i])
  IN  upTo[Len(digits)]

CountDigits(w) ==
  CHOOSE d \in 0 .. Len(w) :
    (\A i \in 1 .. d : IsDigit(w[i])) /\ (d = Len(w) \/ ~ IsDigit(w[d + 1]))

\* Keys that the help names make the action it names for them, chords and counts
\* included, and it leaves no action out: the two tables of the source, which are kept in
\* step by hand, agree.
HelpTellsTheTruth ==
  LET n    == CountDigits(said)
      rest == SubSeq(said, n + 1, Len(said))
      hints == NavigationHints \cup ActionHints
  IN  /\ \A h \in hints :
           (IF h.counted THEN n > 0 /\ rest = h.keys ELSE said = h.keys) => act.name = h.action
      /\ act # NoAct => \E h \in hints : h.action = act.name

\* The action a whole word makes: a count applies to a motion as typed (a bare
\* motion counts one, gg and G go to the row of that number), an agent dies only
\* of x, or of d typed twice with nothing between, and no prompt or help text is
\* left half a chord that a later key could complete.
WordsMeanWhatTheySay ==
  LET n     == CountDigits(said)
      typed == Capped(Number(SubSeq(said, 1, n)))
      rest  == SubSeq(said, n + 1, Len(said))
  IN  /\ act.name \in {"down", "up", "half_page_down", "half_page_up"} =>
           Len(rest) = 1 /\ act.n = IF n = 0 THEN 1 ELSE typed
      /\ act.name = "row" =>
           /\ rest \in {<<Plain("G")>>, <<Plain("g"), Plain("g")>>}
           /\ n > 0 /\ act.n + 1 = typed
      /\ act.name = "kill" =>
           \/ rest = <<Plain("d"), Plain("d")>>
           \/ rest \in {<<Plain("x")>>, <<Plain("g"), Plain("x")>>}
      /\ help \/ searching => state = Ready
=============================================================================
