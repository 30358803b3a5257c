----------------------------- MODULE MCBackground -----------------------------
(* What goes on by itself, each part alone: git lookups of two sessions that *)
(* move between two directories; the server with a TUI and another client    *)
(* that compete for one place; the pi extension's connection; the sidebar's  *)
(* resize hook.  The parts share no state: `part` picks one, and v1 .. v9    *)
(* are its variables.                                                        *)
EXTENDS Naturals, Sequences, FiniteSets

CONSTANTS
  Sessions, Dirs, NoDir, Branches, NoContext, Panicked, MaxChanges, MaxFaults,  \* GitLookups
  Others, Ids, MaxClients, MaxDelay, MaxStops,                                  \* Server
  OutboxMax, HighWater, MaxEvents, MaxSockets,                                  \* PiExtension
  MaxTries, MaxScripts, MaxResizes                                              \* SidebarResize

ASSUME BackgroundAssumption ==
  /\ MaxChanges \in Nat /\ MaxFaults \in Nat
  /\ MaxClients \in Nat
  /\ OutboxMax \in Nat \ {0} /\ HighWater \in Nat \ {0}
  /\ MaxTries \in Nat \ {0} /\ MaxScripts \in Nat

VARIABLES part, v1, v2, v3, v4, v5, v6, v7, v8, v9

vars == <<part, v1, v2, v3, v4, v5, v6, v7, v8, v9>>

Git == INSTANCE GitLookups WITH
  disk <- v1, cwd <- v2, context <- v3, in_flight <- v4, threads <- v5, hung <- v6, git_results <- v7,
  changes <- v8, faults <- v9
Server == INSTANCE Server WITH world <- v1, job <- v2
Pi == INSTANCE PiExtension WITH ext <- v1, socks <- v2, daemon <- v3
Resize == INSTANCE SidebarResize WITH world <- v1, job <- v2

\* A step of the part p, that has three variables, or two.
Of(p) == part = p /\ UNCHANGED part
Of3(p) == Of(p) /\ UNCHANGED <<v4, v5, v6, v7, v8, v9>>
Of2(p) == Of3(p) /\ UNCHANGED v3

Init ==
  \/ part = "git" /\ Git!Init
  \/ /\ v4 = 0 /\ v5 = 0 /\ v6 = 0 /\ v7 = 0 /\ v8 = 0 /\ v9 = 0
     /\ \/ part = "pi" /\ Pi!Init
        \/ part = "server" /\ Server!Init /\ v3 = 0
        \/ part = "resize" /\ Resize!Init /\ v3 = 0

Next ==
  \/ Of("git") /\ Git!Next
  \/ Of2("server") /\ Server!Next
  \/ Of3("pi") /\ Pi!Next
  \/ Of2("resize") /\ Resize!Next

\* The fairness of each part's own specification.
GitFairness ==
  /\ WF_vars(Of("git") /\ Git!RefreshGitInfo)
  /\ WF_vars(Of("git") /\ Git!ApplyGitResult)
  /\ \A d \in Dirs : WF_vars(Of("git") /\ Git!Finds(d))
ServerFairness ==
  /\ WF_vars(Of2("server") /\ Server!AcceptResumes)
  /\ WF_vars(Of2("server") /\ Server!Cleanup)
  /\ WF_vars(Of2("server") /\ Server!DrainConnections)
  /\ WF_vars(Of2("server") /\ Server!Restart)
  /\ WF_vars(Of2("server") /\ Server!TuiSteps)
  /\ \A c \in Others \cup {"tui"} :
       /\ SF_vars(Of2("server") /\ Server!Accept(c))
       /\ WF_vars(Of2("server") /\ Server!Handler(c))
PiFairness == \A k \in 1 .. MaxSockets : WF_vars(Of3("pi") /\ k \in DOMAIN v2 /\ Pi!Settles(k))
ResizeFairness == WF_vars(Of2("resize") /\ Resize!ScriptSteps)

Spec == Init /\ [][Next]_vars /\ GitFairness /\ ServerFairness /\ PiFairness /\ ResizeFairness

-----------------------------------------------------------------------------
(* The parts' properties *)

\* GitLookups: a directory has one lookup exactly while it holds its slot.
SlotsExact == part = "git" => Git!TypeOK /\ Git!SlotsExact
\* GitLookups: no late result gives a session the context of a directory it left.
NoStrayContext == [][part = "git" => Git!ChangesAreOwn]_vars
\* GitLookups: in the end each session shows its directory's branch.
ContextsSettle == <>[](part = "git" => Git!ContextsShown)

\* Server: its subscriptions implement the places that the cap promises.
Cap == INSTANCE Places WITH
  Clients <- Others \cup {"tui"}, Size <- MaxClients,
  holders <- IF part = "server" THEN v1.entries ELSE {},
  served <- IF part = "server" THEN Server!Served ELSE {}
PlacesKept == Cap!Spec
\* Server: a TUI that was refused gets a place once one stays free.
TuiGetsIn == []<>(part = "server" => Server!TuiIsIn)

\* PiExtension: atmd reads events in the order pi fired them, and what it has not read
\* stays bounded.
ReadInOrder == part = "pi" => Pi!ReadInOrder /\ Pi!HeapBounded
\* PiExtension, SidebarResize: a paused connection is resumed or closed, and the scripts
\* that start one another come to an end.
NothingHangs ==
  /\ (part = "pi" /\ v1.paused) ~> (part = "pi" /\ ~ v1.paused)
  /\ <>[](part = "resize" => Resize!Quiet)
\* SidebarResize: a resize of a quiet window brings the sidebar to its width.
SettlesAtWidth == part = "resize" => Resize!SettlesAtWidth
=============================================================================
