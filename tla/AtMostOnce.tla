------------------------------- MODULE AtMostOnce -------------------------------
(***************************************************************************)
(* What a command may expect of a write to the store, messages and retries *)
(* left out: the write takes effect once or never; told "ok", it has; told *)
(* "lost", whatever has not happened by then never will.  Told that the    *)
(* write failed, a command knows nothing: it may have happened, and it may *)
(* yet.                                                                    *)
(***************************************************************************)
EXTENDS Naturals, Sequences

CONSTANTS Clients, MaxCalls

VARIABLES
  log,       \* the writes that have taken effect, <<client, number>>, in order
  asked,     \* how many writes a client has asked for
  told       \* what it was told of each

vars == <<log, asked, told>>

Init ==
  /\ log = <<>>
  /\ asked = [c \in Clients |-> 0]
  /\ told = [c \in Clients |-> [k \in 1 .. MaxCalls |-> "none"]]

Happened(c, k) == \E i \in 1 .. Len(log) : log[i] = <<c, k>>

Ask(c) ==
  /\ asked[c] < MaxCalls
  /\ asked' = [asked EXCEPT ![c] = @ + 1]
  /\ UNCHANGED <<log, told>>

Write(c, k) ==
  /\ k \in 1 .. asked[c]
  /\ ~Happened(c, k)
  /\ told[c][k] \notin {"ok", "lost"}
  /\ log' = Append(log, <<c, k>>)
  /\ UNCHANGED <<asked, told>>

Tell(c, verdict) ==
  /\ told[c][asked[c]] = "none"
  /\ verdict = "ok" => Happened(c, asked[c])
  /\ told' = [told EXCEPT ![c][asked[c]] = verdict]
  /\ UNCHANGED <<log, asked>>

Next ==
  \E c \in Clients :
    \/ Ask(c)
    \/ \E k \in 1 .. MaxCalls : Write(c, k)
    \/ \E verdict \in {"ok", "lost", "failed"} : asked[c] > 0 /\ Tell(c, verdict)

Spec == Init /\ [][Next]_vars

===============================================================================
