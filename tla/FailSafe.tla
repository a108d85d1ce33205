------------------------------ MODULE FailSafe ------------------------------
(***************************************************************************)
(* What the macOS kernel extension promises of the package, with none of   *)
(* its handlers, captures and readbacks.  Three things protect the package:*)
(* Apple's guard (PROCHOT), the HWP requests, and the power limits.  They  *)
(* are given up one at a time and in one order, and taken back in the other:*)
(* a limit comes first, then the requests are released, then the guard goes*)
(* off; the guard comes back first, then the requests, then the limit.     *)
(* All of it ends when something outside the driver changes a register.    *)
(***************************************************************************)
EXTENDS Integers

CONSTANTS CPUs,      \* the logical CPUs there may be
          Apple,     \* the limits found at boot, <<PL1, PL2>>
          LowMW      \* a limit under which HWP may be enabled

VARIABLES
  online,     \* the CPUs that run
  limit,      \* the limits in force
  guard,      \* Apple's guard, per CPU
  pm,         \* HWP is enabled
  req,        \* the HWP request in effect, per CPU
  installed,  \* the limits that were asked for and verified last
  refused,    \* a write that sets the guard did not take
  touched     \* something else changed the package

vars == <<online, limit, guard, pm, req, installed, refused, touched>>

Guarded      == \A c \in online : guard[c]
InEffect(r)  == \E c \in online : req[c] = r
OnlyReleased == \A c \in online : req[c] = "released"
Low(l)       == l[1] <= LowMW /\ l[2] <= LowMW
AsFound(l)   == l[1] <= Apple[1] /\ l[2] <= Apple[2]

\* The guard was set before anything else is taken back, or could not be.
GuardFirst   == Guarded \/ refused

Init ==
  /\ online = CPUs /\ limit = Apple /\ guard = [c \in CPUs |-> TRUE]
  /\ pm \in BOOLEAN /\ req = [c \in CPUs |-> IF pm THEN "restricted" ELSE "default"]
  /\ installed = <<0, 0>> /\ refused = FALSE /\ touched = FALSE

\* HWP cannot be disabled again, and lets every CPU go as fast as it can.
Enable ==
  /\ ~pm /\ Guarded /\ Low(limit) /\ pm' = TRUE
  /\ UNCHANGED <<online, limit, guard, req, installed, refused, touched>>

\* The limits that were asked for are verified.
Install ==
  /\ installed' = limit' /\ AsFound(limit')
  /\ pm => ~InEffect("default")
  /\ UNCHANGED <<online, guard, pm, req, refused, touched>>

\* A write on every CPU that runs may take on some of them only.
Some(before, after, value) ==
  /\ after = [c \in CPUs |-> after[c]]
  /\ \A c \in CPUs : after[c] = before[c] \/ (c \in online /\ after[c] \in value)

Release ==
  /\ pm /\ Guarded /\ limit = installed /\ ~InEffect("default")
  /\ Some(req, req', {"released"})
  /\ UNCHANGED <<online, limit, guard, pm, installed, refused, touched>>

Unguard ==
  /\ Guarded /\ OnlyReleased /\ limit = installed
  /\ Some(guard, guard', {FALSE})
  /\ UNCHANGED <<online, limit, pm, req, installed, refused, touched>>

Guard ==
  /\ Some(guard, guard', {TRUE})
  /\ refused => refused'
  /\ GuardFirst'
  /\ UNCHANGED <<online, limit, pm, req, installed, touched>>

Restrict ==
  /\ pm /\ GuardFirst
  /\ Some(req, req', {"restricted", "failsafe"})
  /\ UNCHANGED <<online, limit, guard, pm, installed, refused, touched>>

GiveBack ==
  /\ GuardFirst /\ ~InEffect("released") /\ (pm => ~InEffect("default"))
  /\ AsFound(limit')
  /\ UNCHANGED <<online, guard, pm, req, installed, refused, touched>>

\* Nothing is promised from here on.
Outside == touched' = TRUE

Next == \/ Enable \/ Install \/ Release \/ Unguard
        \/ Guard \/ Restrict \/ GiveBack \/ Outside

Spec == Init /\ [][Next]_vars

\* What the order is for: a CPU goes as fast as it can only under the guard
\* and a low limit; it is released only under limits that were asked for and
\* verified; the guard is off only where every CPU is so released, unless it
\* could not be set; and no limit is above the one found at boot.
PackageSafe ==
  ~touched =>
    /\ pm /\ InEffect("default") => Guarded /\ Low(limit)
    /\ InEffect("released") => limit = installed
    /\ ~refused /\ ~Guarded => OnlyReleased /\ limit = installed
    /\ AsFound(limit)
=============================================================================
