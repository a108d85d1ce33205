----------------------------- MODULE BootCheck ------------------------------
(***************************************************************************)
(* How a boot that ended abruptly is found out (incidents.py, called by    *)
(* Daemon.setup): the journal of the previous boot, the clean-shutdown     *)
(* marker that turbomacd.service's ExecStop and Daemon.shutdown write, the *)
(* last-boot-checked file, incident reports and the samples put into them. *)
(* Boots are numbered; the daemon may crash, or the power fail, between    *)
(* any two writes.                                                         *)
(***************************************************************************)
EXTENDS Integers, Sequences, FiniteSetsExt

CONSTANTS Boots,          \* bound: boots
          MaxBootCrashes  \* bound: crashes of the daemon

ASSUME BootAssumption == Boots \in Nat \ {0}

VARIABLES
  boot, up,         \* this boot's number; whether the machine is up
  ended,            \* how each earlier boot ended: "clean", "lost" (power lost
                    \* with the daemon running) or "idle" (with it stopped)
  daemon,           \* "off", "checking", "judged" or "running"
  seenMarker,       \* the marker as this start has read it
  marker, checked,  \* clean_marker and last_boot_checked: a boot, or 0
  incidents,        \* reports: [id, boot, samples]
  samples,          \* boots with samples in the log
  verdict,          \* per boot: what was said of it last
  bootCrashes

bootVars == <<boot, up, ended, daemon, seenMarker, marker, checked, incidents, samples,
          verdict, bootCrashes>>

BootInit ==
  /\ boot = 1 /\ up = TRUE /\ ended = <<>> /\ daemon = "off" /\ seenMarker = 0
  /\ marker = 0 /\ checked = 0 /\ incidents = {} /\ samples = {} /\ bootCrashes = 0
  /\ verdict = [b \in 1..Boots |-> "none"]

\* Mutant of Consume: the marker stays.
ConsumeNot == seenMarker' = marker /\ UNCHANGED marker

\* check_previous_boot: the marker is taken away at every start.
Consume == seenMarker' = marker /\ marker' = 0

Start ==
  /\ up /\ daemon = "off" /\ daemon' = "checking"
  /\ Consume
  /\ UNCHANGED <<boot, up, ended, checked, incidents, samples, verdict, bootCrashes>>

Say(v) == verdict' = [verdict EXCEPT ![boot - 1] = v]

\* last_samples: the newest samples that are not of this boot.
SampleBoot == Max({0} \cup (samples \ {boot}))

Report == incidents' = incidents \cup
            {[id |-> Cardinality(incidents) + 1, boot |-> boot - 1, samples |-> SampleBoot]}

\* The journal decides when it is there: it ends in 'Journal stopped' or not.
Journal ==
  IF ended[boot - 1] = "clean" THEN Say("clean") /\ UNCHANGED incidents
                               ELSE Say("abrupt") /\ Report

\* Without a journal the marker does, if it is of the previous boot and
\* journalctl --list-boots says which that is.
Marker(listed) ==
  /\ Say(IF listed /\ seenMarker = boot - 1 THEN "clean" ELSE "unknown")
  /\ UNCHANGED incidents

Skip == checked = boot

Judge ==
  /\ daemon = "checking" /\ ~Skip /\ daemon' = "judged"
  /\ \/ boot > 1 /\ Journal
     \/ boot > 1 /\ \E listed \in BOOLEAN : Marker(listed)
     \/ boot = 1 /\ UNCHANGED <<incidents, verdict>>
  /\ UNCHANGED <<boot, up, ended, seenMarker, marker, checked, samples, bootCrashes>>

\* The boot is noted as checked, and the daemon comes up.
Note ==
  /\ \/ daemon = "judged" /\ checked' = boot
     \/ daemon = "checking" /\ Skip /\ UNCHANGED checked
  /\ daemon' = "running"
  /\ UNCHANGED <<boot, up, ended, seenMarker, marker, incidents, samples,
                 verdict, bootCrashes>>

Sample ==
  /\ daemon = "running" /\ boot \notin samples /\ samples' = samples \cup {boot}
  /\ UNCHANGED <<boot, up, ended, daemon, seenMarker, marker, checked,
                 incidents, verdict, bootCrashes>>

\* The daemon dies; no ExecStop runs.
BootCrash ==
  /\ daemon # "off" /\ daemon' = "off"
  /\ bootCrashes < MaxBootCrashes /\ bootCrashes' = bootCrashes + 1
  /\ UNCHANGED <<boot, up, ended, seenMarker, marker, checked, incidents,
                 samples, verdict>>

\* ExecStop's mark-clean, and the daemon's own on the way out.
MarkClean == marker' = boot

StopService ==
  /\ daemon = "running" /\ daemon' = "off" /\ MarkClean
  /\ UNCHANGED <<boot, up, ended, seenMarker, checked, incidents, samples,
                 verdict, bootCrashes>>

\* The machine goes down: in order, once the service is stopped, or not.
Down(how) ==
  /\ up /\ up' = FALSE
  /\ how = "lost" <=> daemon # "off"
  /\ ended' = Append(ended, how) /\ daemon' = "off"
  /\ UNCHANGED <<boot, seenMarker, marker, checked, incidents, samples, verdict,
                 bootCrashes>>

Boot ==
  /\ ~up /\ up' = TRUE /\ boot < Boots /\ boot' = boot + 1
  /\ UNCHANGED <<ended, daemon, seenMarker, marker, checked, incidents, samples,
                 verdict, bootCrashes>>

BootNext == \/ Start \/ Judge \/ Note \/ Sample \/ BootCrash \/ StopService \/ Boot
            \/ \E how \in {"clean", "lost", "idle"} : Down(how)

BootSpec == BootInit /\ [][BootNext]_bootVars

-----------------------------------------------------------------------------
BootTypeOK ==
  /\ daemon \in {"off", "checking", "judged", "running"}
  /\ marker \in 0..boot /\ checked \in 0..boot /\ seenMarker \in 0..boot
  /\ \A i \in incidents : i.boot \in 1..boot - 1 /\ i.samples \in 0..i.boot

\* Once the daemon runs, a power loss in the boot before is reported, after any
\* crashes and restarts on the way; without a journal to read it is "unknown".
AbruptIsReported ==
  daemon = "running" /\ boot > 1 /\ ended[boot - 1] = "lost" =>
    verdict[boot - 1] = "unknown" \/ \E i \in incidents : i.boot = boot - 1

\* No report is made of a boot that ended in order.
NoFalseReport == \A i \in incidents : ended[i.boot] # "clean"

\* A power loss under a daemon that had come up is never called clean, not
\* even where only the marker is left to go by.
LossNotClean ==
  \A b \in 1..boot - 1 : ended[b] = "lost" => verdict[b] # "clean"

\* What is recorded of the previous boot is how it ended (incidents.py,
\* check_previous_boot).
BootSafe == BootTypeOK /\ AbruptIsReported /\ NoFalseReport /\ LossNotClean
=============================================================================
