------------------------------- MODULE MCTop -------------------------------
(***************************************************************************)
(* The parts of turbomactop for TLC: the subscription and the pages.  They *)
(* share no variable (each page is modelled with what it sees of the       *)
(* daemon), so what each promises is checked with the others at rest.      *)
(* part, chosen in the beginning, is the one that moves.                   *)
(***************************************************************************)
EXTENDS Subscription, SettingsView, GpuView, LogView, IncidentsView, Trend

CONSTANT Parts   \* the parts a run is about

VARIABLE part

\* The parts whose inputs are bounded in number, or that wait for a user.
MayRest == {"gpu", "incidents", "trend"}

vars == <<part, subVars, pageVars, gpuViewVars, logViewVars, incVars, trendVars>>

\* A part at rest is in one of its initial states, the same in every behaviour.
AtRest ==
  /\ part # "gpu" => mode = Off
  /\ part # "trend" => rows = <<[ts |-> 1, v |-> Max(TrendValues)]>>

Init ==
  /\ part \in Parts
  /\ SubscriptionInit /\ SettingsViewInit /\ GpuViewInit /\ LogViewInit
  /\ IncidentsViewInit /\ TrendInit
  /\ AtRest

Next ==
  \/ /\ part = "stream" /\ SubscriptionNext
     /\ UNCHANGED <<part, pageVars, gpuViewVars, logViewVars, incVars,
                    trendVars>>
  \/ /\ part = "settings" /\ SettingsViewNext
     /\ UNCHANGED <<part, subVars, gpuViewVars, logViewVars, incVars, trendVars>>
  \/ /\ part = "gpu" /\ GpuViewNext
     /\ UNCHANGED <<part, subVars, pageVars, logViewVars, incVars, trendVars>>
  \/ /\ part = "log" /\ LogViewNext
     /\ UNCHANGED <<part, subVars, pageVars, gpuViewVars, incVars, trendVars>>
  \/ /\ part = "incidents" /\ IncidentsViewNext
     /\ UNCHANGED <<part, subVars, pageVars, gpuViewVars, logViewVars,
                    trendVars>>
  \/ /\ part = "trend" /\ TrendNext
     /\ UNCHANGED <<part, subVars, pageVars, gpuViewVars, logViewVars, incVars>>
  \/ part \in MayRest /\ UNCHANGED vars

\* The fairness of each part, for the part that moves.
Fairness ==
  /\ WF_subVars(part = "stream" /\ Tick)
  /\ WF_subVars(part = "stream" /\ AcceptDead)
  /\ WF_subVars(part = "stream" /\ LeaveDead)
  /\ WF_subVars(part = "stream" /\ CloseSocket)
  /\ WF_subVars(part = "stream" /\ Exit)
  /\ \A c \in Clients :
       /\ WF_subVars(part = "stream" /\ Accept(c))
       /\ WF_subVars(part = "stream" /\ SubscriptionSend(c))
       /\ WF_subVars(part = "stream" /\ Leave(c))
       /\ WF_subVars(part = "stream" /\ Work(c))
       /\ WF_subVars(part = "stream" /\ StopSub(c))
  /\ WF_pageVars(part = "settings" /\ SettingsSnapshot)
  /\ WF_pageVars(part = "settings" /\ Answer)
  /\ WF_pageVars(part = "settings" /\ CarryOut)
  /\ WF_pageVars(part = "settings" /\ Loaded)
  /\ WF_pageVars(part = "settings" /\ LoadFails)
  /\ WF_pageVars(part = "settings" /\ SettingsShow)
  /\ WF_pageVars(part = "settings" /\ Handle)
  /\ WF_pageVars(part = "settings" /\ Applied)
  /\ WF_gpuViewVars(part = "gpu" /\ Snapshot)
  /\ WF_gpuViewVars(part = "gpu" /\ Send)
  /\ WF_gpuViewVars(part = "gpu" /\ Show)
  /\ WF_gpuViewVars(part = "gpu" /\ Done)
  /\ WF_gpuViewVars(part = "gpu" /\ \E m \in Modes : Reach(m))
  /\ WF_logViewVars(part = "log" /\ Poll)
  /\ WF_logViewVars(part = "log" /\ Recent)
  /\ WF_logViewVars(part = "log" /\ Got)
  /\ WF_logViewVars(part = "log" /\ GotError)
  /\ \A i \in Ids : WF_incVars(part = "incidents" /\ (Render(i) \/ RenderFails(i)))
  /\ WF_trendVars(part = "trend" /\ \E v \in TrendValues : Up(v))
  /\ WF_trendVars(part = "trend" /\ ConnChanged)
  /\ WF_trendVars(part = "trend" /\ \E c \in trendCalls : TrendFetch(c))
  /\ WF_trendVars(part = "trend" /\ \E c \in trendCalls : GotHistory(c) \/ GotInitial(c))

Spec == Init /\ [][Next]_vars /\ Fairness

(* Every page comes to show what the daemon has: the configuration, the    *)
(* verdict on a change, the GPU's mode, the newest event, the incident     *)
(* asked for, and what is read once (tui/screens/, and app.py,             *)
(* load_initial).                                                          *)
PagesSettle ==
  /\ ShownFollows /\ VerdictArrives /\ RadioSettles /\ EventsArrive
  /\ DetailArrives /\ InitialLoaded
=============================================================================
