------------------------ MODULE MCGenerationRecovery ------------------------
(* Generation with starts under several process ids and stalls.            *)
EXTENDS MCGeneration

\* A living holder works on although its lease has lapsed.
Stalled(j) ==
  Heartbeats(j) /\ ~lease[j].live /\ pc[j] \notin {"prepare", "resumeQueued", "resume"}

\* Restarts bear one process id.
OneName == pid = CHOOSE p \in Pid : TRUE
NoStall == \A j \in Job : ~Stalled(j)

\* A task that was being polled is followed to its end through kills and
\* shutdowns, when the process comes back under the same process id.
PolledTaskIsTakenUp == []OneName /\ []NoStall => PolledTaskSettles

\* A task the poller lost sight of is followed by the reconciler until the
\* provider names its end, if the provider answers at last.
LostTaskIsFollowed ==
  []OneName /\ []NoStall /\ [](starts <= 1) /\ ProviderAnswers => LostTaskIsReconciled
=============================================================================
