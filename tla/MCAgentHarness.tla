-------------------------- MODULE MCAgentHarness --------------------------
(***************************************************************************)
(* Instances of AgentHarness for TLC.                                      *)
(***************************************************************************)
EXTENDS AgentHarness

CONSTANTS ch1, ch2

\* The second event is for the other channel; the third was created before
\* the first, as a replay delivers them.
MCChannelOf == [e \in Events |-> IF e = 2 THEN ch2 ELSE ch1]
OneChannel == [e \in Events |-> ch1]
MCCreatedAt == [e \in Events |-> IF e = 1 THEN 2 ELSE 1]

Setting(h, p, g, f, c) == [handling |-> h, pool |-> p, greeting |-> g,
                           maxFaults |-> f, maxCommands |-> c]

\* A fault and a command in one behaviour under one setting, a second fault (a
\* turn past its deadline and the failure of the one beside it) under another;
\* elsewhere one of the two, which keeps the run small.
SafetyConfigs ==
    {Setting("interrupt", "lazy", "none", 1, 1),
     Setting("queue", "lazy", "none", 2, 0),
     Setting("steer", "lazy", "none", 1, 0), Setting("steer", "lazy", "none", 0, 1),
     Setting("interrupt", "eager", "initial_message", 1, 0),
     Setting("interrupt", "eager", "initial_message", 0, 1)}

LivenessConfigs == {Setting("steer", "lazy", "initial_message", 2, 0),
                    Setting("queue", "lazy", "none", 2, 0),
                    Setting("interrupt", "eager", "none", 2, 0),
                    Setting("drop", "eager", "none", 2, 0)}

SteerConfigs == {Setting("steer", "eager", "none", 0, 0)}

=============================================================================
