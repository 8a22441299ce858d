---------------------------- MODULE MCToolGuard ----------------------------
(* ToolGuard with the profiles of configs/agents.toml and a project of its own. *)
EXTENDS ToolGuard, TLC

CONSTANTS c1, c2

Profile(blacklist, approval, financial, full) ==
  [blacklist |-> blacklist, approval |-> approval, financial |-> financial,
   permissions |-> {"read"}, full |-> full, safe |-> FALSE]

MCCapability == [cmd \in Cmds |-> "other"]

MCFiles == [project |-> {Absent, Bad, "own"}, global |-> {"shared"}]
By(cmds) == [role : {"deployer"}, cmd : cmds]
MCInvocations == [c \in Calls |-> IF c = c1 THEN By({"flash", "inject"}) ELSE By({"wipe", "order"})]

(* "default" forbids to wipe; the deployer may flash on approval and order *)
(* as a dry run.  The project's deployer may only wipe, on approval.       *)
Default == Profile({"wipe"}, {}, {}, FALSE)
MCRulesOf ==
  [content \in {"shared", "own"} |->
     IF content = "shared"
     THEN "default" :> Default @@ "deployer" :> Profile({}, {"flash", "wipe"}, {"flash", "order"}, TRUE)
     ELSE "deployer" :> Profile({}, {"wipe"}, {}, FALSE)]
=============================================================================
