----------------------------- MODULE Components -----------------------------
(***************************************************************************)
(* The components that share no state with one another, in one model.      *)
(*                                                                         *)
(* Their variables are disjoint, so what holds of a component in every     *)
(* behaviour of its own holds of it in every interleaving with the others. *)
(* It is therefore enough to let one component run while the others rest:  *)
(* focus says which, and is chosen once.                                   *)
(***************************************************************************)
EXTENDS Workspace, ReviewerAccess, AuthorityChain, NativeAuthority, StagedAuthority,
        BootstrapInstall, Preparation, DeviceContract, NativeReceipt, SyntheticRun,
        TemporalRules, SessionReview, ModelRegistry

VARIABLE focus

componentVars == <<wsVars, accessVars, chainVars, nativeVars, stagedVars, bootVars, prepVars,
                   contractVars, runVars, synVars, ruleVars, reviewVars, registryVars, focus>>

\* A component that rests is in one of its initial states, the same one in every state.
RestsAsChosen(c) ==
  /\ c # "NativeAuthority" => nPrepared = "ABSENT"
  /\ c # "DeviceContract"  => cReq.injected = <<>> /\ cReq.disk = GoodDisk /\ cReq.end = MaxTime
  /\ c # "NativeReceipt"   => nPc.inWorker
  /\ c # "SessionReview"   => wEvents = 0

Init ==
  /\ WorkInit /\ AccessInit /\ ChainInit /\ NativeInit /\ StagedInit /\ BootInit /\ PrepInit
  /\ ContractInit /\ RunInit /\ SynInit /\ RuleInit /\ ReviewInit /\ RegistryInit
  /\ focus \in {"Workspace", "ReviewerAccess", "AuthorityChain", "NativeAuthority",
                "StagedAuthority", "BootstrapInstall", "Preparation", "DeviceContract",
                "NativeReceipt", "SyntheticRun", "TemporalRules", "SessionReview",
                "ModelRegistry"}
  /\ RestsAsChosen(focus)

OthersRest ==
  /\ focus # "Workspace"        => UNCHANGED wsVars
  /\ focus # "ReviewerAccess"   => UNCHANGED accessVars
  /\ focus # "AuthorityChain"   => UNCHANGED chainVars
  /\ focus # "NativeAuthority"  => UNCHANGED nativeVars
  /\ focus # "StagedAuthority"  => UNCHANGED stagedVars
  /\ focus # "BootstrapInstall" => UNCHANGED bootVars
  /\ focus # "Preparation"      => UNCHANGED prepVars
  /\ focus # "DeviceContract"   => UNCHANGED contractVars
  /\ focus # "NativeReceipt"    => UNCHANGED runVars
  /\ focus # "SyntheticRun"     => UNCHANGED synVars
  /\ focus # "TemporalRules"    => UNCHANGED ruleVars
  /\ focus # "SessionReview"    => UNCHANGED reviewVars
  /\ focus # "ModelRegistry"    => UNCHANGED registryVars
  /\ UNCHANGED focus

Next ==
  \/ focus = "Workspace"        /\ WorkNext     /\ OthersRest
  \/ focus = "ReviewerAccess"   /\ AccessNext   /\ OthersRest
  \/ focus = "AuthorityChain"   /\ ChainNext    /\ OthersRest
  \/ focus = "NativeAuthority"  /\ NativeNext   /\ OthersRest
  \/ focus = "StagedAuthority"  /\ StagedNext   /\ OthersRest
  \/ focus = "BootstrapInstall" /\ BootNext     /\ OthersRest
  \/ focus = "Preparation"      /\ PrepNext     /\ OthersRest
  \/ focus = "DeviceContract"   /\ ContractNext /\ OthersRest
  \/ focus = "NativeReceipt"    /\ RunNext      /\ OthersRest
  \/ focus = "SyntheticRun"     /\ SynNext      /\ OthersRest
  \/ focus = "TemporalRules"    /\ RuleNext     /\ OthersRest
  \/ focus = "SessionReview"    /\ ReviewNext   /\ OthersRest
  \/ focus = "ModelRegistry"    /\ RegistryNext /\ OthersRest

Spec == Init /\ [][Next]_componentVars
=============================================================================
