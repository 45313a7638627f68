------------------------------ MODULE MCStores ------------------------------
(***************************************************************************)
(* What the page keeps: the lists of sessions and containers, settings,    *)
(* capabilities, the history of events, attached resources and terminal    *)
(* output.  They do not touch one another in the code and are checked side *)
(* by side: a behaviour moves one of them, its part.                       *)
(***************************************************************************)
EXTENDS WorkspaceStore, Settings, Capabilities, EventHistory,
        ResourceLedger, TerminalHistory

VARIABLE part      \* the machine that moves

CONSTANT b         \* the built-in persona

(* The tools of the container and of the extension need its command tool.  *)
MCNeeds == [t \in ContainerTools \cup PluginTools |-> IF t = "run" THEN {} ELSE {"run"}]
MCBuiltIn == <<b>>

First(S) == CHOOSE x \in S : TRUE

(* A machine that is not the part begins in one of its initial states.     *)
StoresInit ==
    /\ part \in {"store", "settings", "capabilities", "history", "ledger", "terminal"}
    /\ StoreInit /\ (part # "store" => record.state = "none")
    /\ SettingsInit /\ (part # "settings" => ~earlier.connection /\ ~refuses)
    /\ CapabilitiesInit /\ (part # "capabilities" => ~plugged /\ ~marked /\ viewed = First(ChatIds))
    /\ HistoryInit /\ (part # "history" => origin = <<>>)
    /\ LedgerInit /\ (part # "ledger" => above = [h \in Helpers |-> First(Roots)])
    /\ TerminalInit

StoresNext ==
    /\ UNCHANGED part
    /\ CASE part = "store" -> StoreNext
         [] part = "settings" -> SettingsNext
         [] part = "capabilities" -> CapabilitiesNext
         [] part = "history" -> HistoryNext
         [] part = "ledger" -> LedgerNext
         [] part = "terminal" -> TerminalNext
    /\ IF part = "store" THEN TRUE ELSE UNCHANGED storeVars
    /\ IF part = "settings" THEN TRUE ELSE UNCHANGED settingsVars
    /\ IF part = "capabilities" THEN TRUE ELSE UNCHANGED capabilitiesVars
    /\ IF part = "history" THEN TRUE ELSE UNCHANGED historyVars
    /\ IF part = "ledger" THEN TRUE ELSE UNCHANGED ledgerVars
    /\ IF part = "terminal" THEN TRUE ELSE UNCHANGED terminalVars

StoresVars == <<part, storeVars, settingsVars, capabilitiesVars, historyVars,
             ledgerVars, terminalVars>>

StoresSpec == StoresInit /\ [][StoresNext]_StoresVars
=============================================================================
