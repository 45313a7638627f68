----------------------------- MODULE MCMachines -----------------------------
(***************************************************************************)
(* Machines of the tab and the runtime that share no state: tool turns, the *)
(* model's context, streamed answers, the scroll position, the file panel, *)
(* updates of files, system files, shell processes, the table of processes *)
(* and the mutation lease.  A behaviour moves one of them, its part.       *)
(***************************************************************************)
EXTENDS AgentTurns, ModelContext, ChatStream, ChatScroll,
        FileBrowser, FileUpdates, SystemFiles, ShellProcesses,
        ProcessTable, MutationLease

VARIABLE part      \* the machine that moves

CONSTANTS o1, o2, o3, o4, k1, k2

(* The kinds of run: a root with and without a shell, a child.             *)
MCProfiles == {[role |-> "root", shell |-> TRUE, needsPlan |-> TRUE],
               [role |-> "root", shell |-> FALSE, needsPlan |-> FALSE],
               [role |-> "child", shell |-> TRUE, needsPlan |-> FALSE]}
MCContainerOf == [o \in Op |-> IF o = o4 THEN k2 ELSE k1]

First(S) == CHOOSE x \in S : TRUE

(* A machine that is not the part begins in one of its initial states.     *)
MachinesInit ==
    /\ part \in {"turns", "context", "stream", "scroll", "browser", "updates", "system", "shell", "table", "lease"}
    /\ TurnsInit /\ (part # "turns" => run = First(Profiles) /\ revision = 0)
    /\ ContextInit /\ (part # "context" => sees)
    /\ StreamInit /\ (part # "stream" => reply = <<>>)
    /\ ScrollInit /\ (part # "scroll" => client = First(Clients) /\ height = 0 /\ viewShown = First(Views))
    /\ BrowserInit /\ (part # "browser" => subs = {} /\ root = First(Containers))
    /\ UpdateInit /\ (part # "updates" => files = [t \in Targets |-> "none"] /\ changes = <<First(Inputs)>>)
    /\ FilesInit /\ (part # "system" => ~stored.there)
    /\ Inits
    /\ TableInit /\ (part # "table" => view = First(Boxes))
    /\ LeaseInit

MachinesNext ==
    /\ UNCHANGED part
    /\ CASE part = "turns" -> TurnsNext
         [] part = "context" -> ContextNext
         [] part = "stream" -> StreamNext
         [] part = "scroll" -> ScrollNext
         [] part = "browser" -> BrowserNext
         [] part = "updates" -> UpdateNext
         [] part = "system" -> FilesNext
         [] part = "shell" -> Steps
         [] part = "table" -> TableNext
         [] part = "lease" -> LeaseNext
    /\ IF part = "turns" THEN TRUE ELSE UNCHANGED turnsVars
    /\ IF part = "context" THEN TRUE ELSE UNCHANGED contextVars
    /\ IF part = "stream" THEN TRUE ELSE UNCHANGED streamVars
    /\ IF part = "scroll" THEN TRUE ELSE UNCHANGED scrollVars
    /\ IF part = "browser" THEN TRUE ELSE UNCHANGED browserVars
    /\ IF part = "updates" THEN TRUE ELSE UNCHANGED updateVars
    /\ IF part = "system" THEN TRUE ELSE UNCHANGED filesVars
    /\ IF part = "shell" THEN TRUE ELSE UNCHANGED processVars
    /\ IF part = "table" THEN TRUE ELSE UNCHANGED tableVars
    /\ IF part = "lease" THEN TRUE ELSE UNCHANGED leaseVars

MachinesVars == <<part, turnsVars, contextVars, streamVars, scrollVars,
             browserVars, updateVars, filesVars, processVars,
             tableVars, leaseVars>>

MachinesSpec == MachinesInit /\ [][MachinesNext]_MachinesVars
=============================================================================
