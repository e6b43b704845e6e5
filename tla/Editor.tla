------------------------------- MODULE Editor -------------------------------
(***************************************************************************)
(* The extension of clients/vscode/src/extension.ts: the commands a user   *)
(* gives in one window, to the service manager and to the chat windows,    *)
(* and deactivate, which ends both.                                        *)
(***************************************************************************)
EXTENDS ServerManager, ChatPanels

CONSTANT Mixes \* bounds: the commands given and the faults met, of each kind, and the
               \* action an earlier session left pending

ASSUME EditorAssumption ==
    Mixes \subseteq [server : Nat, upsets : 0 .. MaxUpsets,
                     chat : Nat, noise : 0 .. MaxNoise, session : {0, 1}]

VARIABLE todo \* bound counter: commands still to be given

vars == <<serverVars, chatVars, todo>>

Init ==
    /\ ServerInit /\ ChatInit
    /\ \E mix \in Mixes :
        /\ todo = [server |-> mix.server, chat |-> mix.chat]
        /\ upsets = MaxUpsets - mix.upsets /\ noise = MaxNoise - mix.noise /\ session = mix.session

GiveServerCommand ==
    /\ todo.server > 0 /\ todo' = [todo EXCEPT !.server = @ - 1]
    /\ \E c \in Calls : ServerCommand(c)
    /\ UNCHANGED chatVars

GiveChatCommand ==
    /\ todo.chat > 0 /\ todo' = [todo EXCEPT !.chat = @ - 1]
    /\ \E p \in Panels : ChatCommand(p)
    /\ UNCHANGED serverVars

(* deactivate: ChatPanel.close, then dispose of the manager. *)
Deactivate == CloseCurrent /\ DisposeServer /\ UNCHANGED todo

Next ==
    \/ GiveServerCommand \/ GiveChatCommand \/ Deactivate
    \/ ServerSteps /\ UNCHANGED <<chatVars, todo>>
    \/ ChatSteps /\ UNCHANGED <<serverVars, todo>>

Spec == Init /\ [][Next]_vars
FairSpec == Spec /\ ServerFairness /\ ChatFairness

(* The values of all variables. *)
TypeOK == ServerTypeOK /\ ChatTypeOK /\ todo \in [server : Nat, chat : Nat]

(* After deactivate nothing that was not told to end runs on: no service,      *)
(* unless a start was under way, and no chat process, unless an open was       *)
(* overtaken at its credential box.                                            *)
EndsWithWindow == ServiceEndsWithWindow /\ ChatEndsWithWindow
=============================================================================
