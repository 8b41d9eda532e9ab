--------------------------- MODULE MCAdministration ---------------------------
(***************************************************************************)
(* The components of administration side by side, each in a behaviour of   *)
(* its own: they share no state, so one run checks all of them without the *)
(* product of their state spaces.                                          *)
(***************************************************************************)
EXTENDS AuditChain, SystemProfiles, PortalSession, Accounts, MCAlerts, Notifications,
        TelegramBot, MCInventory, AgentCare, MachineDesk

VARIABLE part  \* the component that takes the steps of this behaviour

Components == {"audit", "profiles", "dossier", "sessions", "portal", "accounts", "sweep", "alerts",
               "notifications", "bot", "inventory", "care", "drifts", "tags", "assign"}

allVars == <<part, vars, profileVars, portalVars, accountVars, alertVars,
             notificationVars, botVars, inventoryVars, careVars, deskVars>>

AllInit ==
    /\ part \in Components
    /\ Init
    /\ ProfilesInit
    /\ PortalInit
    /\ AccountsInit
    /\ AlertsInit
    /\ NotificationsInit
    /\ BotInit
    /\ InventoryInit
    /\ CareInit
    /\ MachineDeskInit

AllNext ==
    \/ part = "audit" /\ Next /\ UNCHANGED <<part, profileVars, portalVars, accountVars,
            alertVars, notificationVars, botVars, inventoryVars, careVars, deskVars>>
    \/ part = "profiles" /\ RequirementsNext /\ UNCHANGED <<part, vars, portalVars, accountVars,
            alertVars, notificationVars, botVars, inventoryVars, careVars, deskVars>>
    \/ part = "dossier" /\ DossierNext /\ UNCHANGED <<part, vars, portalVars, accountVars,
            alertVars, notificationVars, botVars, inventoryVars, careVars, deskVars>>
    \/ part = "sessions" /\ SessionsNext /\ UNCHANGED <<cookie, stale, flights, cache, req,
            excused>> /\ UNCHANGED <<part, vars, profileVars, accountVars,
            alertVars, notificationVars, botVars, inventoryVars, careVars, deskVars>>
    \/ part = "portal" /\ PortalNext /\ UNCHANGED <<part, vars, profileVars, accountVars,
            alertVars, notificationVars, botVars, inventoryVars, careVars, deskVars>>
    \/ part = "accounts" /\ AccountsNext /\ UNCHANGED <<part, vars, profileVars, portalVars,
            alertVars, notificationVars, botVars, inventoryVars, careVars, deskVars>>
    \/ part = "sweep" /\ SweepNext /\ UNCHANGED <<part, vars, profileVars, portalVars,
            accountVars, notificationVars, botVars, inventoryVars, careVars, deskVars>>
    \/ part = "alerts" /\ OneMachineNext /\ UNCHANGED <<part, vars, profileVars, portalVars,
            accountVars, notificationVars, botVars, inventoryVars, careVars, deskVars>>
    \/ part = "notifications" /\ NotificationsNext /\ UNCHANGED <<part, vars, profileVars,
            portalVars, accountVars, alertVars, botVars, inventoryVars, careVars, deskVars>>
    \/ part = "bot" /\ BotNext /\ UNCHANGED <<part, vars, profileVars, portalVars,
            accountVars, alertVars, notificationVars, inventoryVars, careVars, deskVars>>
    \/ part = "inventory" /\ InventoryNext /\ UNCHANGED <<part, vars, profileVars,
            portalVars, accountVars, alertVars, notificationVars, botVars, careVars, deskVars>>
    \/ part = "care" /\ CareNext /\ UNCHANGED <<part, vars, profileVars, portalVars,
            accountVars, alertVars, notificationVars, botVars, inventoryVars, deskVars>>
    \/ part = "drifts" /\ DriftNext /\ UNCHANGED <<part, vars, profileVars, portalVars,
            accountVars, alertVars, notificationVars, botVars, inventoryVars, careVars>>
    \/ part = "tags" /\ TagNext /\ UNCHANGED <<part, vars, profileVars, portalVars,
            accountVars, alertVars, notificationVars, botVars, inventoryVars, careVars>>
    \/ part = "assign" /\ AssignNext /\ UNCHANGED <<part, vars, profileVars, portalVars,
            accountVars, alertVars, notificationVars, botVars, inventoryVars, careVars>>

AllSpec == AllInit /\ [][AllNext]_allVars

\* The type invariants of the components: every variable keeps its type, and
\* what refers to a row has the row.
AdminTypeOK ==
    /\ TypeOK
    /\ ProfilesTypeOK
    /\ SessionsTypeOK
    /\ (part = "portal" => PortalTypeOK)
    /\ AccountsTypeOK
    /\ AlertsTypeOK
    /\ NotificationsTypeOK
    /\ BotTypeOK
    /\ InventoryTypeOK
    /\ CareTypeOK
    /\ MachineDeskTypeOK
=============================================================================
