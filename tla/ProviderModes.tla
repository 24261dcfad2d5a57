--------------------------- MODULE ProviderModes ---------------------------
(***************************************************************************)
(* Which endpoint the traffic of a model provider goes to.  The            *)
(* configuration holds credentials of a provider for its own API, for the  *)
(* subscription gateway, for both or for neither; it is read when the      *)
(* process starts.  A row in the database, written by the operator bot,    *)
(* overrides the mode the configuration implies.  The clients of every     *)
(* capability are built from the resolved modes at start, and rebuilt and  *)
(* swapped in place when the operator switches one provider.               *)
(*                                                                         *)
(* A switch is synchronous: no other coroutine runs inside it, so each of  *)
(* its outcomes is one step.  What can fail in it is the write that stages *)
(* the row, the construction of a client, the commit, and the construction *)
(* of the clients that put the previous modes back.                        *)
(*                                                                         *)
(* The eight client maps of a bundle and the two agent selectors fall into *)
(* three seams by who can serve them: "image" (receipts and recipes),      *)
(* "text" (everything else) and "search".                                  *)
(***************************************************************************)
EXTENDS Naturals, FiniteSets

CONSTANTS Providers,      \* ALL_PROVIDERS
          Default,        \* LLM_PROVIDER: the provider a new user gets
          Readers,        \* providers with a receipt and a recipe client
          Searchers,      \* providers with a search client
          FirstParty,     \* those whose search always goes to their own API
          NoMode            \* no row, no client

ASSUME ProviderModesAssumption ==
  /\ Default \in Providers
  /\ Readers \subseteq Providers /\ Searchers \subseteq Providers
  /\ FirstParty \subseteq Searchers
  /\ NoMode \notin Providers \cup {"api", "subscription"}

VARIABLES credentials,    \* provider -> the modes it has credentials for
          override,       \* provider -> the mode of its row, or NoMode
          clients,        \* seam -> provider -> the mode of its live client
          serving,        \* the process is up
          choice,         \* llm_provider of one user
          reply,          \* the operator bot's last answer
          unreconciled    \* it has told the operator to restart

modeVars ==
  <<credentials, override, clients, serving, choice, reply, unreconciled>>

Modes == {"api", "subscription"}
Seams == {"image", "text", "search"}

-----------------------------------------------------------------------------
(* Resolution of the modes.                                                *)

DefaultMode(c, p) == IF "subscription" \in c[p] THEN "subscription" ELSE "api"

\* An override counts only while credentials for its mode exist.
Honoured(c, o, p) == o[p] \in c[p]

Effective(c, o) ==
  [p \in Providers |-> IF Honoured(c, o, p) THEN o[p] ELSE DefaultMode(c, p)]

ResolveCredentials(c, modes) ==
  [p \in Providers |-> IF modes[p] \in c[p] THEN modes[p] ELSE NoMode]

\* A first-party search goes to the provider's own API in either mode.
SearchMode(c, modes, p) ==
  IF p \in FirstParty
  THEN IF modes[p] # NoMode /\ "api" \in c[p] THEN "api" ELSE NoMode
  ELSE modes[p]

BuildClients(c, o) ==
  LET modes == ResolveCredentials(c, Effective(c, o))
  IN [image  |-> [p \in Readers |-> modes[p]],
      text   |-> modes,
      search |-> [p \in Searchers |-> SearchMode(c, modes, p)]]

Serves(s, p) == p \in DOMAIN clients[s] /\ clients[s][p] # NoMode

\* validate_provider_key: what a configuration must hold to be accepted.
Accepted(c) ==
  /\ c[Default] # {}
  /\ Default \in Readers \/ \E p \in Readers : c[p] # {}

NoClients ==
  [s \in Seams |-> [p \in CASE s = "image" -> Readers [] s = "text" -> Providers
                              [] s = "search" -> Searchers |-> NoMode]]

-----------------------------------------------------------------------------
ModeInit ==
  /\ credentials \in [Providers -> SUBSET Modes]
  /\ override = [p \in Providers |-> NoMode]
  /\ clients = NoClients
  /\ serving = FALSE
  /\ choice = Default
  /\ reply = "none"
  /\ unreconciled = FALSE

\* The environment is edited while the process is down.
Reconfigure(p, modes) ==
  /\ ~serving
  /\ credentials' = [credentials EXCEPT ![p] = modes]
  /\ UNCHANGED <<override, clients, serving, choice, reply, unreconciled>>

Boot ==
  /\ ~serving
  /\ Accepted(credentials)
  /\ clients' = BuildClients(credentials, override)
  /\ serving' = TRUE
  /\ reply' = "none"
  /\ unreconciled' = FALSE
  /\ UNCHANGED <<credentials, override, choice>>

Shutdown ==
  /\ serving
  /\ clients' = NoClients
  /\ serving' = FALSE
  /\ UNCHANGED <<credentials, override, choice, reply, unreconciled>>

\* /llm and the settings page of the Mini App.
ChooseProvider(p) ==
  /\ serving
  /\ Serves("text", p)
  /\ choice' = p
  /\ UNCHANGED <<credentials, override, clients, serving, reply, unreconciled>>

-----------------------------------------------------------------------------
(* The operator switches provider p to mode.                               *)

\* The row the choice leaves: none at all when it is the configured mode.
Staged(p, mode) ==
  [override EXCEPT ![p] = IF mode = DefaultMode(credentials, p) THEN NoMode ELSE mode]

RefuseMode(p, mode) ==
  /\ serving
  /\ mode \notin credentials[p]
  /\ reply' = "refused"
  /\ UNCHANGED <<credentials, override, clients, serving, choice, unreconciled>>

ApplyMode(p, mode) ==
  /\ serving
  /\ mode \in credentials[p]
  /\ override' = Staged(p, mode)
  /\ clients' = BuildClients(credentials, Staged(p, mode))
  /\ reply' = "applied"
  /\ unreconciled' = FALSE
  /\ UNCHANGED <<credentials, serving, choice>>

\* Staging fails before the runtime was touched: nothing to put back.
StageFails(p, mode) ==
  /\ serving
  /\ mode \in credentials[p]
  /\ reply' = "restored"
  /\ UNCHANGED <<credentials, override, clients, serving, choice, unreconciled>>

\* Mutant: adopts the receipt clients before the others are built.
InterruptedHalf(p, mode, failed) ==
  LET new == BuildClients(credentials, Staged(p, mode))
  IN IF failed = "build" THEN [clients EXCEPT !["image"] = new.image] ELSE new

\* The clients live while the previous modes are put back: those in service
\* when a construction failed, the new ones when the commit failed.
Interrupted(p, mode, failed) ==
  IF failed = "build" THEN clients ELSE BuildClients(credentials, Staged(p, mode))

SwitchFails(p, mode, failed, restored) ==
  /\ serving
  /\ mode \in credentials[p]
  /\ IF restored
     THEN /\ clients' = BuildClients(credentials, override)
          /\ reply' = "restored"
          /\ unreconciled' = FALSE
     ELSE /\ clients' = Interrupted(p, mode, failed)
          /\ reply' = "not restored"
          /\ unreconciled' = TRUE
  /\ UNCHANGED <<credentials, override, serving, choice>>

ModeNext ==
  \/ Boot \/ Shutdown
  \/ \E p \in Providers :
       \/ \E modes \in SUBSET Modes : Reconfigure(p, modes)
       \/ ChooseProvider(p)
       \/ \E mode \in Modes :
            \/ RefuseMode(p, mode)
            \/ ApplyMode(p, mode)
            \/ StageFails(p, mode)
            \/ \E failed \in {"build", "commit"}, restored \in BOOLEAN :
                 SwitchFails(p, mode, failed, restored)

ModeSpec == ModeInit /\ [][ModeNext]_modeVars

-----------------------------------------------------------------------------
(* Who serves a request of the user.                                       *)

\* ProviderSelector: the chosen provider, or for a seam with fallback the
\* default of the selector, which is Default when it can serve.
SelectorDefaults(s) ==
  IF Serves(s, Default) THEN {Default} ELSE {p \in DOMAIN clients[s] : Serves(s, p)}

ServedBy(s) ==
  CASE Serves(s, choice) -> {choice}
    [] ~Serves(s, choice) /\ s # "text" -> SelectorDefaults(s)
    [] OTHER -> {}

-----------------------------------------------------------------------------
(* Properties.                                                             *)

\* Type invariant of the mode registry.
ModeTypeOK ==
  /\ credentials \in [Providers -> SUBSET Modes]
  /\ override \in [Providers -> Modes \cup {NoMode}]
  /\ DOMAIN clients = Seams
  /\ serving \in BOOLEAN /\ unreconciled \in BOOLEAN
  /\ choice \in Providers
  /\ reply \in {"none", "refused", "applied", "restored", "not restored"}

\* Until the operator has been told to restart, the clients in service are
\* those a restart would build from the rows and the configuration.
LiveMatchesSaved ==
  serving /\ ~unreconciled => clients = BuildClients(credentials, override)

\* Whatever rows outlived their credentials and whatever switches failed, a
\* provider with credentials serves every capability it has a client for.
EveryCredentialServes ==
  serving =>
    \A p \in Providers :
      /\ credentials[p] # {} => Serves("text", p)
      /\ credentials[p] # {} /\ p \in Readers => Serves("image", p)
      /\ p \in Searchers /\ p \in FirstParty /\ "api" \in credentials[p] =>
           Serves("search", p)

\* No switch, failed halfway or not, leaves one provider's receipts, texts
\* and searches on different endpoints.
OneModePerProvider ==
  \A p \in Providers :
    /\ Serves("image", p) => clients["image"][p] = clients["text"][p]
    /\ Serves("search", p) /\ p \notin FirstParty =>
         clients["search"][p] = clients["text"][p]

\* A process that started can read a receipt for any user, whichever
\* provider the user once chose and whichever credentials are left.
ReceiptsAreRead == serving => ServedBy("image") # {}

\* The clients in service, whatever was switched, failed or reconfigured.
ModesSound == LiveMatchesSaved /\ EveryCredentialServes /\ OneModePerProvider /\ ReceiptsAreRead
=============================================================================
