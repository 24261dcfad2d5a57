----------------------------- MODULE Operations ------------------------------
(***************************************************************************)
(* What keeps the kitchen running, for model checking: who is a member, what  *)
(* a plan is charged, the connections the owner administers, the modes of the *)
(* providers, a request to a model, a search for recipes, the digests of the   *)
(* morning, and the messages of a conversation and their edits.               *)
(*                                                                          *)
(* What one of these components needs of another is in its own module (the    *)
(* digests know who is a member and has a destination, a search knows the     *)
(* cost of a call), therefore they need not be interleaved with one another:  *)
(* each behaviour chooses a scene, explores every interleaving inside it and   *)
(* leaves the other components as they were.                                  *)
(***************************************************************************)
EXTENDS Billing, Membership, ConnectionAdmin, ProviderModes, ModelCalls,
        RecipeSearch, Digests, Messages, TLC

VARIABLE scene

people   == <<membershipVars, digestVars>>
console  == <<connVars, modeVars, messageVars>>
requests == <<call, search>>

\* Outside of its scene a component that may start in several states is given one.
OperationsInit ==
  /\ scene \in {"quota", "members", "connections", "modes", "calls", "searches", "digests",
               "messages"}
  /\ Init /\ MembershipInit
  /\ ConnInit /\ ModeInit /\ CallInit /\ SearchInit /\ DigestInit /\ MessagesInit
  /\ scene # "connections" => kind = CHOOSE k \in Kinds : TRUE
  /\ scene # "modes" => credentials = [p \in Providers |-> {}]
  /\ scene # "calls" => call = Fresh(CHOOSE c \in Callers : TRUE)
  /\ scene # "searches" => search = Begun(Unlimited, TRUE, TRUE, TRUE)
  /\ scene # "digests" => \A u \in Eaters : eater[u].chat

OperationsNext ==
  /\ UNCHANGED scene
  /\ \/ /\ scene = "quota" /\ Next
        /\ UNCHANGED <<people, console, requests>>
     \/ /\ scene = "members" /\ MembershipNext
        /\ UNCHANGED <<vars, digestVars, console, requests>>
     \/ /\ scene = "digests" /\ DigestNext
        /\ UNCHANGED <<vars, membershipVars, console, requests>>
     \/ /\ scene = "connections" /\ ConnNext
        /\ UNCHANGED <<vars, people, modeVars, messageVars, requests>>
     \/ /\ scene = "modes" /\ ModeNext
        /\ UNCHANGED <<vars, people, connVars, messageVars, requests>>
     \/ /\ scene = "messages" /\ MessagesNext
        /\ UNCHANGED <<vars, people, connVars, modeVars, requests>>
     \/ /\ scene = "calls" /\ CallNext
        /\ UNCHANGED <<vars, people, console, search>>
     \/ /\ scene = "searches" /\ SearchNext
        /\ UNCHANGED <<vars, people, console, call>>

\* Which of the owner's requests and of the messages it is makes no difference.  (The
\* two sets have the same two members, of which a scene uses one role.)
Alike == Permutations(Asks \cup Messages)

OperationsSpec ==
  OperationsInit /\ [][OperationsNext]_<<scene, vars, people, console, requests>>

-----------------------------------------------------------------------------
\* Every table of a scene holds rows of its type, and a client or a search has a
\* state of its kind.
OperationsTypeOK ==
  /\ scene = "quota" => TypeOK
  /\ scene = "members" => MembershipTypeOK
  /\ scene = "digests" => DigestTypeOK
  /\ scene = "connections" => ConnTypeOK
  /\ scene = "modes" => ModeTypeOK
  /\ scene = "calls" => CallTypeOK
  /\ scene = "searches" => SearchTypeOK
  /\ scene = "messages" => MessagesTypeOK

\* A search for recipes, and every single request to a model, keeps to its
\* budget and to what its answers rest on (modules RecipeSearch and ModelCalls).
RequestsSound ==
  [](CallsSound /\ ExcludedNeverReturned) /\ CeilingStopsCalls /\ AllSourcesAsked
=============================================================================
