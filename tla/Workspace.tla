------------------------------ MODULE Workspace ------------------------------
(***************************************************************************)
(* The Mini App's workspace of one user: cards that the server owns, one      *)
(* action at a time, and the ids by which a client may repeat a request.      *)
(* It lives in memory: an hour without a request or the end of the process    *)
(* takes it away, and its successor has another id.                           *)
(*                                                                          *)
(* A POST is two steps, for the server identifies its user before it has read *)
(* the body and acts after.  What an action does to the pantry is in the      *)
(* other modules; here it shows, edits and deletes cards.  The process holds  *)
(* fewer workspaces than it can; texts, notices and files are left out.       *)
(***************************************************************************)
EXTENDS Naturals, Sequences, SequencesExt, FiniteSets

CONSTANTS Homes,        \* households the user may be a member of
          Calls,        \* request ids of the client
          MaxCards,     \* 100: cards that are kept when an action ends
          MaxRequests,  \* 2000: ids that a workspace remembers
          LastSpace,    \* bound: workspaces opened
          LastCard,     \* bound: cards shown
          LastEdit,     \* bound: revisions of a card
          Vacant

ShownCard == [key : 1..LastCard, edit : 0..LastEdit, home : Homes \cup {Vacant}]

OpenSpace == [id : 1..LastSpace, home : Homes \cup {Vacant},
              cards : Seq(ShownCard), asked : SUBSET Calls]

RunningAction == [call : Calls, home : Homes \cup {Vacant}, live : BOOLEAN]

ClientRequest == [id : 1..LastSpace, card : ShownCard \cup {Vacant}]

ASSUME WorkspaceAssumption ==
  /\ Vacant \notin Homes \cup OpenSpace \cup RunningAction
  /\ MaxCards \in Nat \ {0} /\ MaxRequests \in Nat
  /\ LastSpace \in Nat /\ LastCard \in Nat /\ LastEdit \in Nat

VARIABLES member,    \* the user's household, or Vacant
          space,     \* the workspace, or Vacant
          action,    \* its task, or Vacant
          screen,    \* what the client shows: a workspace's id and cards
          body,      \* [Calls -> a request, or Vacant before it is made]
          reading,   \* SUBSET Calls, whose bodies are being read
          begun,     \* [Calls -> how often the request was begun], for properties
          opened,    \* workspaces opened so far
          shown      \* cards shown so far

spaceVars == <<member, space, action, screen, body, reading, begun, opened, shown>>

SpaceTypeOK ==
  /\ member \in Homes \cup {Vacant}
  /\ space \in OpenSpace \cup {Vacant} /\ action \in RunningAction \cup {Vacant}
  /\ screen \in [id : 0..LastSpace, cards : Seq(ShownCard)]
  /\ body \in [Calls -> ClientRequest \cup {Vacant}]
  /\ reading \subseteq {q \in Calls : body[q] # Vacant}
  /\ begun \in [Calls -> Nat]
  /\ opened \in 0..LastSpace /\ shown \in 0..LastCard

SpaceInit ==
  /\ member \in Homes
  /\ space = Vacant /\ action = Vacant
  /\ screen = [id |-> 0, cards |-> <<>>]
  /\ body = [q \in Calls |-> Vacant] /\ reading = {}
  /\ begun = [q \in Calls |-> 0] /\ opened = 0 /\ shown = 0

Busy == action # Vacant
Screen(s) == [id |-> s.id, cards |-> s.cards]

-----------------------------------------------------------------------------
(* What every request does first.                                           *)

\* The user's workspace; another household than the last time empties it.
NoSpace == space = Vacant
Switched == space # Vacant /\ space.home # member

Emptied(s) == [s EXCEPT !.cards = <<>>, !.home = member]

\* In a new language the receipts among the cards are rendered again.
Rendered(cards, again) ==
  [i \in DOMAIN cards |-> IF cards[i].key \in again /\ cards[i].edit < LastEdit
                          THEN [cards[i] EXCEPT !.edit = @ + 1] ELSE cards[i]]

\* Mutant: the cards are cleared and the action goes on.
GetLeavingAction(again) ==
  /\ NoSpace => opened < LastSpace
  /\ opened' = IF NoSpace THEN opened + 1 ELSE opened
  /\ space' = CASE NoSpace -> [id |-> opened + 1, home |-> member, cards |-> <<>>, asked |-> {}]
                [] Switched -> Emptied(space)
                [] OTHER -> [space EXCEPT !.cards = IF Busy THEN @ ELSE Rendered(@, again)]
  /\ UNCHANGED action

Get(again) ==
  /\ NoSpace => opened < LastSpace
  /\ opened' = IF NoSpace THEN opened + 1 ELSE opened
  /\ space' = CASE NoSpace -> [id |-> opened + 1, home |-> member, cards |-> <<>>, asked |-> {}]
                [] Switched -> Emptied(space)
                [] OTHER -> [space EXCEPT !.cards = IF Busy THEN @ ELSE Rendered(@, again)]
  /\ action' = IF Switched /\ Busy THEN [action EXCEPT !.live = FALSE] ELSE action

WorkspaceState(again) ==
  /\ Get(again)
  /\ screen' = Screen(space')
  /\ UNCHANGED <<member, body, reading, begun, shown>>

-----------------------------------------------------------------------------
(* Requests.                                                                *)

\* The client makes a request from what it shows: a command, or a tap on a card.
Compose(q) ==
  /\ body[q] = Vacant /\ screen.id > 0
  /\ \E card \in Range(screen.cards) \cup {Vacant} :
       body' = [body EXCEPT ![q] = [id |-> screen.id, card |-> card]]
  /\ UNCHANGED <<member, space, action, screen, reading, begun, opened, shown>>

\* It is sent, and sent again with the same id for want of an answer.
Post(q, again) ==
  /\ body[q] # Vacant /\ q \notin reading
  /\ Get(again)
  /\ reading' = reading \cup {q}
  /\ UNCHANGED <<member, screen, body, begun, shown>>

\* Whether submit finds nothing to refuse: the household that somebody without
\* one may join or start is a command, and a tap is on a card as it is now.
Acceptable(q) ==
  /\ ~Busy /\ Cardinality(space.asked) < MaxRequests
  /\ body[q].card = Vacant \/ (space.home # Vacant /\ body[q].card \in Range(space.cards))

Submit(q) ==
  /\ q \in reading /\ reading' = reading \ {q}
  /\ IF body[q].id = space.id /\ q \notin space.asked /\ Acceptable(q)
     THEN /\ space' = [space EXCEPT !.asked = @ \cup {q}]
          /\ action' = [call |-> q, home |-> space.home, live |-> TRUE]
          /\ begun' = [begun EXCEPT ![q] = @ + 1]
     ELSE UNCHANGED <<space, action, begun>>
  /\ screen' = IF body[q].id = space.id /\ q \in space'.asked THEN Screen(space) ELSE screen
  /\ UNCHANGED <<member, body, opened, shown>>

-----------------------------------------------------------------------------
(* The action.                                                              *)

Answer ==
  /\ Busy /\ action.live /\ shown < LastCard
  /\ shown' = shown + 1
  /\ space' = [space EXCEPT !.cards =
                 Append(@, [key |-> shown + 1, edit |-> 0, home |-> action.home])]
  /\ UNCHANGED <<member, action, screen, body, reading, begun, opened>>

\* A card is edited, or deleted; the refinement and the search that an action
\* spawned edit a card that may be gone.
EditText(i) ==
  /\ Busy /\ action.live
  /\ space' = [space EXCEPT !.cards = Rendered(@, {@[i].key})]
  /\ UNCHANGED <<member, action, screen, body, reading, begun, opened, shown>>

Delete(i) ==
  /\ Busy /\ action.live
  /\ space' = [space EXCEPT !.cards = RemoveAt(@, i)]
  /\ UNCHANGED <<member, action, screen, body, reading, begun, opened, shown>>

\* Kept(cards): the oldest give way.
Kept(cards) ==
  IF Len(cards) > MaxCards THEN SubSeq(cards, Len(cards) - MaxCards + 1, Len(cards)) ELSE cards

\* Done, failed, or cancelled: all end alike.
ActionEnds ==
  /\ Busy /\ action' = Vacant
  /\ space' = [space EXCEPT !.cards = Kept(@)]
  /\ UNCHANGED <<member, screen, body, reading, begun, opened, shown>>

-----------------------------------------------------------------------------
(* The world around it.                                                     *)

\* The user leaves, or joins another household, here or at another door.
Moves(home) ==
  /\ home # member /\ member' = home
  /\ UNCHANGED <<space, action, screen, body, reading, begun, opened, shown>>

\* An hour has passed; no request takes that long.
SpaceExpires ==
  /\ space # Vacant /\ ~Busy /\ reading = {}
  /\ space' = Vacant
  /\ UNCHANGED <<member, action, screen, body, reading, begun, opened, shown>>

Close ==
  /\ space # Vacant
  /\ space' = Vacant /\ action' = Vacant /\ reading' = {}
  /\ UNCHANGED <<member, screen, body, begun, opened, shown>>

SpaceNext ==
  \/ \E again \in SUBSET (1..LastCard) :
       WorkspaceState(again) \/ \E q \in Calls : Post(q, again)
  \/ \E q \in Calls : Compose(q) \/ Submit(q)
  \/ Answer \/ ActionEnds
  \/ Busy /\ \E i \in DOMAIN space.cards : EditText(i) \/ Delete(i)
  \/ \E home \in Homes \cup {Vacant} : Moves(home)
  \/ SpaceExpires \/ Close

SpaceSpec == SpaceInit /\ [][SpaceNext]_spaceVars

-----------------------------------------------------------------------------
(* Properties.                                                              *)

\* However often a request is repeated, and whatever becomes of the workspace
\* it was made in, it is begun once.
BegunOnce == \A q \in Calls : begun[q] <= 1

\* "A leave/join must never reveal cards from the previous household": whatever
\* was running when the household changed, the cards in a workspace are of the
\* household it was emptied for.  That may not be the user's any more: somebody
\* who leaves while the body of a request is read is answered from it once more.
CardsOfOneHousehold ==
  space # Vacant => \A card \in Range(space.cards) : card.home = space.home

\* An action without an end yet may show more, but what is kept is bounded.
CardsBounded == space # Vacant /\ ~Busy => Len(space.cards) <= MaxCards

\* The cards an action works on are its own: while it runs, a request of the
\* same user changes none unless it cancels the action.
ActionUndisturbed ==
  [][Busy /\ space # Vacant /\ space' # Vacant /\ action' = action /\ reading' # reading
       => space'.cards = space.cards]_spaceVars

\* A workspace, however its requests, its action and the user's moves overlap.
WorkspaceSound == [](BegunOnce /\ CardsOfOneHousehold /\ CardsBounded) /\ ActionUndisturbed
=============================================================================
