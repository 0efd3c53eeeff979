---------------------------- MODULE LocationEditor ----------------------------
(***************************************************************************)
(* Where the shop is: the address form of the registration, the checklist  *)
(* page that holds pin and address, and the editor it shows, with the      *)
(* positions, address lookups and searches the editor has under way.  The  *)
(* page may hide the editor and show a new one; what the old one has under *)
(* way goes on.                                                            *)
(***************************************************************************)
EXTENDS Integers, FiniteSets

CONSTANTS
  Places,       \* points of the map
  Labels,       \* addresses the map knows
  Label,        \* Label[p]: what the map calls p
  NoPlace,      \* no pin, no label
  MaxMounts,    \* bound: editors the page shows, one after the other
  MaxMoves,     \* bound: things the owner does
  MaxReads      \* bound: status reads under way

ASSUME LocationAssumption ==
  /\ Label \in [Places -> Labels] /\ NoPlace \notin Places \cup Labels
  /\ Labels \cap {"empty", "pinned", "typed", NoPlace} = {}
  /\ NoPlace \notin {"empty", "pinned", "typed"}
  /\ MaxMounts \in Nat \ {0} /\ MaxMoves \in Nat /\ MaxReads \in Nat \ {0}

VARIABLES
  form,      \* the registration, then the pin it left in the browser
  pin, address,  \* the pin and the text of the page
  saved,     \* the shop row
  card,      \* the card of the checklist and its save
  editor,    \* editor[e]: the editors shown so far
  asks,      \* positions the browser is asked for
  looks,     \* addresses asked of the map for a pin
  finds,     \* searches under way
  reads,     \* setup-status requests under way
  strayed,   \* history: a hidden editor has written pin or address of the one shown
  moves      \* bound: things done so far

owned == <<pin, address>>
lookups == <<asks, looks, finds>>
locationVars == <<form, owned, saved, card, editor, lookups, reads, strayed, moves>>

MapPins == Places \cup {NoPlace}
MapLabels == Labels \cup {NoPlace}
Mounts == 1 .. MaxMounts

(* "pinned" is PINNED_LOCATION; one text stands for all the owner may type.    *)
Texts == {"empty", "pinned", "typed"} \cup Labels

-----------------------------------------------------------------------------
(* coords: found at registration.  asked: the browser is asked for a position;*)
(* look: the place whose address is awaited.                                  *)
Forms == [stage: {"register", "loading", "setup"}, coords: MapPins, asked: BOOLEAN, look: MapPins]

Rows == [pin: MapPins, address: Texts]

SaveSteps == {"idle", "sent", "stored", "refresh", "reading"}

(* done: the location step of the last answer; editing: "Review location".     *)
(* body: the last save sent; posts: the saves that have not reached the server.*)
Cards == [done: BOOLEAN, editing: BOOLEAN, step: SaveSteps, body: Rows, posts: SUBSET Rows]

(* auto: lastAuto; label: pinLabel; seq: reverseSeq; detect: detectSeq.  timer: *)
(* the debounced lookup, always of the present seq.  props: what the last      *)
(* rendering of a hidden editor was given.                                     *)
EditorStates ==
  [phase: {"unborn", "shown", "hidden"}, auto: {"pinned"} \cup MapLabels, label: MapLabels,
   seq: Nat, detect: Nat, timer: MapPins, busy: BOOLEAN, searched: BOOLEAN, searching: BOOLEAN,
   results: SUBSET Places, props: [pin: MapPins, address: Texts, done: BOOLEAN]]

Unborn ==
  [phase |-> "unborn", auto |-> NoPlace, label |-> NoPlace, seq |-> 0, detect |-> 0,
   timer |-> NoPlace, busy |-> FALSE, searched |-> FALSE, searching |-> FALSE, results |-> {},
   props |-> [pin |-> NoPlace, address |-> "empty", done |-> FALSE]]

Asks == [ed: Mounts, seq: Nat, exact: BOOLEAN]
Looks == [ed: Mounts, place: Places, seq: Nat]
Finds == [ed: Mounts, nr: 0 .. MaxMoves]
Reads == [refresh: BOOLEAN, done: BOOLEAN]

LocationInit ==
  /\ form = [stage |-> "register", coords |-> NoPlace, asked |-> FALSE, look |-> NoPlace]
  /\ pin = NoPlace /\ address = "empty"
  /\ saved = [pin |-> NoPlace, address |-> "empty"]
  /\ card = [done |-> FALSE, editing |-> FALSE, step |-> "idle", body |-> saved,
             posts |-> {}]
  /\ editor = [e \in Mounts |-> Unborn]
  /\ asks = {} /\ looks = {} /\ finds = {} /\ reads = {}
  /\ strayed = FALSE /\ moves = 0

Moves == moves < MaxMoves /\ moves' = moves + 1

Shown(e) == editor[e].phase = "shown"
Visible == form.stage = "setup" /\ (~card.done \/ card.editing)

(* The refs of a hidden editor keep what it was last rendered with.            *)
Props(e) ==
  IF Shown(e) THEN [pin |-> pin, address |-> address, done |-> card.done] ELSE editor[e].props

(* A hidden editor writes what another one shows. *)
Strays(e) == strayed' = (strayed \/ ~Shown(e))

-----------------------------------------------------------------------------
(* ShopRegister: the position fills the address of the form.                   *)

TypeAtRegister ==
  /\ form.stage = "register" /\ Moves
  /\ \E text \in {"typed", "empty"} : text # address /\ address' = text
  /\ UNCHANGED <<form, pin, saved, card, editor, lookups, reads, strayed>>

LocateAtRegister ==
  /\ form.stage = "register" /\ ~form.asked /\ form.look = NoPlace /\ Moves
  /\ form' = [form EXCEPT !.asked = TRUE]
  /\ UNCHANGED <<owned, saved, card, editor, lookups, reads, strayed>>

RegisterPosition(p) ==
  /\ form.asked
  /\ form' = [form EXCEPT !.asked = FALSE, !.coords = p, !.look = p]
  /\ UNCHANGED <<owned, saved, card, editor, lookups, reads, strayed, moves>>

RegisterNoPosition ==
  /\ form.asked
  /\ form' = [form EXCEPT !.asked = FALSE]
  /\ UNCHANGED <<owned, saved, card, editor, lookups, reads, strayed, moves>>

RegisterLabel(found) ==
  /\ form.look # NoPlace
  /\ address' = IF found THEN Label[form.look] ELSE address
  /\ form' = [form EXCEPT !.look = NoPlace]
  /\ UNCHANGED <<pin, saved, card, editor, lookups, reads, strayed, moves>>

(* The page is left, and with it what it waits for; the coordinates stay.      *)
Register ==
  /\ form.stage = "register" /\ address # "empty"
  /\ saved' = [pin |-> NoPlace, address |-> address]
  /\ form' = [form EXCEPT !.stage = "loading", !.asked = FALSE, !.look = NoPlace]
  /\ UNCHANGED <<owned, card, editor, lookups, reads, strayed, moves>>

(* takeRegisterPin: kept in the browser until it is used. *)
RegisterPin == form.coords

(* ShopSetup loads; without an answer the editor works on an empty page.       *)
LoadShop(answered) ==
  /\ form.stage = "loading"
  /\ form' = [form EXCEPT !.stage = "setup", !.coords = IF answered THEN NoPlace ELSE @]
  /\ pin' = IF answered /\ saved.pin = NoPlace THEN RegisterPin ELSE saved.pin
  /\ address' = IF answered THEN saved.address ELSE "empty"
  /\ card' = [card EXCEPT !.done = saved.pin # NoPlace]
  /\ UNCHANGED <<saved, editor, lookups, reads, strayed, moves>>

-----------------------------------------------------------------------------
(* The editor. *)

(* Fault: lookups are not numbered.                                           *)
FilledUnnumbered(ed, p) == [ed EXCEPT !.label = NoPlace, !.timer = p]

(* fillAddress: an older lookup no longer counts, the new one is debounced.    *)
Filled(ed, p) == [ed EXCEPT !.seq = @ + 1, !.label = NoPlace, !.timer = p]

(* place: the pin moves, and its address is looked up. *)
PutPin(ed, e, p) ==
  /\ pin' = p
  /\ editor' = [editor EXCEPT ![e] = Filled(ed, p)]

(* First-time setup: without a pin the device is asked, with one its address   *)
(* is looked up.                                                               *)
Open(e) ==
  /\ Visible /\ editor[e].phase = "unborn"
  /\ \A o \in Mounts : ~Shown(o) /\ (o < e => editor[o].phase = "hidden")
  /\ LET fresh == [Unborn EXCEPT !.phase = "shown"]
         detecting == [fresh EXCEPT !.busy = TRUE, !.detect = 1]
     IN IF card.done THEN editor' = [editor EXCEPT ![e] = fresh] /\ UNCHANGED asks
        ELSE IF pin = NoPlace
        THEN /\ editor' = [editor EXCEPT ![e] = detecting]
             /\ asks' = asks \cup {[ed |-> e, seq |-> 1, exact |-> TRUE]}
        ELSE editor' = [editor EXCEPT ![e] = Filled(fresh, pin)] /\ UNCHANGED asks
  /\ strayed' = FALSE
  /\ UNCHANGED <<form, owned, saved, card, looks, finds, reads, moves>>

(* The clean-up drops the lookup, not the position asked for.                  *)
Close(e) ==
  /\ Shown(e) /\ ~Visible
  /\ editor' = [editor EXCEPT ![e].phase = "hidden", ![e].props = Props(e),
                              ![e].seq = @ + 1, ![e].timer = NoPlace]
  /\ UNCHANGED <<form, owned, saved, card, lookups, reads, strayed, moves>>

(* A click on the map, or a drag of the pin. *)
PlacePin(e, p) ==
  /\ Shown(e) /\ p # pin /\ Moves
  /\ PutPin(editor[e], e, p)
  /\ UNCHANGED <<form, address, saved, card, lookups, reads, strayed>>

Detect(e) ==
  /\ Shown(e) /\ ~editor[e].busy /\ Moves
  /\ editor' = [editor EXCEPT ![e].busy = TRUE, ![e].detect = @ + 1]
  /\ asks' = asks \cup {[ed |-> e, seq |-> editor[e].detect + 1, exact |-> TRUE]}
  /\ UNCHANGED <<form, owned, saved, card, looks, finds, reads, strayed>>

CancelDetect(e) ==
  /\ Shown(e) /\ editor[e].busy
  /\ editor' = [editor EXCEPT ![e].busy = FALSE, ![e].detect = @ + 1]
  /\ UNCHANGED <<form, owned, saved, card, lookups, reads, strayed, moves>>

Awaited(a) == a.seq = editor[a.ed].detect

(* Cancelled: the answer is dropped. *)
PositionDropped(a) ==
  /\ ~Awaited(a)
  /\ asks' = asks \ {a}
  /\ UNCHANGED <<form, owned, saved, card, editor, looks, finds, reads, strayed, moves>>

PositionArrives(a, p) ==
  /\ Awaited(a)
  /\ asks' = asks \ {a}
  /\ PutPin([editor[a.ed] EXCEPT !.busy = FALSE], a.ed, p)
  /\ Strays(a.ed)
  /\ UNCHANGED <<form, address, saved, card, looks, finds, reads, moves>>

(* Not denied: a coarse position is asked for. *)
PositionCoarser(a) ==
  /\ Awaited(a) /\ a.exact
  /\ asks' = (asks \ {a}) \cup {[a EXCEPT !.exact = FALSE]}
  /\ UNCHANGED <<form, owned, saved, card, editor, looks, finds, reads, strayed, moves>>

(* The one automatic search: for an address typed at sign-up.                  *)
AutoSearches(e) ==
  /\ ~Props(e).done /\ Props(e).pin = NoPlace /\ ~editor[e].searched
  /\ Props(e).address \notin {"empty", "pinned"}

PositionFails(a) ==
  /\ Awaited(a)
  /\ asks' = asks \ {a}
  /\ IF AutoSearches(a.ed)
     THEN /\ editor' = [editor EXCEPT ![a.ed].busy = FALSE, ![a.ed].searched = TRUE,
                                      ![a.ed].searching = TRUE, ![a.ed].results = {}]
          /\ finds' = finds \cup {[ed |-> a.ed, nr |-> 0]}
     ELSE /\ editor' = [editor EXCEPT ![a.ed].busy = FALSE]
          /\ UNCHANGED finds
  /\ UNCHANGED <<form, owned, saved, card, looks, reads, strayed, moves>>

-----------------------------------------------------------------------------
(* Lookups: from the pin to an address. *)

LookUpPin(e) ==
  /\ editor[e].timer # NoPlace
  /\ editor' = [editor EXCEPT ![e].timer = NoPlace]
  /\ looks' = looks \cup {[ed |-> e, place |-> editor[e].timer, seq |-> editor[e].seq]}
  /\ UNCHANGED <<form, owned, saved, card, asks, finds, reads, strayed, moves>>

(* addressIsReplaceable: empty, or filled in by the editor.                    *)
Replaceable(text, auto) == text \in {"empty", "pinned"} \/ text = auto

LookupDropped(l) ==
  /\ l.seq # editor[l.ed].seq
  /\ looks' = looks \ {l}
  /\ UNCHANGED <<form, owned, saved, card, editor, asks, finds, reads, strayed, moves>>

(* reverseLabel: no address for a place without one, a failure or a refusal.   *)
LookupAnswers(l, found) ==
  LET e == l.ed
      label == IF found THEN Label[l.place] ELSE NoPlace
      text == IF found THEN label ELSE "pinned"
  IN /\ l.seq = editor[e].seq
     /\ looks' = looks \ {l}
     /\ IF Replaceable(Props(e).address, editor[e].auto)
        THEN /\ address' = text
             /\ editor' = [editor EXCEPT ![e].label = label, ![e].auto = text]
             /\ Strays(e)
        ELSE /\ editor' = [editor EXCEPT ![e].label = label]
             /\ UNCHANGED <<address, strayed>>
     /\ UNCHANGED <<form, pin, saved, card, asks, finds, reads, moves>>

-----------------------------------------------------------------------------
(* Searches: from a text to places. *)

Search(e) ==
  /\ Shown(e) /\ ~editor[e].searching /\ Moves
  /\ editor' = [editor EXCEPT ![e].searching = TRUE, ![e].results = {}]
  /\ finds' = finds \cup {[ed |-> e, nr |-> moves']}
  /\ UNCHANGED <<form, owned, saved, card, asks, looks, reads, strayed>>

(* dedupePlaces: no two results read the same. *)
Distinct(found) == \A p, q \in found : Label[p] = Label[q] => p = q

(* Searches are not numbered: the last to answer is shown.                     *)
SearchAnswers(f, found) ==
  /\ Distinct(found)
  /\ finds' = finds \ {f}
  /\ editor' = [editor EXCEPT ![f.ed].searching = FALSE, ![f.ed].results = found]
  /\ UNCHANGED <<form, owned, saved, card, asks, looks, reads, strayed, moves>>

SearchFails(f) ==
  /\ finds' = finds \ {f}
  /\ editor' = [editor EXCEPT ![f.ed].searching = FALSE]
  /\ UNCHANGED <<form, owned, saved, card, asks, looks, reads, strayed, moves>>

(* A choice beats any lookup still under way for an earlier pin.               *)
Choose(e, p) ==
  LET chosen == [editor[e] EXCEPT !.seq = @ + 1, !.timer = NoPlace, !.results = {},
                                  !.label = Label[p]]
  IN /\ Shown(e) /\ p \in editor[e].results
     /\ pin' = p
     /\ IF Replaceable(address, editor[e].auto)
        THEN /\ address' = Label[p]
             /\ editor' = [editor EXCEPT ![e] = [chosen EXCEPT !.auto = Label[p]]]
        ELSE /\ editor' = [editor EXCEPT ![e] = chosen]
             /\ UNCHANGED address
     /\ UNCHANGED <<form, saved, card, lookups, reads, strayed, moves>>

TypeAddress(e) ==
  /\ Shown(e) /\ Moves
  /\ \E text \in {"typed", "empty"} : text # address /\ address' = text
  /\ UNCHANGED <<form, pin, saved, card, editor, lookups, reads, strayed>>

-----------------------------------------------------------------------------
(* The card: save, refresh, polls. *)

(* buildLocationSave: a pin alone is saved as a pinned location.               *)
Body == [pin |-> pin, address |-> IF address = "empty" THEN "pinned" ELSE address]

SaveLocation ==
  /\ form.stage = "setup" /\ Visible /\ card.step = "idle" /\ pin # NoPlace /\ Moves
  /\ card' = [card EXCEPT !.step = "sent", !.body = Body, !.posts = @ \cup {Body}]
  /\ UNCHANGED <<form, owned, saved, editor, lookups, reads, strayed>>

StoreLocation(body) ==
  /\ saved' = body
  /\ card' = [card EXCEPT !.step = IF @ = "sent" /\ body = card.body THEN "stored" ELSE @,
                          !.posts = @ \ {body}]
  /\ UNCHANGED <<form, owned, editor, lookups, reads, strayed, moves>>

SaveAnswered ==
  /\ card.step = "stored"
  /\ card' = [card EXCEPT !.step = "refresh", !.editing = FALSE]
  /\ UNCHANGED <<form, owned, saved, editor, lookups, reads, strayed, moves>>

(* A save that failed for the page may still reach the server. *)
SaveFails(arrives) ==
  /\ card.step \in {"sent", "stored"}
  /\ card' = [card EXCEPT !.step = "idle", !.posts = IF arrives THEN @ ELSE @ \ {card.body}]
  /\ UNCHANGED <<form, owned, saved, editor, lookups, reads, strayed, moves>>

Status(refresh) == [refresh |-> refresh, done |-> saved.pin # NoPlace]

Refresh ==
  /\ card.step = "refresh"
  /\ card' = [card EXCEPT !.step = "reading"]
  /\ reads' = reads \cup {Status(TRUE)}
  /\ UNCHANGED <<form, owned, saved, editor, lookups, strayed, moves>>

(* Fault: the page polls no more. *)
NoPoll == FALSE

(* The page polls until the shop is ready, which takes more than a location.   *)
PollStatus ==
  /\ form.stage = "setup" /\ Status(FALSE) \notin reads
  /\ Cardinality(reads) < MaxReads
  /\ reads' = reads \cup {Status(FALSE)}
  /\ UNCHANGED <<form, owned, saved, card, editor, lookups, strayed, moves>>

ReadArrives(r) ==
  /\ reads' = reads \ {r}
  /\ card' = [card EXCEPT !.done = r.done, !.step = IF r.refresh THEN "idle" ELSE @]
  /\ UNCHANGED <<form, owned, saved, editor, lookups, strayed, moves>>

ReadFails(r) ==
  /\ reads' = reads \ {r}
  /\ card' = [card EXCEPT !.step = IF r.refresh THEN "idle" ELSE @]
  /\ UNCHANGED <<form, owned, saved, editor, lookups, strayed, moves>>

ReviewLocation ==
  /\ form.stage = "setup" /\ card.done /\ ~card.editing /\ Moves
  /\ card' = [card EXCEPT !.editing = TRUE]
  /\ UNCHANGED <<form, owned, saved, editor, lookups, reads, strayed>>

-----------------------------------------------------------------------------
AtRegister ==
  \/ TypeAtRegister \/ LocateAtRegister \/ RegisterNoPosition \/ Register
  \/ \E p \in Places : RegisterPosition(p)
  \/ \E b \in BOOLEAN : RegisterLabel(b) \/ LoadShop(b)

InEditor(e) ==
  \/ Open(e) \/ Close(e) \/ Detect(e) \/ CancelDetect(e) \/ LookUpPin(e) \/ Search(e)
  \/ TypeAddress(e)
  \/ \E p \in Places : PlacePin(e, p) \/ Choose(e, p)

Answers ==
  \/ \E a \in asks :
       \/ PositionDropped(a) \/ PositionCoarser(a) \/ PositionFails(a)
       \/ \E p \in Places : PositionArrives(a, p)
  \/ \E l \in looks : LookupDropped(l) \/ \E b \in BOOLEAN : LookupAnswers(l, b)
  \/ \E f \in finds : SearchFails(f) \/ \E found \in SUBSET Places : SearchAnswers(f, found)

OnCard ==
  \/ SaveLocation \/ SaveAnswered \/ Refresh \/ PollStatus
  \/ \E body \in card.posts : StoreLocation(body)
  \/ \E arrives \in BOOLEAN : SaveFails(arrives)
  \/ ReviewLocation
  \/ \E r \in reads : ReadArrives(r) \/ ReadFails(r)

LocationNext ==
  \/ AtRegister
  \/ \E e \in Mounts : InEditor(e)
  \/ Answers
  \/ OnCard

LocationSpec == LocationInit /\ [][LocationNext]_locationVars

(* The page polls every eight seconds, and not every read fails.               *)
LocationFairness ==
  /\ WF_locationVars(~card.done /\ PollStatus)
  /\ WF_locationVars(Refresh)
  /\ SF_locationVars(\E r \in reads : r.done /\ ReadArrives(r))

-----------------------------------------------------------------------------
LocationTypeOK ==
  /\ form \in Forms /\ pin \in MapPins /\ address \in Texts
  /\ saved \in Rows /\ card \in Cards /\ editor \in [Mounts -> EditorStates]
  /\ asks \subseteq Asks /\ looks \subseteq Looks /\ finds \subseteq Finds
  /\ reads \subseteq Reads /\ strayed \in BOOLEAN /\ moves \in 0 .. MaxMoves

(* What the map calls the pin is said of the pin on show.                     *)
LabelIsOfPin ==
  \A e \in Mounts : Shown(e) /\ ~strayed /\ editor[e].label # NoPlace =>
    pin # NoPlace /\ editor[e].label = Label[pin]

(* Once no lookup is under way, the address the editor filled in is that of   *)
(* the pin, or says that there is none.                                       *)
LookupPending(e) ==
  editor[e].timer # NoPlace \/ \E l \in looks : l.ed = e /\ l.seq = editor[e].seq

AddressFollowsPin ==
  \A e \in Mounts :
    /\ Shown(e) /\ ~strayed /\ ~LookupPending(e)
    /\ address = editor[e].auto
    => address = "pinned" \/ (pin # NoPlace /\ address = Label[pin])

(* However late or out of order lookups, positions and choices come, neither  *)
(* the label nor the address of an earlier pin stays beside a later one       *)
(* (ShopLocationEditor.tsx: reverseSeq, runReverse, choose).                  *)
EditorFollowsPin == LabelIsOfPin /\ AddressFollowsPin

(* What the owner typed on the page stays until the owner changes it, unless  *)
(* an editor that was hidden with a position still asked for writes over it   *)
(* (geocode.ts:81).                                                           *)
TypedStaysButForStrays ==
  [][form.stage = "setup" /\ address = "typed" /\ ~strayed' => address' \in {"typed", "empty"}]_locationVars

(* A saved location shows as done, though refreshes fail and answers of older *)
(* polls come late (ShopSetup.tsx: refresh, setupPolling.ts).                  *)
SavedLocationShows == saved.pin # NoPlace ~> card.done

-----------------------------------------------------------------------------
(* What comments in the code say. *)

(* "An address may be overwritten by a lookup only while it is empty or       *)
(* machine-filled." (geocode.ts:81)                                           *)
TypedAddressStays ==
  [][form.stage = "setup" /\ address = "typed" => address' \in {"typed", "empty"}]_locationVars
=============================================================================
