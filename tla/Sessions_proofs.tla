---------------------------- MODULE Sessions_proofs ----------------------------
(***************************************************************************)
(* For every number of browsers, tabs, requests, codes and attempts:       *)
(* SessionInvariant is inductive, and with it the four promises of         *)
(* Sessions hold in every reachable state.                                 *)
(***************************************************************************)
EXTENDS Sessions, FiniteSetTheorems, TLAPS

USE SessionAssumption

-----------------------------------------------------------------------------
(* The inductive invariant. *)

(* A token knows the password it was issued for as long as its version is the *)
(* one of the account; a version never comes back.                            *)
Fresh(tok) ==
  /\ tok.version <= acct.version
  /\ tok.version = acct.version => tok.secret = acct.secret

(* Every token of a shop user, in a browser or on its way to one; a shop user *)
(* has no trusted device, so nothing renews a token of theirs.                *)
TokensAreFresh ==
  role = "shop" =>
    /\ device = {} /\ renewal = {}
    /\ \A b \in Browsers :
         /\ SignedIn(b) => Fresh(token[b])
         /\ signin[b] # NoValue /\ signin[b].step # "sent" => Fresh(signin[b].token)

(* Confirmations that claimed an attempt at a code and have not compared yet. *)
Comparing(k) ==
  {r \in Confirms : confirm[r] # NoValue /\ confirm[r].step = "claimed" /\ confirm[r].code = k}

(* Each comparison was paid for with an attempt; a code that worked is used.  *)
CodesAreCounted ==
  \A k \in CodeNumbers :
    /\ code[k].effects = IF code[k].state = "used" THEN 1 ELSE 0
    /\ code[k].checked + Cardinality(Comparing(k)) <= code[k].tries

(* Sign-ins that may still prove wrong or have yet to give their slot back.   *)
Looking == {b \in Browsers : signin[b] # NoValue /\ signin[b].step # "answered"}

(* Each of them, and each wrong PIN, holds a slot of this window or came from *)
(* the one before.                                                            *)
SlotsAreCounted ==
  IF role = "shop"
  THEN /\ brake.wrong + Cardinality(Looking) <= brake.count + brake.strays
       /\ brake.wrong + Cardinality(Looking) <= MaxPins + brake.strays
  ELSE /\ brake.wrong = 0
       /\ \A b \in Browsers : signin[b] # NoValue => signin[b].step # "sent"

(* Nothing that could bring a token back is left in a browser signed out.     *)
NothingRenews ==
  /\ leaving \cap device = {}
  /\ \A b \in Browsers : out[b] = "out" =>
       /\ ~SignedIn(b) /\ b \notin device
       /\ \A t \in renewal : BrowserOf[t] # b

SessionInvariant ==
  SessionsTypeOK /\ TokensAreFresh /\ CodesAreCounted /\ SlotsAreCounted /\ NothingRenews
-----------------------------------------------------------------------------
(* Types. *)

(* A new token has the type of one.                                           *)
LEMMA NewTokenType ==
  ASSUME SessionsTypeOK, issued < MaxTokens, NEW s \in 1 .. MaxSecrets
  PROVE  NewToken(acct.version, s) \in Tokens /\ NewToken(0, s) \in Tokens
  BY DEF SessionsTypeOK, NewToken, Tokens, Accounts

(* Writing one column keeps the type of a row.                                *)
LEMMA RowWrites ==
  /\ \A row \in CodeRows, x \in {"none", "open", "used", "expired"} :
       [row EXCEPT !.state = x] \in CodeRows
  /\ \A row \in CodeRows, x \in BOOLEAN : [row EXCEPT !.recent = x] \in CodeRows
  /\ \A row \in CodeRows, x \in 0 .. MaxAttempts : [row EXCEPT !.tries = x] \in CodeRows
  /\ \A row \in CodeRows, x \in Nat : [row EXCEPT !.checked = x] \in CodeRows
  /\ \A row \in CodeRows, x \in Nat : [row EXCEPT !.effects = x] \in CodeRows
  /\ \A row \in Brakes, x \in Int : [row EXCEPT !.count = x] \in Brakes
  /\ \A row \in Brakes, x \in BOOLEAN : [row EXCEPT !.open = x] \in Brakes
  /\ \A row \in Brakes, x \in Nat : [row EXCEPT !.wrong = x] \in Brakes
<1>1. /\ \A row \in CodeRows, x \in {"none", "open", "used", "expired"} :
           [row EXCEPT !.state = x] \in CodeRows
      /\ \A row \in CodeRows, x \in BOOLEAN : [row EXCEPT !.recent = x] \in CodeRows
      /\ \A row \in CodeRows, x \in 0 .. MaxAttempts : [row EXCEPT !.tries = x] \in CodeRows
      /\ \A row \in CodeRows, x \in Nat : [row EXCEPT !.checked = x] \in CodeRows
      /\ \A row \in CodeRows, x \in Nat : [row EXCEPT !.effects = x] \in CodeRows
  BY DEF CodeRows
<1>2. /\ \A row \in Brakes, x \in Int : [row EXCEPT !.count = x] \in Brakes
      /\ \A row \in Brakes, x \in BOOLEAN : [row EXCEPT !.open = x] \in Brakes
      /\ \A row \in Brakes, x \in Nat : [row EXCEPT !.wrong = x] \in Brakes
  BY DEF Brakes
<1> QED
  BY <1>1, <1>2

(* What a sign-in may become, from its parts.                                 *)
LEMMA SignInWrites ==
  /\ \A s \in 1 .. MaxSecrets : [step |-> "sent", secret |-> s] \in SignIns
  /\ \A tok \in Tokens : [step |-> "granted", token |-> tok] \in SignIns
  /\ \A x \in SignIns : x.step # "sent" =>
       /\ x.step \in {"granted", "answered"} /\ x.token \in Tokens
       /\ [x EXCEPT !.step = "answered"] \in SignIns
       /\ [x EXCEPT !.step = "answered"].token = x.token
       /\ [x EXCEPT !.step = "answered"].step = "answered"
  /\ \A x \in SignIns : x.step = "sent" => x.secret \in 1 .. MaxSecrets
  BY DEF SignIns

(* Writing one column of a request or of a confirmation.                      *)
LEMMA CallWrites ==
  /\ \A x \in TabCalls, y \in {"sent", "served", "refused", "waiting"} :
       [x EXCEPT !.step = y] \in TabCalls
  /\ \A x \in TabCalls, y \in BOOLEAN : [x EXCEPT !.retry = y] \in TabCalls
  /\ \A x \in TabCalls, y \in Tokens : [x EXCEPT !.token = y] \in TabCalls
  /\ \A x \in Confirmations, y \in {"found", "claimed", "right"} :
       [x EXCEPT !.step = y] \in Confirmations
  BY DEF TabCalls, Confirmations

(* Signing in: each action writes the sign-in of a browser, the brake, the    *)
(* number of tokens.                                                          *)
LEMMA SignInTypes ==
  ASSUME SessionsTypeOK, NEW b \in Browsers,
         \/ \E s \in 1 .. MaxSecrets : SubmitPin(b, s)
         \/ CheckPin(b) \/ ReturnSlot(b) \/ ResumeSession(b) \/ VerifyNumber(b)
         \/ SignInArrives(b)
  PROVE  SessionsTypeOK'
<1> USE DEF server, codes, client
<1>1. acct.version \in Nat /\ acct.secret \in 1 .. MaxSecrets /\ 1 \in 1 .. MaxSecrets
  BY DEF SessionsTypeOK, Accounts
<1>2. brake \in Brakes /\ brake.count \in Int /\ brake.wrong \in Nat
  BY DEF SessionsTypeOK, Brakes
<1>3. signin \in [Browsers -> SignIns \cup {NoValue}]
  BY DEF SessionsTypeOK
<1>4. ASSUME NEW s \in 1 .. MaxSecrets, SubmitPin(b, s) PROVE SessionsTypeOK'
  <2> DEFINE counted == [brake EXCEPT !.count = brake.count + 1]
  <2>1. counted \in Brakes
    BY <1>2, RowWrites
  <2>2. [counted EXCEPT !.open = TRUE] \in Brakes
    BY <2>1, RowWrites
  <2>3. brake' \in Brakes
    BY <1>4, <2>2 DEF SubmitPin
  <2>4. signin' \in [Browsers -> SignIns \cup {NoValue}]
    BY <1>3, <1>4, SignInWrites DEF SubmitPin
  <2> QED
    BY <1>4, <2>3, <2>4 DEF SessionsTypeOK, SubmitPin
<1>5. CASE CheckPin(b)
  <2>1. CASE acct.exists /\ acct.secret = signin[b].secret
    <3>1. signin' \in [Browsers -> SignIns \cup {NoValue}] /\ issued' \in 0 .. MaxTokens
      <4>1. issued < MaxTokens
        BY <1>5, <2>1 DEF CheckPin
      <4>2. [step |-> "granted", token |-> NewToken(acct.version, acct.secret)] \in SignIns
        BY <1>1, <4>1, NewTokenType, SignInWrites
      <4> QED
        BY <1>3, <1>5, <2>1, <4>1, <4>2 DEF CheckPin, SessionsTypeOK
    <3> QED
      BY <1>5, <2>1, <3>1 DEF SessionsTypeOK, CheckPin
  <2>2. CASE ~(acct.exists /\ acct.secret = signin[b].secret)
    <3>1. brake' \in Brakes
      BY <1>2, <1>5, <2>2, RowWrites DEF CheckPin
    <3>2. signin' \in [Browsers -> SignIns \cup {NoValue}]
      BY <1>3, <1>5, <2>2 DEF CheckPin
    <3> QED
      BY <1>5, <2>2, <3>1, <3>2 DEF SessionsTypeOK, CheckPin
  <2> QED
    BY <2>1, <2>2
<1>6. CASE ReturnSlot(b)
  <2>1. signin[b] \in SignIns /\ signin[b].step # "sent"
    BY <1>3, <1>6 DEF ReturnSlot
  <2>2. signin' \in [Browsers -> SignIns \cup {NoValue}]
    BY <1>3, <1>6, <2>1, SignInWrites DEF ReturnSlot
  <2>3. brake' \in Brakes
    BY <1>2, <1>6, RowWrites DEF ReturnSlot
  <2> QED
    BY <1>6, <2>2, <2>3 DEF SessionsTypeOK, ReturnSlot
<1>7. CASE ResumeSession(b) \/ VerifyNumber(b)
  <2>1. LoginWithFirebase(b)
    BY <1>7 DEF ResumeSession, VerifyNumber
  <2>2. issued < MaxTokens
    BY <2>1 DEF LoginWithFirebase
  <2>3. [step |-> "granted", token |-> NewToken(acct.version, 1)] \in SignIns
    BY <1>1, <2>2, NewTokenType, SignInWrites
  <2>4. signin' \in [Browsers -> SignIns \cup {NoValue}] /\ issued' \in 0 .. MaxTokens
    BY <1>3, <2>1, <2>2, <2>3 DEF LoginWithFirebase, SessionsTypeOK
  <2>5. device' \subseteq Browsers
    BY <1>7 DEF ResumeSession, VerifyNumber, SessionsTypeOK
  <2> QED
    BY <2>1, <2>4, <2>5 DEF SessionsTypeOK, LoginWithFirebase
<1>8. CASE SignInArrives(b)
  <2>1. signin[b] \in SignIns /\ signin[b].step # "sent"
    BY <1>3, <1>8 DEF SignInArrives
  <2>2. token' \in [Browsers -> Tokens \cup {NoValue}]
    BY <1>8, <2>1, SignInWrites DEF SignInArrives, SessionsTypeOK
  <2>3. signin' \in [Browsers -> SignIns \cup {NoValue}]
    BY <1>3, <1>8 DEF SignInArrives
  <2> QED
    BY <1>8, <2>2, <2>3 DEF SessionsTypeOK, SignInArrives
<1> QED
  BY <1>4, <1>5, <1>6, <1>7, <1>8

(* The codes and their confirmations.                                         *)
LEMMA CodeTypes ==
  ASSUME SessionsTypeOK,
         \/ AskForCode \/ CreateCode
         \/ \E k \in CodeNumbers : MinutePasses(k) \/ CodeExpires(k)
         \/ \E r \in Confirms :
              \/ FindCode(r) \/ ClaimAttempt(r) \/ ResetPassword(r) \/ VerifyOtp(r)
              \/ \E right \in BOOLEAN : CompareCode(r, right)
  PROVE  SessionsTypeOK'
<1> USE DEF server, codes, client
<1>1. code \in [CodeNumbers -> CodeRows]
  BY DEF SessionsTypeOK
<1>2. \A k \in CodeNumbers : /\ code[k] \in CodeRows /\ code[k].tries \in 0 .. MaxAttempts
                             /\ code[k].checked \in Nat /\ code[k].effects \in Nat
  BY <1>1 DEF CodeRows
<1>3. /\ confirm \in [Confirms -> Confirmations \cup {NoValue}]
      /\ \A r \in Confirms : confirm[r] # NoValue =>
           /\ confirm[r] \in Confirmations
           /\ confirm[r].code \in CodeNumbers /\ confirm[r].browser \in Browsers
  BY DEF SessionsTypeOK, Confirmations
<1>4. CASE AskForCode
  BY <1>4 DEF SessionsTypeOK, AskForCode
<1>5. CASE CreateCode
  <2>1. asking' \in Nat
    BY <1>5 DEF CreateCode, SessionsTypeOK
  <2>2. PICK k \in CodeNumbers :
          code' = [code EXCEPT ![k].state = "open", ![k].recent = TRUE]
    BY <1>5 DEF CreateCode
  <2>3. [code[k] EXCEPT !.state = "open"] \in CodeRows
    BY <1>2, RowWrites
  <2>4. [[code[k] EXCEPT !.state = "open"] EXCEPT !.recent = TRUE] \in CodeRows
    BY <2>3, RowWrites
  <2>5. code' \in [CodeNumbers -> CodeRows]
    BY <1>1, <2>2, <2>4
  <2> QED
    BY <1>5, <2>1, <2>5 DEF SessionsTypeOK, CreateCode
<1>6. ASSUME NEW k \in CodeNumbers, MinutePasses(k) \/ CodeExpires(k) PROVE SessionsTypeOK'
  <2>1. [code[k] EXCEPT !.recent = FALSE] \in CodeRows /\ [code[k] EXCEPT !.state = "expired"] \in CodeRows
    BY <1>2, RowWrites
  <2>2. code' \in [CodeNumbers -> CodeRows]
    BY <1>1, <1>6, <2>1 DEF MinutePasses, CodeExpires
  <2> QED
    BY <1>6, <2>2 DEF SessionsTypeOK, MinutePasses, CodeExpires
<1>7. ASSUME NEW r \in Confirms, FindCode(r) PROVE SessionsTypeOK'
  <2>1. PICK k \in Newest, b \in Browsers :
          confirm' = [confirm EXCEPT ![r] = [code |-> k, browser |-> b, step |-> "found"]]
    BY <1>7 DEF FindCode
  <2>2. [code |-> k, browser |-> b, step |-> "found"] \in Confirmations
    BY DEF Newest, Confirmations
  <2>3. confirm' \in [Confirms -> Confirmations \cup {NoValue}]
    BY <1>3, <2>1, <2>2
  <2> QED
    BY <1>7, <2>3 DEF SessionsTypeOK, FindCode
<1>8. ASSUME NEW r \in Confirms, confirm[r] # NoValue, NEW y \in {"claimed", "right"}
      PROVE  /\ [confirm EXCEPT ![r].step = y] \in [Confirms -> Confirmations \cup {NoValue}]
             /\ [confirm EXCEPT ![r] = NoValue] \in [Confirms -> Confirmations \cup {NoValue}]
  BY <1>3, <1>8, CallWrites
<1>9. ASSUME NEW r \in Confirms, ClaimAttempt(r) PROVE SessionsTypeOK'
  <2>1. confirm' \in [Confirms -> Confirmations \cup {NoValue}]
    BY <1>8, <1>9 DEF ClaimAttempt
  <2>2. code' \in [CodeNumbers -> CodeRows]
    <3> DEFINE k == confirm[r].code
    <3>1. k \in CodeNumbers
      BY <1>3, <1>9 DEF ClaimAttempt
    <3>2. CASE code[k].state # "used" /\ code[k].tries < MaxAttempts
      <4>1. code[k].tries + 1 \in 0 .. MaxAttempts
        BY <1>2, <3>1, <3>2
      <4>2. [code[k] EXCEPT !.tries = code[k].tries + 1] \in CodeRows
        BY <1>2, <3>1, <4>1, RowWrites
      <4>3. code' = [code EXCEPT ![k] = [code[k] EXCEPT !.tries = code[k].tries + 1]]
        BY <1>9, <3>2 DEF ClaimAttempt
      <4> QED
        BY <1>1, <4>2, <4>3
    <3>3. CASE ~(code[k].state # "used" /\ code[k].tries < MaxAttempts)
      BY <1>1, <1>9, <3>3 DEF ClaimAttempt
    <3> QED
      BY <3>2, <3>3
  <2> QED
    BY <1>9, <2>1, <2>2 DEF SessionsTypeOK, ClaimAttempt
<1>10. ASSUME NEW r \in Confirms, NEW right \in BOOLEAN, CompareCode(r, right) PROVE SessionsTypeOK'
  <2> DEFINE k == confirm[r].code
  <2>1. k \in CodeNumbers
    BY <1>3, <1>10 DEF CompareCode
  <2>2. [code[k] EXCEPT !.checked = code[k].checked + 1] \in CodeRows
    <3>1. code[k].checked + 1 \in Nat
      BY <1>2, <2>1
    <3>2. code[k] \in CodeRows
      BY <1>1, <2>1
    <3> HIDE DEF k
    <3> QED
      BY <3>1, <3>2, RowWrites
  <2>3. code' = [code EXCEPT ![k] = [code[k] EXCEPT !.checked = code[k].checked + 1]]
    BY <1>10 DEF CompareCode
  <2>4. code' \in [CodeNumbers -> CodeRows]
    BY <1>1, <2>2, <2>3
  <2>5. confirm' \in [Confirms -> Confirmations \cup {NoValue}]
    BY <1>8, <1>10 DEF CompareCode
  <2> QED
    BY <1>10, <2>4, <2>5 DEF SessionsTypeOK, CompareCode
<1>11. ASSUME NEW k \in CodeNumbers PROVE Consumed(k) \in [CodeNumbers -> CodeRows]
  <2>1. [code[k] EXCEPT !.state = "used"] \in CodeRows
    BY <1>2, RowWrites
  <2>2. [[code[k] EXCEPT !.state = "used"] EXCEPT !.effects = code[k].effects + 1] \in CodeRows
    <3>1. code[k].effects + 1 \in Nat
      BY <1>2
    <3> QED
      BY <2>1, <3>1, RowWrites
  <2>3. Consumed(k) = [code EXCEPT ![k] = [[code[k] EXCEPT !.state = "used"]
                                             EXCEPT !.effects = code[k].effects + 1]]
    BY <1>1, <1>2 DEF Consumed, CodeRows
  <2> QED
    BY <1>1, <2>2, <2>3
<1>12. ASSUME NEW r \in Confirms, ResetPassword(r) PROVE SessionsTypeOK'
  <2>1. confirm' \in [Confirms -> Confirmations \cup {NoValue}]
    BY <1>8, <1>12 DEF ResetPassword
  <2>2. code' \in [CodeNumbers -> CodeRows]
    BY <1>1, <1>3, <1>11, <1>12 DEF ResetPassword
  <2>3. acct' \in Accounts
    <3>1. CASE Consumable(confirm[r].code) /\ acct.exists
      <4>1. acct.secret + 1 \in 1 .. MaxSecrets /\ acct.version + 1 \in Nat
        BY <1>12, <3>1 DEF ResetPassword, SessionsTypeOK, Accounts
      <4>2. acct' = [acct EXCEPT !.secret = acct.secret + 1, !.version = acct.version + 1]
        BY <1>12, <3>1 DEF ResetPassword
      <4> QED
        BY <4>1, <4>2 DEF SessionsTypeOK, Accounts
    <3>2. CASE ~(Consumable(confirm[r].code) /\ acct.exists)
      BY <1>12, <3>2 DEF ResetPassword, SessionsTypeOK
    <3> QED
      BY <3>1, <3>2
  <2> QED
    BY <1>12, <2>1, <2>2, <2>3 DEF SessionsTypeOK, ResetPassword
<1>13. ASSUME NEW r \in Confirms, VerifyOtp(r) PROVE SessionsTypeOK'
  <2>1. confirm' \in [Confirms -> Confirmations \cup {NoValue}]
    BY <1>8, <1>13 DEF VerifyOtp
  <2>2. CASE Consumable(confirm[r].code)
    <3>1. code' \in [CodeNumbers -> CodeRows]
      BY <1>3, <1>11, <1>13, <2>2 DEF VerifyOtp
    <3>2. issued < MaxTokens /\ issued' = issued + 1
      BY <1>13, <2>2 DEF VerifyOtp
    <3>3. 1 \in 1 .. MaxSecrets
      OBVIOUS
    <3>4. [step |-> "granted", token |-> NewToken(0, 1)] \in SignIns
      BY <3>2, <3>3, NewTokenType, SignInWrites
    <3>5. signin' \in [Browsers -> SignIns \cup {NoValue}]
      BY <1>13, <2>2, <3>4 DEF VerifyOtp, SessionsTypeOK
    <3>6. issued' \in 0 .. MaxTokens
      BY <3>2 DEF SessionsTypeOK
    <3> QED
      BY <1>13, <2>1, <3>1, <3>5, <3>6 DEF SessionsTypeOK, VerifyOtp
  <2>3. CASE ~Consumable(confirm[r].code)
    BY <1>13, <2>1, <2>3 DEF SessionsTypeOK, VerifyOtp
  <2> QED
    BY <2>2, <2>3
<1> QED
  BY <1>4, <1>5, <1>6, <1>7, <1>9, <1>10, <1>12, <1>13

(* The requests of the tabs, and what they do to the storage of the browser.  *)
LEMMA ClientTypes ==
  ASSUME SessionsTypeOK,
         \/ \E c \in Calls :
              \/ \E t \in Tabs, kind \in {"plain", "logout"} : Send(c, t, kind)
              \/ Answer(c) \/ AskRenewal(c) \/ Refused(c)
              \/ \E ok \in BOOLEAN : Done(c, ok)
         \/ \E t \in Tabs : Renewed(t) \/ RenewalFails(t) \/ SocketRefused(t)
  PROVE  SessionsTypeOK'
<1> USE DEF server, codes, client
<1>1. /\ token \in [Browsers -> Tokens \cup {NoValue}]
      /\ call \in [Calls -> TabCalls \cup {NoValue}]
  BY DEF SessionsTypeOK
<1>2. \A b \in Browsers : Forgotten(b) \in [Browsers -> Tokens \cup {NoValue}]
  BY <1>1 DEF Forgotten
<1>3. \A c \in Calls : call[c] # NoValue => call[c] \in TabCalls /\ call[c].tab \in Tabs
  BY <1>1 DEF TabCalls
<1>4. ASSUME NEW c \in Calls, NEW t \in Tabs, NEW kind \in {"plain", "logout"}, Send(c, t, kind)
      PROVE  SessionsTypeOK'
  <2>1. token[BrowserOf[t]] \in Tokens
    BY <1>1, <1>4 DEF Send, SignedIn
  <2>2. Request(t, kind) \in TabCalls
    BY <2>1 DEF Request, TabCalls
  <2>3. call' \in [Calls -> TabCalls \cup {NoValue}]
    BY <1>1, <1>4, <2>2 DEF Send
  <2> QED
    BY <1>4, <2>3 DEF SessionsTypeOK, Send
<1>5. ASSUME NEW c \in Calls, call[c] # NoValue, NEW y \in {"sent", "served", "refused", "waiting"}
      PROVE  /\ [call EXCEPT ![c].step = y] \in [Calls -> TabCalls \cup {NoValue}]
             /\ [call EXCEPT ![c] = NoValue] \in [Calls -> TabCalls \cup {NoValue}]
  BY <1>1, <1>3, <1>5, CallWrites
<1>6. ASSUME NEW c \in Calls, Answer(c) PROVE SessionsTypeOK'
  <2>1. call' \in [Calls -> TabCalls \cup {NoValue}]
    BY <1>5, <1>6 DEF Answer
  <2>2. acct' \in Accounts
    BY <1>6 DEF Answer, SessionsTypeOK, Accounts
  <2> QED
    BY <1>6, <2>1, <2>2 DEF SessionsTypeOK, Answer
<1>7. ASSUME NEW c \in Calls, AskRenewal(c) PROVE SessionsTypeOK'
  <2>1. call' \in [Calls -> TabCalls \cup {NoValue}] /\ renewal' \subseteq Tabs
    BY <1>3, <1>5, <1>7 DEF AskRenewal, SessionsTypeOK
  <2> QED
    BY <1>7, <2>1 DEF SessionsTypeOK, AskRenewal
<1>8. ASSUME NEW c \in Calls, NEW ok \in BOOLEAN, Refused(c) \/ Done(c, ok) PROVE SessionsTypeOK'
  <2>1. BrowserOf[call[c].tab] \in Browsers
    BY <1>3, <1>8 DEF Refused, Done
  <2>2. call' \in [Calls -> TabCalls \cup {NoValue}]
    BY <1>5, <1>8 DEF Refused, Done
  <2>3. token' \in [Browsers -> Tokens \cup {NoValue}]
    BY <1>1, <1>2, <1>8, <2>1 DEF Refused, Done
  <2> QED
    BY <1>8, <2>2, <2>3 DEF SessionsTypeOK, Refused, Done
<1>9. ASSUME NEW t \in Tabs, Renewed(t) PROVE SessionsTypeOK'
  <2> DEFINE new == NewToken(acct.version, 1)
  <2>1. issued < MaxTokens /\ issued' = issued + 1
    BY <1>9 DEF Renewed
  <2>2. new \in Tokens
    <3>1. 1 \in 1 .. MaxSecrets
      OBVIOUS
    <3> QED
      BY <2>1, <3>1, NewTokenType
  <2> HIDE DEF new
  <2>3. token' \in [Browsers -> Tokens \cup {NoValue}]
    BY <1>1, <1>9, <2>2 DEF Renewed, new
  <2>4. ASSUME NEW c \in Waiting(t)
        PROVE [call[c] EXCEPT !.step = "sent", !.retry = FALSE, !.token = new] \in TabCalls
    <3>1. call[c] \in TabCalls
      BY <1>3, <2>4 DEF Waiting
    <3>2. [call[c] EXCEPT !.step = "sent"] \in TabCalls
      BY <3>1, CallWrites
    <3>3. [[call[c] EXCEPT !.step = "sent"] EXCEPT !.retry = FALSE] \in TabCalls
      BY <3>2, CallWrites
    <3>4. [[[call[c] EXCEPT !.step = "sent"] EXCEPT !.retry = FALSE] EXCEPT !.token = new] \in TabCalls
      BY <2>2, <3>3, CallWrites
    <3> QED
      BY <3>4
  <2>5. call' = [c \in Calls |-> IF c \in Waiting(t)
                   THEN [call[c] EXCEPT !.step = "sent", !.retry = FALSE, !.token = new]
                   ELSE call[c]]
    BY <1>9 DEF Renewed, new
  <2>6. call' \in [Calls -> TabCalls \cup {NoValue}]
    BY <1>1, <2>4, <2>5
  <2>7. issued' \in 0 .. MaxTokens
    BY <2>1 DEF SessionsTypeOK
  <2> QED
    BY <1>9, <2>3, <2>6, <2>7 DEF SessionsTypeOK, Renewed
<1>10. ASSUME NEW t \in Tabs, RenewalFails(t) PROVE SessionsTypeOK'
  <2>1. token' \in [Browsers -> Tokens \cup {NoValue}]
    BY <1>1, <1>2, <1>10 DEF RenewalFails
  <2>2. call' \in [Calls -> TabCalls \cup {NoValue}]
    BY <1>1, <1>10 DEF RenewalFails
  <2> QED
    BY <1>10, <2>1, <2>2 DEF SessionsTypeOK, RenewalFails
<1>11. ASSUME NEW t \in Tabs, SocketRefused(t) PROVE SessionsTypeOK'
  BY <1>11 DEF SessionsTypeOK, SocketRefused
<1> QED
  BY <1>4, <1>6, <1>7, <1>8, <1>9, <1>10, <1>11

(* Every step keeps the types. *)
LEMMA TypeInductive == ASSUME SessionsTypeOK, [SessionsNext]_sessionVars PROVE SessionsTypeOK'
<1> USE DEF server, codes, client
<1>1. CASE WindowEnds
  <2>1. IsFiniteSet({b \in Browsers : signin[b] # NoValue})
    BY FS_Subset
  <2>2. Cardinality({b \in Browsers : signin[b] # NoValue}) \in Nat
    BY <2>1, FS_CardinalityType
  <2>3. brake.ended + 1 \in 0 .. MaxWindows
    BY <1>1 DEF WindowEnds, SessionsTypeOK, Brakes
  <2>4. brake' \in Brakes
    BY <1>1, <2>2, <2>3 DEF WindowEnds, Brakes
  <2> QED
    BY <1>1, <2>4 DEF SessionsTypeOK, WindowEnds
<1>2. CASE RemoveStaff
  BY <1>2 DEF SessionsTypeOK, RemoveStaff, Accounts
<1>3. ASSUME NEW b \in Browsers, TokenExpires(b) \/ LeaveFirebase(b) \/ Leave(b) PROVE SessionsTypeOK'
  <2>1. token' \in [Browsers -> Tokens \cup {NoValue}]
    <3>1. token \in [Browsers -> Tokens \cup {NoValue}]
      BY DEF SessionsTypeOK
    <3>2. CASE TokenExpires(b)
      <4>1. token[b] \in Tokens
        BY <3>1, <3>2 DEF TokenExpires, SignedIn
      <4>2. [token[b] EXCEPT !.live = FALSE] \in Tokens
        BY <4>1 DEF Tokens
      <4> QED
        BY <3>1, <3>2, <4>2 DEF TokenExpires
    <3> QED
      BY <1>3, <3>1, <3>2 DEF LeaveFirebase, Leave, Forgotten
  <2>2. out' \in [Browsers -> {"no", "out", "renewing"}]
    BY <1>3 DEF SessionsTypeOK, TokenExpires, LeaveFirebase, Leave
  <2> QED
    BY <1>3, <2>1, <2>2 DEF SessionsTypeOK, TokenExpires, LeaveFirebase, Leave
<1>4. CASE UNCHANGED sessionVars
  BY <1>4 DEF SessionsTypeOK, sessionVars
<1> QED
  BY <1>1, <1>2, <1>3, <1>4, SignInTypes, CodeTypes, ClientTypes DEF SessionsNext

(* The state has its types.                                                   *)
THEOREM SessionsTypeCorrect == SessionsSpec => []SessionsTypeOK
<1>1. SessionsInit => SessionsTypeOK
  <2> SUFFICES ASSUME SessionsInit PROVE SessionsTypeOK
    OBVIOUS
  <2>1. NoCode \in CodeRows
    BY DEF NoCode, CodeRows
  <2>2. acct \in Accounts /\ brake \in Brakes
    BY DEF SessionsInit, Accounts, Brakes
  <2> QED
    BY <2>1, <2>2 DEF SessionsInit, SessionsTypeOK
<1>2. SessionsTypeOK /\ [SessionsNext]_sessionVars => SessionsTypeOK'
  BY TypeInductive
<1> QED
  BY <1>1, <1>2, PTL DEF SessionsSpec

-----------------------------------------------------------------------------
(* Counting sets that change by one element.                                  *)
LEMMA Counting ==
  ASSUME NEW S, IsFiniteSet(S), NEW T, NEW x
  PROVE  /\ Cardinality(S) \in Nat
         /\ T \subseteq S => Cardinality(T) \in Nat /\ Cardinality(T) <= Cardinality(S)
         /\ T \subseteq S \cup {x} => Cardinality(T) \in Nat /\ Cardinality(T) <= Cardinality(S) + 1
         /\ x \in S /\ T \subseteq S \ {x} =>
              Cardinality(T) \in Nat /\ Cardinality(T) + 1 <= Cardinality(S)
<1>1. Cardinality(S) \in Nat
  BY FS_CardinalityType
<1>2. T \subseteq S => Cardinality(T) \in Nat /\ Cardinality(T) <= Cardinality(S)
  BY FS_Subset, FS_CardinalityType
<1>3. ASSUME T \subseteq S \cup {x}
      PROVE  Cardinality(T) \in Nat /\ Cardinality(T) <= Cardinality(S) + 1
  <2> DEFINE added == Cardinality(S \cup {x})
  <2>1. IsFiniteSet(S \cup {x}) /\ added <= Cardinality(S) + 1
    <3>1. /\ IsFiniteSet(S \cup {x})
          /\ added = IF x \in S THEN Cardinality(S) ELSE Cardinality(S) + 1
      BY FS_AddElement
    <3> HIDE DEF added
    <3> QED
      BY <1>1, <3>1
  <2>2. Cardinality(T) \in Nat /\ Cardinality(T) <= Cardinality(S \cup {x})
    BY <1>3, <2>1, FS_Subset, FS_CardinalityType
  <2>3. Cardinality(S \cup {x}) \in Nat
    BY <2>1, FS_CardinalityType
  <2> QED
    BY <1>1, <2>1, <2>2, <2>3
<1>4. ASSUME x \in S, T \subseteq S \ {x}
      PROVE  Cardinality(T) \in Nat /\ Cardinality(T) + 1 <= Cardinality(S)
  <2>1. IsFiniteSet(S \ {x}) /\ Cardinality(S \ {x}) = Cardinality(S) - 1
    BY <1>4, FS_RemoveElement
  <2>2. Cardinality(T) \in Nat /\ Cardinality(T) <= Cardinality(S \ {x})
    BY <1>4, <2>1, FS_Subset, FS_CardinalityType
  <2> QED
    BY <1>1, <2>1, <2>2
<1> QED
  BY <1>1, <1>2, <1>3, <1>4

(* Whose account it is never changes.                                         *)
LEMMA RoleStays == ASSUME [SessionsNext]_sessionVars PROVE role' = role
<1>1. ASSUME NEW b \in Browsers,
             \/ \E s \in 1 .. MaxSecrets : SubmitPin(b, s)
             \/ CheckPin(b) \/ ReturnSlot(b) \/ ResumeSession(b) \/ VerifyNumber(b)
             \/ SignInArrives(b) \/ TokenExpires(b) \/ LeaveFirebase(b) \/ Leave(b)
      PROVE  role' = role
  BY <1>1 DEF SubmitPin, CheckPin, ReturnSlot, ResumeSession, VerifyNumber, LoginWithFirebase,
              SignInArrives, TokenExpires, LeaveFirebase, Leave
<1>2. ASSUME \/ WindowEnds \/ AskForCode \/ CreateCode \/ RemoveStaff
             \/ \E k \in CodeNumbers : MinutePasses(k) \/ CodeExpires(k)
             \/ \E r \in Confirms :
                  \/ FindCode(r) \/ ClaimAttempt(r) \/ ResetPassword(r) \/ VerifyOtp(r)
                  \/ \E right \in BOOLEAN : CompareCode(r, right)
      PROVE  role' = role
  BY <1>2 DEF WindowEnds, AskForCode, CreateCode, RemoveStaff, MinutePasses, CodeExpires,
              FindCode, ClaimAttempt, ResetPassword, VerifyOtp, CompareCode
<1>3. ASSUME \/ \E c \in Calls :
                  \/ \E t \in Tabs, kind \in {"plain", "logout"} : Send(c, t, kind)
                  \/ Answer(c) \/ AskRenewal(c) \/ Refused(c)
                  \/ \E ok \in BOOLEAN : Done(c, ok)
             \/ \E t \in Tabs : Renewed(t) \/ RenewalFails(t) \/ SocketRefused(t)
      PROVE  role' = role
  BY <1>3 DEF Send, Answer, AskRenewal, Refused, Done, Renewed, RenewalFails, SocketRefused
<1>4. CASE UNCHANGED sessionVars
  BY <1>4 DEF sessionVars
<1> QED
  BY <1>1, <1>2, <1>3, <1>4 DEF SessionsNext

-----------------------------------------------------------------------------
(* Tokens and passwords. *)

(* A token stays fresh as long as the password changes only with the version. *)
LEMMA FreshStays ==
  ASSUME SessionsTypeOK, NEW tok \in Tokens, Fresh(tok),
         \/ acct'.version = acct.version /\ acct'.secret = acct.secret
         \/ acct'.version = acct.version + 1
  PROVE  Fresh(tok)'
  BY DEF Fresh, SessionsTypeOK, Accounts, Tokens

(* What a step does to the account of a shop user.                            *)
LEMMA VersionGrows ==
  ASSUME SessionsTypeOK, [SessionsNext]_sessionVars
  PROVE  \/ acct'.version = acct.version /\ acct'.secret = acct.secret
         \/ acct'.version = acct.version + 1
<1> USE DEF server, codes, client
<1> DEFINE Kept == \/ acct'.version = acct.version /\ acct'.secret = acct.secret
                   \/ acct'.version = acct.version + 1
<1>1. ASSUME NEW r \in Confirms, ResetPassword(r) PROVE Kept
  BY <1>1 DEF ResetPassword, SessionsTypeOK, Accounts
<1>2. CASE RemoveStaff
  BY <1>2 DEF RemoveStaff, SessionsTypeOK, Accounts
<1>3. ASSUME NEW c \in Calls, Answer(c) PROVE Kept
  BY <1>3 DEF Answer, SessionsTypeOK, Accounts
<1>4. ASSUME NEW b \in Browsers,
             \/ \E s \in 1 .. MaxSecrets : SubmitPin(b, s)
             \/ CheckPin(b) \/ ReturnSlot(b) \/ ResumeSession(b) \/ VerifyNumber(b)
             \/ SignInArrives(b) \/ TokenExpires(b) \/ LeaveFirebase(b) \/ Leave(b)
      PROVE  acct' = acct
  BY <1>4 DEF SubmitPin, CheckPin, ReturnSlot, ResumeSession, VerifyNumber, LoginWithFirebase,
              SignInArrives, TokenExpires, LeaveFirebase, Leave
<1>5. ASSUME \/ WindowEnds \/ AskForCode \/ CreateCode
             \/ \E k \in CodeNumbers : MinutePasses(k) \/ CodeExpires(k)
             \/ \E r \in Confirms :
                  \/ FindCode(r) \/ ClaimAttempt(r) \/ VerifyOtp(r)
                  \/ \E right \in BOOLEAN : CompareCode(r, right)
      PROVE  acct' = acct
  BY <1>5 DEF WindowEnds, AskForCode, CreateCode, MinutePasses, CodeExpires,
              FindCode, ClaimAttempt, VerifyOtp, CompareCode
<1>6. ASSUME \/ \E c \in Calls :
                  \/ \E t \in Tabs, kind \in {"plain", "logout"} : Send(c, t, kind)
                  \/ AskRenewal(c) \/ Refused(c)
                  \/ \E ok \in BOOLEAN : Done(c, ok)
             \/ \E t \in Tabs : Renewed(t) \/ RenewalFails(t) \/ SocketRefused(t)
      PROVE  acct' = acct
  BY <1>6 DEF Send, AskRenewal, Refused, Done, Renewed, RenewalFails, SocketRefused
<1>7. CASE UNCHANGED sessionVars
  BY <1>7 DEF sessionVars
<1> QED
  BY <1>1, <1>2, <1>3, <1>4, <1>5, <1>6, <1>7 DEF SessionsNext

(* Where a token of a shop user comes from: it was there before, or the PIN   *)
(* was checked against the row it was signed from.                            *)
LEMMA TokensOfSteps ==
  ASSUME SessionsTypeOK, TokensAreFresh, role = "shop", [SessionsNext]_sessionVars, NEW b \in Browsers
  PROVE  /\ \/ token'[b] = NoValue
            \/ token[b] # NoValue /\ token'[b] = token[b]
            \/ token[b] # NoValue /\ token'[b] = [token[b] EXCEPT !.live = FALSE]
            \/ /\ signin[b] # NoValue /\ signin[b].step # "sent"
               /\ token'[b] = signin[b].token
         /\ \/ signin'[b] = NoValue
            \/ signin'[b] = signin[b]
            \/ signin'[b].step = "sent"
            \/ /\ signin[b] # NoValue /\ signin[b].step # "sent"
               /\ signin'[b].token = signin[b].token
            \/ /\ acct' = acct
               /\ signin'[b].token = NewToken(acct.version, acct.secret)
         /\ device' = {} /\ renewal' = {}
<1> USE DEF server, codes, client
<1> DEFINE Kept == token' = token /\ device' = {} /\ renewal' = {}
<1>1. device = {} /\ renewal = {}
  BY DEF TokensAreFresh
<1>2. token \in [Browsers -> Tokens \cup {NoValue}] /\ signin \in [Browsers -> SignIns \cup {NoValue}]
  BY DEF SessionsTypeOK
<1>3. ASSUME NEW b2 \in Browsers, NEW s \in 1 .. MaxSecrets, SubmitPin(b2, s)
      PROVE  Kept /\ (signin'[b] = signin[b] \/ signin'[b].step = "sent")
  BY <1>1, <1>2, <1>3 DEF SubmitPin
<1>4. ASSUME NEW b2 \in Browsers, CheckPin(b2)
      PROVE  /\ Kept
             /\ \/ signin'[b] = NoValue \/ signin'[b] = signin[b]
                \/ acct' = acct /\ signin'[b].token = NewToken(acct.version, acct.secret)
  BY <1>1, <1>2, <1>4 DEF CheckPin
<1>5. ASSUME NEW b2 \in Browsers, ReturnSlot(b2)
      PROVE  /\ Kept
             /\ \/ signin'[b] = signin[b]
                \/ /\ signin[b] # NoValue /\ signin[b].step # "sent"
                   /\ signin'[b].token = signin[b].token
  BY <1>1, <1>2, <1>5, SignInWrites DEF ReturnSlot
<1>6. ASSUME NEW b2 \in Browsers, ResumeSession(b2) \/ VerifyNumber(b2) PROVE FALSE
  BY <1>6 DEF ResumeSession, VerifyNumber, LoginWithFirebase
<1>7. ASSUME NEW b2 \in Browsers, SignInArrives(b2)
      PROVE  /\ device' = {} /\ renewal' = {}
             /\ signin'[b] = NoValue \/ signin'[b] = signin[b]
             /\ \/ token'[b] = token[b]
                \/ /\ signin[b] # NoValue /\ signin[b].step # "sent"
                   /\ token'[b] = signin[b].token
  BY <1>1, <1>2, <1>7 DEF SignInArrives
<1>8. ASSUME NEW b2 \in Browsers, TokenExpires(b2)
      PROVE  /\ device' = {} /\ renewal' = {} /\ signin' = signin
             /\ \/ token'[b] = token[b]
                \/ token[b] # NoValue /\ token'[b] = [token[b] EXCEPT !.live = FALSE]
  BY <1>1, <1>2, <1>8 DEF TokenExpires, SignedIn
<1>9. ASSUME NEW b2 \in Browsers, LeaveFirebase(b2) \/ Leave(b2)
      PROVE  /\ device' = {} /\ renewal' = {} /\ signin' = signin
             /\ token'[b] = token[b] \/ token'[b] = NoValue
  BY <1>1, <1>2, <1>9 DEF LeaveFirebase, Leave, Forgotten
<1>10. ASSUME \/ WindowEnds \/ AskForCode \/ CreateCode \/ RemoveStaff
              \/ \E k \in CodeNumbers : MinutePasses(k) \/ CodeExpires(k)
              \/ \E r \in Confirms :
                   \/ FindCode(r) \/ ClaimAttempt(r) \/ ResetPassword(r) \/ VerifyOtp(r)
                   \/ \E right \in BOOLEAN : CompareCode(r, right)
       PROVE  Kept /\ signin' = signin
  BY <1>1, <1>10 DEF WindowEnds, AskForCode, CreateCode, RemoveStaff, MinutePasses, CodeExpires,
                     FindCode, ClaimAttempt, ResetPassword, VerifyOtp, CompareCode
<1>11. ASSUME NEW c \in Calls,
              \/ \E t \in Tabs, kind \in {"plain", "logout"} : Send(c, t, kind)
              \/ Answer(c)
       PROVE  Kept /\ signin' = signin
  BY <1>1, <1>11 DEF Send, Answer
<1>12. ASSUME NEW c \in Calls, AskRenewal(c) PROVE FALSE
  BY <1>1, <1>12 DEF AskRenewal
<1>13. ASSUME NEW c \in Calls, NEW ok \in BOOLEAN, Refused(c) \/ Done(c, ok)
       PROVE  /\ device' = {} /\ renewal' = {} /\ signin' = signin
              /\ token'[b] = token[b] \/ token'[b] = NoValue
  BY <1>1, <1>2, <1>13 DEF Refused, Done, Forgotten
<1>14. ASSUME NEW t \in Tabs, Renewed(t) \/ RenewalFails(t) \/ SocketRefused(t) PROVE FALSE
  BY <1>1, <1>14 DEF Renewed, RenewalFails, SocketRefused
<1>15. CASE UNCHANGED sessionVars
  BY <1>1, <1>15 DEF sessionVars
<1> QED
  BY <1>3, <1>4, <1>5, <1>6, <1>7, <1>8, <1>9, <1>10, <1>11, <1>12, <1>13, <1>14, <1>15 DEF SessionsNext

(* Every step keeps tokens of the current password or of an older version. *)
LEMMA FreshInductive ==
  ASSUME SessionsTypeOK, SessionsTypeOK', TokensAreFresh, [SessionsNext]_sessionVars PROVE TokensAreFresh'
<1>1. SUFFICES ASSUME role = "shop"
      PROVE  /\ device' = {} /\ renewal' = {}
             /\ \A b \in Browsers :
                  /\ token'[b] # NoValue => Fresh(token[b])'
                  /\ signin'[b] # NoValue /\ signin'[b].step # "sent" => Fresh(signin[b].token)'
  BY RoleStays DEF TokensAreFresh, SignedIn
<1>2. ASSUME NEW tok \in Tokens, Fresh(tok) PROVE Fresh(tok)'
  BY <1>2, FreshStays, VersionGrows
<1>3. /\ token \in [Browsers -> Tokens \cup {NoValue}]
      /\ signin \in [Browsers -> SignIns \cup {NoValue}]
      /\ signin' \in [Browsers -> SignIns \cup {NoValue}]
  BY DEF SessionsTypeOK
<1>4. ASSUME NEW b \in Browsers, token'[b] # NoValue PROVE Fresh(token[b])'
  <2>1. CASE token[b] # NoValue /\ token'[b] = token[b]
    <3>1. Fresh(token[b]) /\ token[b] \in Tokens
      BY <1>1, <1>3, <2>1 DEF TokensAreFresh, SignedIn
    <3>2. \A tok \in Tokens : Fresh(tok) => Fresh(tok)'
      BY <1>2
    <3> QED
      BY <2>1, <3>1, <3>2 DEF Fresh
  <2>2. CASE token[b] # NoValue /\ token'[b] = [token[b] EXCEPT !.live = FALSE]
    <3>1. Fresh(token[b]) /\ token[b] \in Tokens
      BY <1>1, <1>3, <2>2 DEF TokensAreFresh, SignedIn
    <3>2. token'[b].version = token[b].version /\ token'[b].secret = token[b].secret
      BY <2>2, <3>1 DEF Tokens
    <3>3. \A tok \in Tokens : Fresh(tok) => Fresh(tok)'
      BY <1>2
    <3> QED
      BY <3>1, <3>2, <3>3 DEF Fresh
  <2>3. CASE signin[b] # NoValue /\ signin[b].step # "sent" /\ token'[b] = signin[b].token
    <3>1. Fresh(signin[b].token) /\ signin[b].token \in Tokens
      BY <1>1, <1>3, <2>3, SignInWrites DEF TokensAreFresh
    <3>2. \A tok \in Tokens : Fresh(tok) => Fresh(tok)'
      BY <1>2
    <3> QED
      BY <2>3, <3>1, <3>2 DEF Fresh
  <2> QED
    BY <1>1, <1>4, <2>1, <2>2, <2>3, TokensOfSteps
<1>5. ASSUME NEW b \in Browsers, signin'[b] # NoValue, signin'[b].step # "sent"
      PROVE  Fresh(signin[b].token)'
  <2>1. CASE signin[b] # NoValue /\ signin[b].step # "sent" /\ signin'[b].token = signin[b].token
    <3>1. Fresh(signin[b].token) /\ signin[b].token \in Tokens
      BY <1>1, <1>3, <2>1, SignInWrites DEF TokensAreFresh
    <3>2. \A tok \in Tokens : Fresh(tok) => Fresh(tok)'
      BY <1>2
    <3> QED
      BY <2>1, <3>1, <3>2 DEF Fresh
  <2>2. CASE acct' = acct /\ signin'[b].token = NewToken(acct.version, acct.secret)
    BY <2>2 DEF Fresh, NewToken, SessionsTypeOK, Accounts
  <2> QED
    BY <1>1, <1>5, <2>1, <2>2, TokensOfSteps
<1>6. device' = {} /\ renewal' = {}
  <2>1. CASE Browsers = {}
    BY <2>1 DEF SessionsTypeOK
  <2>2. CASE Browsers # {}
    BY <1>1, <2>2, TokensOfSteps
  <2> QED
    BY <2>1, <2>2
<1> QED
  BY <1>4, <1>5, <1>6

-----------------------------------------------------------------------------
(* Codes. *)

AttemptsKept(k) == code'[k].tries = code[k].tries /\ code'[k].checked = code[k].checked
EffectsKept(k) ==
  code'[k].effects = code[k].effects /\ (code'[k].state = "used" <=> code[k].state = "used")

(* What a step does to a code and to those who are comparing it: nothing that *)
(* counts; an attempt is claimed; a comparison is made; the code is used.     *)
LEMMA CodeSteps ==
  ASSUME SessionsTypeOK, [SessionsNext]_sessionVars, NEW k \in CodeNumbers
  PROVE  \/ AttemptsKept(k) /\ EffectsKept(k) /\ Comparing(k)' \subseteq Comparing(k)
         \/ /\ EffectsKept(k)
            /\ code'[k].tries = code[k].tries + 1 /\ code'[k].checked = code[k].checked
            /\ \E r \in Confirms : Comparing(k)' \subseteq Comparing(k) \cup {r}
         \/ /\ EffectsKept(k)
            /\ code'[k].tries = code[k].tries /\ code'[k].checked = code[k].checked + 1
            /\ \E r \in Comparing(k) : Comparing(k)' \subseteq Comparing(k) \ {r}
         \/ /\ AttemptsKept(k) /\ Comparing(k)' \subseteq Comparing(k)
            /\ code[k].state = "open" /\ code'[k].state = "used"
            /\ code'[k].effects = code[k].effects + 1
<1> USE DEF server, codes, client
<1> DEFINE Quiet == AttemptsKept(k) /\ EffectsKept(k) /\ Comparing(k)' \subseteq Comparing(k)
<1>1. code \in [CodeNumbers -> CodeRows] /\ \A l \in CodeNumbers : code[l] \in CodeRows
  BY DEF SessionsTypeOK
<1>2. /\ confirm \in [Confirms -> Confirmations \cup {NoValue}]
      /\ \A r \in Confirms : confirm[r] # NoValue =>
           /\ confirm[r].code \in CodeNumbers
           /\ \A y \in {"claimed", "right"} :
                [confirm[r] EXCEPT !.step = y].step = y /\ [confirm[r] EXCEPT !.step = y].code = confirm[r].code
  BY DEF SessionsTypeOK, Confirmations
<1>3. ASSUME code' = code, confirm' = confirm PROVE Quiet
  BY <1>3 DEF AttemptsKept, EffectsKept, Comparing
<1>4. CASE CreateCode
  <2>1. PICK l \in CodeNumbers :
          /\ code[l].state = "none"
          /\ code' = [code EXCEPT ![l].state = "open", ![l].recent = TRUE]
    BY <1>4 DEF CreateCode
  <2>2. AttemptsKept(k) /\ EffectsKept(k)
    BY <1>1, <2>1 DEF AttemptsKept, EffectsKept, CodeRows
  <2> QED
    BY <1>4, <2>2 DEF CreateCode, Comparing
<1>5. ASSUME NEW l \in CodeNumbers, MinutePasses(l) \/ CodeExpires(l) PROVE Quiet
  <2>1. AttemptsKept(k) /\ EffectsKept(k)
    BY <1>1, <1>5 DEF AttemptsKept, EffectsKept, CodeRows, MinutePasses, CodeExpires
  <2> QED
    BY <1>5, <2>1 DEF MinutePasses, CodeExpires, Comparing
<1>6. ASSUME NEW r \in Confirms, FindCode(r) PROVE Quiet
  <2>1. Comparing(k)' \subseteq Comparing(k)
    BY <1>2, <1>6 DEF FindCode, Comparing
  <2> QED
    BY <1>6, <2>1 DEF FindCode, AttemptsKept, EffectsKept
<1>7. ASSUME NEW r \in Confirms, ClaimAttempt(r)
      PROVE  \/ Quiet
             \/ /\ EffectsKept(k)
                /\ code'[k].tries = code[k].tries + 1 /\ code'[k].checked = code[k].checked
                /\ Comparing(k)' \subseteq Comparing(k) \cup {r}
  <2>1. CASE confirm' = [confirm EXCEPT ![r] = NoValue] /\ UNCHANGED code
    <3>1. Comparing(k)' \subseteq Comparing(k)
      BY <1>2, <2>1 DEF Comparing
    <3> QED
      BY <2>1, <3>1 DEF AttemptsKept, EffectsKept
  <2>2. CASE /\ code' = [code EXCEPT ![confirm[r].code].tries = @ + 1]
             /\ confirm' = [confirm EXCEPT ![r].step = "claimed"]
    <3>1. Comparing(k)' \subseteq Comparing(k) \cup {r}
      BY <1>2, <2>2 DEF Comparing
    <3>2. CASE k = confirm[r].code
      <4>1. EffectsKept(k) /\ code'[k].tries = code[k].tries + 1 /\ code'[k].checked = code[k].checked
        BY <1>1, <2>2, <3>2 DEF EffectsKept, CodeRows
      <4> QED
        BY <3>1, <4>1
    <3>3. CASE k # confirm[r].code
      <4>1. Comparing(k)' \subseteq Comparing(k)
        BY <1>2, <1>7, <2>2, <3>3 DEF Comparing, ClaimAttempt
      <4> QED
        BY <1>1, <2>2, <3>3, <4>1 DEF AttemptsKept, EffectsKept
    <3> QED
      BY <3>2, <3>3
  <2> QED
    BY <1>7, <2>1, <2>2 DEF ClaimAttempt
<1>8. ASSUME NEW r \in Confirms, NEW right \in BOOLEAN, CompareCode(r, right)
      PROVE  \/ Quiet
             \/ /\ EffectsKept(k)
                /\ code'[k].tries = code[k].tries /\ code'[k].checked = code[k].checked + 1
                /\ r \in Comparing(k) /\ Comparing(k)' \subseteq Comparing(k) \ {r}
  <2>1. /\ confirm[r] # NoValue /\ confirm[r].step = "claimed"
        /\ code' = [code EXCEPT ![confirm[r].code].checked = @ + 1]
        /\ \/ confirm' = [confirm EXCEPT ![r].step = "right"]
           \/ confirm' = [confirm EXCEPT ![r] = NoValue]
    BY <1>8 DEF CompareCode
  <2>2. Comparing(k)' \subseteq Comparing(k) \ {r}
    BY <1>2, <2>1 DEF Comparing
  <2>3. CASE k = confirm[r].code
    <3>1. /\ EffectsKept(k) /\ code'[k].tries = code[k].tries
          /\ code'[k].checked = code[k].checked + 1
      BY <1>1, <2>1, <2>3 DEF EffectsKept, CodeRows
    <3>2. r \in Comparing(k)
      BY <2>1, <2>3 DEF Comparing
    <3> QED
      BY <2>2, <3>1, <3>2
  <2>4. CASE k # confirm[r].code
    BY <1>1, <2>1, <2>2, <2>4 DEF AttemptsKept, EffectsKept
  <2> QED
    BY <2>3, <2>4
<1>9. ASSUME NEW r \in Confirms, ResetPassword(r) \/ VerifyOtp(r)
      PROVE  \/ Quiet
             \/ /\ AttemptsKept(k) /\ Comparing(k)' \subseteq Comparing(k)
                /\ code[k].state = "open" /\ code'[k].state = "used"
                /\ code'[k].effects = code[k].effects + 1
  <2>1. confirm' = [confirm EXCEPT ![r] = NoValue]
    BY <1>9 DEF ResetPassword, VerifyOtp
  <2>2. Comparing(k)' \subseteq Comparing(k)
    BY <1>2, <2>1 DEF Comparing
  <2>3. CASE code' = code
    BY <2>2, <2>3 DEF AttemptsKept, EffectsKept
  <2>4. CASE Consumable(confirm[r].code) /\ code' = Consumed(confirm[r].code)
    <3>1. CASE k = confirm[r].code
      <4>1. /\ code[k].state = "open" /\ code'[k].state = "used" /\ AttemptsKept(k)
            /\ code'[k].effects = code[k].effects + 1
        BY <1>1, <2>4, <3>1 DEF Consumable, Consumed, AttemptsKept, CodeRows
      <4> QED
        BY <2>2, <4>1
    <3>2. CASE k # confirm[r].code
      BY <1>1, <2>2, <2>4, <3>2 DEF Consumed, AttemptsKept, EffectsKept
    <3> QED
      BY <3>1, <3>2
  <2> QED
    BY <1>9, <2>3, <2>4 DEF ResetPassword, VerifyOtp
<1>10. ASSUME NEW b \in Browsers,
              \/ \E s \in 1 .. MaxSecrets : SubmitPin(b, s)
              \/ CheckPin(b) \/ ReturnSlot(b) \/ ResumeSession(b) \/ VerifyNumber(b)
              \/ SignInArrives(b) \/ TokenExpires(b) \/ LeaveFirebase(b) \/ Leave(b)
       PROVE  code' = code /\ confirm' = confirm
  BY <1>10 DEF SubmitPin, CheckPin, ReturnSlot, ResumeSession, VerifyNumber, LoginWithFirebase,
               SignInArrives, TokenExpires, LeaveFirebase, Leave
<1>11. ASSUME \/ WindowEnds \/ AskForCode \/ RemoveStaff \/ UNCHANGED sessionVars
              \/ \E c \in Calls :
                   \/ \E t \in Tabs, kind \in {"plain", "logout"} : Send(c, t, kind)
                   \/ Answer(c) \/ AskRenewal(c) \/ Refused(c)
                   \/ \E ok \in BOOLEAN : Done(c, ok)
              \/ \E t \in Tabs : Renewed(t) \/ RenewalFails(t) \/ SocketRefused(t)
       PROVE  code' = code /\ confirm' = confirm
  BY <1>11 DEF WindowEnds, AskForCode, RemoveStaff, sessionVars, Send, Answer, AskRenewal, Refused, Done,
               Renewed, RenewalFails, SocketRefused
<1> QED
  BY <1>3, <1>4, <1>5, <1>6, <1>7, <1>8, <1>9, <1>10, <1>11 DEF SessionsNext

(* Every step pays for each comparison of a code with an attempt. *)
LEMMA CodesInductive ==
  ASSUME SessionsTypeOK, SessionsTypeOK', CodesAreCounted, [SessionsNext]_sessionVars PROVE CodesAreCounted'
<1> SUFFICES ASSUME NEW k \in CodeNumbers
             PROVE  /\ code'[k].effects = IF code'[k].state = "used" THEN 1 ELSE 0
                    /\ code'[k].checked + Cardinality(Comparing(k)') <= code'[k].tries
  BY DEF CodesAreCounted
<1>1. /\ code[k].effects = IF code[k].state = "used" THEN 1 ELSE 0
      /\ code[k].checked + Cardinality(Comparing(k)) <= code[k].tries
      /\ code[k].checked \in Nat /\ code[k].tries \in Nat
  BY DEF CodesAreCounted, SessionsTypeOK, CodeRows
<1>2. IsFiniteSet(Comparing(k))
  BY FS_Subset DEF Comparing
<1>3. Cardinality(Comparing(k)) \in Nat
  BY <1>2, Counting
<1>4. CASE AttemptsKept(k) /\ EffectsKept(k) /\ Comparing(k)' \subseteq Comparing(k)
  <2>1. Cardinality(Comparing(k)') \in Nat /\ Cardinality(Comparing(k)') <= Cardinality(Comparing(k))
    BY <1>2, <1>4, Counting
  <2> QED
    BY <1>1, <1>3, <1>4, <2>1 DEF AttemptsKept, EffectsKept
<1>5. CASE /\ EffectsKept(k)
           /\ code'[k].tries = code[k].tries + 1 /\ code'[k].checked = code[k].checked
           /\ \E r \in Confirms : Comparing(k)' \subseteq Comparing(k) \cup {r}
  <2>1. /\ Cardinality(Comparing(k)') \in Nat
        /\ Cardinality(Comparing(k)') <= Cardinality(Comparing(k)) + 1
    BY <1>2, <1>5, Counting
  <2> QED
    BY <1>1, <1>3, <1>5, <2>1 DEF EffectsKept
<1>6. CASE /\ EffectsKept(k)
           /\ code'[k].tries = code[k].tries /\ code'[k].checked = code[k].checked + 1
           /\ \E r \in Comparing(k) : Comparing(k)' \subseteq Comparing(k) \ {r}
  <2>1. /\ Cardinality(Comparing(k)') \in Nat
        /\ Cardinality(Comparing(k)') + 1 <= Cardinality(Comparing(k))
    BY <1>2, <1>6, Counting
  <2> QED
    BY <1>1, <1>3, <1>6, <2>1 DEF EffectsKept
<1>7. CASE /\ AttemptsKept(k) /\ Comparing(k)' \subseteq Comparing(k)
           /\ code[k].state = "open" /\ code'[k].state = "used"
           /\ code'[k].effects = code[k].effects + 1
  <2>1. Cardinality(Comparing(k)') \in Nat /\ Cardinality(Comparing(k)') <= Cardinality(Comparing(k))
    BY <1>2, <1>7, Counting
  <2> QED
    BY <1>1, <1>3, <1>7, <2>1 DEF AttemptsKept
<1> QED
  BY <1>4, <1>5, <1>6, <1>7, CodeSteps

-----------------------------------------------------------------------------
(* The brake. *)

(* What a step does to the slots of a shop user: nothing that counts; a slot  *)
(* is taken; a PIN proves wrong; a slot is given back; a window ends.         *)
LEMMA SlotSteps ==
  ASSUME SessionsTypeOK, role = "shop", [SessionsNext]_sessionVars
  PROVE  \/ brake' = brake /\ Looking' \subseteq Looking
         \/ /\ brake' = [brake EXCEPT !.count = @ + 1, !.open = TRUE]
            /\ \/ Looking' \subseteq Looking
               \/ /\ brake.count + 1 <= MaxPins
                  /\ \E b \in Browsers : Looking' \subseteq Looking \cup {b}
         \/ /\ brake' = [brake EXCEPT !.wrong = @ + 1]
            /\ \E b \in Looking : Looking' \subseteq Looking \ {b}
         \/ /\ brake' = [brake EXCEPT !.count = @ - 1]
            /\ \E b \in Looking : Looking' \subseteq Looking \ {b}
         \/ /\ brake'.count = 0 /\ brake'.wrong = 0 /\ signin' = signin
            /\ brake'.strays = Cardinality({b \in Browsers : signin[b] # NoValue})
<1> USE DEF server, codes, client
<1>1. signin \in [Browsers -> SignIns \cup {NoValue}] /\ brake.count \in Int
  BY DEF SessionsTypeOK, Brakes
<1>2. ASSUME NEW b \in Browsers, NEW s \in 1 .. MaxSecrets, SubmitPin(b, s)
      PROVE  /\ brake' = [brake EXCEPT !.count = @ + 1, !.open = TRUE]
             /\ \/ Looking' \subseteq Looking
                \/ brake.count + 1 <= MaxPins /\ Looking' \subseteq Looking \cup {b}
  <2>1. CASE brake.count + 1 > MaxPins
    BY <1>2, <2>1 DEF SubmitPin, Looking
  <2>2. CASE brake.count + 1 <= MaxPins
    <3>1. \A b2 \in Browsers : b2 # b => signin'[b2] = signin[b2]
      BY <1>1, <1>2 DEF SubmitPin
    <3>2. Looking' \subseteq Looking \cup {b}
      BY <3>1 DEF Looking
    <3> QED
      BY <1>2, <2>2, <3>2 DEF SubmitPin
  <2> QED
    BY <1>1, <2>1, <2>2
<1>3. ASSUME NEW b \in Browsers, CheckPin(b)
      PROVE  \/ brake' = brake /\ Looking' \subseteq Looking
             \/ /\ brake' = [brake EXCEPT !.wrong = @ + 1]
                /\ b \in Looking /\ Looking' \subseteq Looking \ {b}
  <2>1. b \in Looking /\ \A b2 \in Browsers : b2 # b => signin'[b2] = signin[b2]
    BY <1>1, <1>3 DEF CheckPin, Looking
  <2>2. Looking' \subseteq Looking
    BY <2>1 DEF Looking
  <2>3. CASE ~(acct.exists /\ acct.secret = signin[b].secret)
    <3>1. signin'[b] = NoValue /\ brake' = [brake EXCEPT !.wrong = @ + 1]
      BY <1>1, <1>3, <2>3 DEF CheckPin
    <3>2. Looking' \subseteq Looking \ {b}
      BY <2>2, <3>1 DEF Looking
    <3> QED
      BY <2>1, <3>1, <3>2
  <2> QED
    BY <1>3, <2>2, <2>3 DEF CheckPin
<1>4. ASSUME NEW b \in Browsers, ReturnSlot(b)
      PROVE  /\ brake' = [brake EXCEPT !.count = @ - 1]
             /\ b \in Looking /\ Looking' \subseteq Looking \ {b}
  <2>1. /\ b \in Looking /\ \A b2 \in Browsers : b2 # b => signin'[b2] = signin[b2]
        /\ signin'[b].step = "answered"
    BY <1>1, <1>4, SignInWrites DEF ReturnSlot, Looking
  <2>2. Looking' \subseteq Looking \ {b}
    BY <2>1 DEF Looking
  <2> QED
    BY <1>4, <2>1, <2>2 DEF ReturnSlot
<1>5. ASSUME NEW b \in Browsers, SignInArrives(b) PROVE brake' = brake /\ Looking' \subseteq Looking
  BY <1>1, <1>5 DEF SignInArrives, Looking
<1>6. ASSUME NEW b \in Browsers, ResumeSession(b) \/ VerifyNumber(b) PROVE FALSE
  BY <1>6 DEF ResumeSession, VerifyNumber, LoginWithFirebase
<1>7. ASSUME NEW r \in Confirms, VerifyOtp(r) PROVE FALSE
  BY <1>7 DEF VerifyOtp
<1>8. CASE WindowEnds
  BY <1>8 DEF WindowEnds
<1>9. ASSUME \/ \E b \in Browsers : TokenExpires(b) \/ LeaveFirebase(b) \/ Leave(b)
             \/ AskForCode \/ CreateCode \/ RemoveStaff
             \/ \E k \in CodeNumbers : MinutePasses(k) \/ CodeExpires(k)
             \/ \E r \in Confirms :
                  \/ FindCode(r) \/ ClaimAttempt(r) \/ ResetPassword(r)
                  \/ \E right \in BOOLEAN : CompareCode(r, right)
      PROVE  brake' = brake /\ signin' = signin
  BY <1>9 DEF TokenExpires, LeaveFirebase, Leave, AskForCode, CreateCode, RemoveStaff, MinutePasses,
              CodeExpires, FindCode, ClaimAttempt, ResetPassword, CompareCode
<1>10. ASSUME \/ \E c \in Calls :
                   \/ \E t \in Tabs, kind \in {"plain", "logout"} : Send(c, t, kind)
                   \/ Answer(c) \/ AskRenewal(c) \/ Refused(c)
                   \/ \E ok \in BOOLEAN : Done(c, ok)
              \/ \E t \in Tabs : Renewed(t) \/ RenewalFails(t) \/ SocketRefused(t)
              \/ UNCHANGED sessionVars
       PROVE  brake' = brake /\ signin' = signin
  BY <1>10 DEF Send, Answer, AskRenewal, Refused, Done, Renewed, RenewalFails, SocketRefused, sessionVars
<1>11. signin' = signin => Looking' \subseteq Looking
  BY DEF Looking
<1> QED
  BY <1>2, <1>3, <1>4, <1>5, <1>6, <1>7, <1>8, <1>9, <1>10, <1>11 DEF SessionsNext

(* The PINs of a student are nobody's: there is nothing to count.             *)
LEMMA NoPinOfStudents ==
  ASSUME SessionsTypeOK, role # "shop", SlotsAreCounted, [SessionsNext]_sessionVars
  PROVE  /\ brake'.wrong = 0
         /\ \A b \in Browsers : signin'[b] # NoValue => signin'[b].step # "sent"
<1> USE DEF server, codes, client
<1>1. /\ brake \in Brakes /\ brake.wrong = 0
      /\ signin \in [Browsers -> SignIns \cup {NoValue}]
      /\ \A b \in Browsers : signin[b] # NoValue => signin[b].step # "sent"
  BY DEF SessionsTypeOK, SlotsAreCounted
<1> DEFINE Kept == /\ brake'.wrong = 0
                   /\ \A b \in Browsers : signin'[b] # NoValue => signin'[b].step # "sent"
<1>2. ASSUME NEW b \in Browsers, ReturnSlot(b) PROVE Kept
  <2>1. signin'[b].step = "answered" /\ \A b2 \in Browsers : b2 # b => signin'[b2] = signin[b2]
    BY <1>1, <1>2, SignInWrites DEF ReturnSlot
  <2>2. brake' = brake
    BY <1>2 DEF ReturnSlot
  <2> QED
    BY <1>1, <2>1, <2>2
<1>3. ASSUME NEW b \in Browsers, ResumeSession(b) \/ VerifyNumber(b) PROVE Kept
  <2>1. /\ signin' = [signin EXCEPT ![b] = [step |-> "granted", token |-> NewToken(acct.version, 1)]]
        /\ brake' = brake
    BY <1>3 DEF ResumeSession, VerifyNumber, LoginWithFirebase
  <2> QED
    BY <1>1, <2>1
<1>4. ASSUME NEW b \in Browsers, SignInArrives(b) PROVE Kept
  BY <1>1, <1>4 DEF SignInArrives
<1>5. ASSUME NEW r \in Confirms, VerifyOtp(r) PROVE Kept
  <2>1. /\ \/ signin' = signin
           \/ signin' = [signin EXCEPT ![confirm[r].browser] =
                           [step |-> "granted", token |-> NewToken(0, 1)]]
        /\ brake' = brake
    BY <1>5 DEF VerifyOtp
  <2> QED
    BY <1>1, <2>1
<1>6. CASE WindowEnds
  BY <1>1, <1>6 DEF WindowEnds
<1>7. ASSUME NEW b \in Browsers, CheckPin(b) \/ \E s \in 1 .. MaxSecrets : SubmitPin(b, s) PROVE FALSE
  BY <1>1, <1>7 DEF CheckPin, SubmitPin
<1>8. ASSUME \/ \E b \in Browsers : TokenExpires(b) \/ LeaveFirebase(b) \/ Leave(b)
             \/ AskForCode \/ CreateCode \/ RemoveStaff
             \/ \E k \in CodeNumbers : MinutePasses(k) \/ CodeExpires(k)
             \/ \E r \in Confirms :
                  \/ FindCode(r) \/ ClaimAttempt(r) \/ ResetPassword(r)
                  \/ \E right \in BOOLEAN : CompareCode(r, right)
      PROVE  brake' = brake /\ signin' = signin
  BY <1>8 DEF TokenExpires, LeaveFirebase, Leave, AskForCode, CreateCode, RemoveStaff, MinutePasses,
              CodeExpires, FindCode, ClaimAttempt, ResetPassword, CompareCode
<1>9. ASSUME \/ \E c \in Calls :
                  \/ \E t \in Tabs, kind \in {"plain", "logout"} : Send(c, t, kind)
                  \/ Answer(c) \/ AskRenewal(c) \/ Refused(c)
                  \/ \E ok \in BOOLEAN : Done(c, ok)
             \/ \E t \in Tabs : Renewed(t) \/ RenewalFails(t) \/ SocketRefused(t)
             \/ UNCHANGED sessionVars
      PROVE  brake' = brake /\ signin' = signin
  BY <1>9 DEF Send, Answer, AskRenewal, Refused, Done, Renewed, RenewalFails, SocketRefused, sessionVars
<1> QED
  BY <1>1, <1>2, <1>3, <1>4, <1>5, <1>6, <1>7, <1>8, <1>9 DEF SessionsNext

(* Every step pays for each wrong PIN with a slot of the brake. *)
LEMMA SlotsInductive ==
  ASSUME SessionsTypeOK, SlotsAreCounted, [SessionsNext]_sessionVars PROVE SlotsAreCounted'
<1>1. role' = role
  BY RoleStays
<1>2. CASE role # "shop"
  BY <1>1, <1>2, NoPinOfStudents DEF SlotsAreCounted
<1>3. CASE role = "shop"
  <2> DEFINE n == Cardinality(Looking)
             m == Cardinality(Looking')
             Bounds == /\ brake'.wrong + m <= brake'.count + brake'.strays
                       /\ brake'.wrong + m <= MaxPins + brake'.strays
  <2> SUFFICES Bounds
    BY <1>1, <1>3 DEF SlotsAreCounted
  <2>1. /\ brake \in Brakes /\ brake.wrong \in Nat /\ brake.count \in Int /\ brake.strays \in Nat
        /\ brake.wrong + n <= brake.count + brake.strays
        /\ brake.wrong + n <= MaxPins + brake.strays
    BY <1>3 DEF SessionsTypeOK, Brakes, SlotsAreCounted
  <2>2. IsFiniteSet(Looking) /\ IsFiniteSet({b \in Browsers : signin[b] # NoValue})
    BY FS_Subset DEF Looking
  <2>3. n \in Nat
    BY <2>2, Counting
  <2>4. CASE brake' = brake /\ Looking' \subseteq Looking
    <3>1. m \in Nat /\ m <= n
      BY <2>2, <2>4, Counting
    <3> HIDE DEF n, m
    <3> QED
      BY <2>1, <2>3, <2>4, <3>1
  <2>5. CASE /\ brake' = [brake EXCEPT !.count = @ + 1, !.open = TRUE]
             /\ \/ Looking' \subseteq Looking
                \/ /\ brake.count + 1 <= MaxPins
                   /\ \E b \in Browsers : Looking' \subseteq Looking \cup {b}
    <3>1. m \in Nat /\ (m <= n \/ (brake.count + 1 <= MaxPins /\ m <= n + 1))
      BY <2>2, <2>5, Counting
    <3>2. /\ brake'.count = brake.count + 1 /\ brake'.wrong = brake.wrong
          /\ brake'.strays = brake.strays
      BY <2>1, <2>5 DEF Brakes
    <3> HIDE DEF n, m
    <3> QED
      BY <2>1, <2>3, <3>1, <3>2
  <2>6. CASE /\ brake' = [brake EXCEPT !.wrong = @ + 1]
             /\ \E b \in Looking : Looking' \subseteq Looking \ {b}
    <3>1. m \in Nat /\ m + 1 <= n
      BY <2>2, <2>6, Counting
    <3>2. /\ brake'.count = brake.count /\ brake'.wrong = brake.wrong + 1
          /\ brake'.strays = brake.strays
      BY <2>1, <2>6 DEF Brakes
    <3> HIDE DEF n, m
    <3> QED
      BY <2>1, <2>3, <3>1, <3>2
  <2>7. CASE /\ brake' = [brake EXCEPT !.count = @ - 1]
             /\ \E b \in Looking : Looking' \subseteq Looking \ {b}
    <3>1. m \in Nat /\ m + 1 <= n
      BY <2>2, <2>7, Counting
    <3>2. /\ brake'.count = brake.count - 1 /\ brake'.wrong = brake.wrong
          /\ brake'.strays = brake.strays
      BY <2>1, <2>7 DEF Brakes
    <3> HIDE DEF n, m
    <3> QED
      BY <2>1, <2>3, <3>1, <3>2
  <2>8. CASE /\ brake'.count = 0 /\ brake'.wrong = 0 /\ signin' = signin
             /\ brake'.strays = Cardinality({b \in Browsers : signin[b] # NoValue})
    <3>1. Looking' \subseteq {b \in Browsers : signin[b] # NoValue}
      BY <2>8 DEF Looking
    <3>2. m \in Nat /\ brake'.strays \in Nat /\ m <= brake'.strays
      BY <2>2, <2>8, <3>1, Counting
    <3> HIDE DEF m
    <3> QED
      BY <2>8, <3>2
  <2> QED
    BY <1>3, <2>4, <2>5, <2>6, <2>7, <2>8, SlotSteps
<1> QED
  BY <1>2, <1>3

-----------------------------------------------------------------------------
(* Signing out. *)

(* Every step leaves a signed-out browser without device and renewal. *)
LEMMA RenewsInductive ==
  ASSUME SessionsTypeOK, NothingRenews, [SessionsNext]_sessionVars PROVE NothingRenews'
<1> USE DEF server, codes, client, SignedIn
<1>1. /\ token \in [Browsers -> Tokens \cup {NoValue}] /\ out \in [Browsers -> {"no", "out", "renewing"}]
      /\ device \subseteq Browsers /\ renewal \subseteq Tabs
      /\ \A c \in Calls : call[c] # NoValue => BrowserOf[call[c].tab] \in Browsers
  BY DEF SessionsTypeOK, TabCalls
<1>2. /\ leaving \cap device = {}
      /\ \A b \in Browsers : out[b] = "out" =>
           token[b] = NoValue /\ b \notin device /\ \A t \in renewal : BrowserOf[t] # b
  BY DEF NothingRenews
<1>3. ASSUME NEW b \in Browsers, LoginWithFirebase(b), device' \subseteq device \cup {b}
      PROVE  NothingRenews'
  BY <1>1, <1>2, <1>3 DEF NothingRenews, LoginWithFirebase
<1>4. ASSUME NEW b \in Browsers, ResumeSession(b) \/ VerifyNumber(b) PROVE NothingRenews'
  BY <1>3, <1>4 DEF ResumeSession, VerifyNumber
<1>5. ASSUME NEW b \in Browsers, SignInArrives(b) PROVE NothingRenews'
  BY <1>1, <1>2, <1>5 DEF NothingRenews, SignInArrives
<1>6. ASSUME NEW b \in Browsers, TokenExpires(b) PROVE NothingRenews'
  BY <1>1, <1>2, <1>6 DEF NothingRenews, TokenExpires
<1>7. ASSUME NEW b \in Browsers, LeaveFirebase(b) PROVE NothingRenews'
  BY <1>1, <1>2, <1>7 DEF NothingRenews, LeaveFirebase
<1>8. ASSUME NEW b \in Browsers, Leave(b) PROVE NothingRenews'
  <2>1. ASSUME NEW b2 \in Browsers, out'[b2] = "out"
        PROVE  token'[b2] = NoValue /\ b2 \notin device /\ \A t \in renewal : BrowserOf[t] # b2
    <3>1. CASE b2 = b
      BY <1>1, <1>2, <1>8, <2>1, <3>1 DEF Leave, Forgotten
    <3>2. CASE b2 # b
      BY <1>1, <1>2, <1>8, <2>1, <3>2 DEF Leave, Forgotten
    <3> QED
      BY <3>1, <3>2
  <2> QED
    BY <1>2, <1>8, <2>1 DEF NothingRenews, Leave
<1>9. ASSUME NEW c \in Calls, AskRenewal(c) PROVE NothingRenews'
  BY <1>1, <1>2, <1>9 DEF NothingRenews, AskRenewal
<1>10. ASSUME NEW c \in Calls, NEW ok \in BOOLEAN, Refused(c) \/ Done(c, ok) PROVE NothingRenews'
  <2>1. /\ device' = device /\ renewal' = renewal /\ leaving' = leaving /\ out' = out
        /\ token' = token \/ \E b \in Browsers : token' = Forgotten(b)
    BY <1>1, <1>10 DEF Refused, Done
  <2> QED
    BY <1>1, <1>2, <2>1 DEF NothingRenews, Forgotten
<1>11. ASSUME NEW t \in Tabs, Renewed(t) PROVE NothingRenews'
  <2>1. PICK new \in {NewToken(acct.version, 1)} : token' = [token EXCEPT ![BrowserOf[t]] = new]
    BY <1>11 DEF Renewed
  <2>2. /\ device' = device /\ renewal' = renewal \ {t} /\ leaving' = leaving /\ out' = out
        /\ t \in renewal
    BY <1>11 DEF Renewed
  <2> QED
    BY <1>1, <1>2, <2>1, <2>2 DEF NothingRenews
<1>12. ASSUME NEW t \in Tabs, RenewalFails(t) PROVE NothingRenews'
  <2>1. /\ device' = device /\ renewal' = renewal \ {t} /\ leaving' = leaving /\ out' = out
        /\ token' = token \/ \E b \in Browsers : token' = Forgotten(b)
    BY <1>12 DEF RenewalFails
  <2> QED
    BY <1>1, <1>2, <2>1 DEF NothingRenews, Forgotten
<1>13. ASSUME NEW t \in Tabs, SocketRefused(t) PROVE NothingRenews'
  BY <1>1, <1>2, <1>13 DEF NothingRenews, SocketRefused
<1> DEFINE Kept == /\ token' = token /\ device' = device /\ renewal' = renewal
                   /\ leaving' = leaving /\ out' = out
<1>14. ASSUME NEW b \in Browsers,
              CheckPin(b) \/ ReturnSlot(b) \/ \E s \in 1 .. MaxSecrets : SubmitPin(b, s)
       PROVE  Kept
  BY <1>14 DEF CheckPin, ReturnSlot, SubmitPin
<1>15. ASSUME \/ WindowEnds \/ AskForCode \/ CreateCode \/ RemoveStaff
              \/ \E k \in CodeNumbers : MinutePasses(k) \/ CodeExpires(k)
              \/ \E r \in Confirms :
                   \/ FindCode(r) \/ ClaimAttempt(r) \/ ResetPassword(r) \/ VerifyOtp(r)
                   \/ \E right \in BOOLEAN : CompareCode(r, right)
       PROVE  Kept
  BY <1>15 DEF WindowEnds, AskForCode, CreateCode, RemoveStaff, MinutePasses, CodeExpires,
               FindCode, ClaimAttempt, ResetPassword, VerifyOtp, CompareCode
<1>16. ASSUME \/ \E c \in Calls :
                   \/ \E t \in Tabs, kind \in {"plain", "logout"} : Send(c, t, kind)
                   \/ Answer(c)
              \/ UNCHANGED sessionVars
       PROVE  Kept
  BY <1>16 DEF Send, Answer, sessionVars
<1>17. Kept => NothingRenews'
  BY <1>2 DEF NothingRenews
<1> QED
  BY <1>4, <1>5, <1>6, <1>7, <1>8, <1>9, <1>10, <1>11, <1>12, <1>13, <1>14, <1>15, <1>16, <1>17
     DEF SessionsNext

-----------------------------------------------------------------------------
LEMMA SessionInit == SessionsInit => SessionInvariant
<1> SUFFICES ASSUME SessionsInit PROVE SessionInvariant
  OBVIOUS
<1>1. SessionsTypeOK
  <2>1. NoCode \in CodeRows
    BY DEF NoCode, CodeRows
  <2>2. acct \in Accounts /\ brake \in Brakes
    BY DEF SessionsInit, Accounts, Brakes
  <2> QED
    BY <2>1, <2>2 DEF SessionsInit, SessionsTypeOK
<1>2. TokensAreFresh
  BY DEF SessionsInit, TokensAreFresh, SignedIn
<1>3. CodesAreCounted
  <2>1. ASSUME NEW k \in CodeNumbers
        PROVE  Comparing(k) = {} /\ code[k] = NoCode
    BY DEF SessionsInit, Comparing
  <2>2. Cardinality({}) = 0
    BY FS_EmptySet
  <2>3. ASSUME NEW k \in CodeNumbers
        PROVE  /\ code[k].effects = IF code[k].state = "used" THEN 1 ELSE 0
               /\ code[k].checked + Cardinality(Comparing(k)) <= code[k].tries
    <3>1. Comparing(k) = {}
      BY <2>1
    <3>2. code[k].state = "none" /\ code[k].effects = 0 /\ code[k].checked = 0 /\ code[k].tries = 0
      BY <2>1 DEF NoCode
    <3> QED
      BY <2>2, <3>1, <3>2
  <2> QED
    BY <2>3 DEF CodesAreCounted
<1>4. SlotsAreCounted
  <2>1. Looking = {} /\ brake.wrong = 0 /\ brake.count = 0 /\ brake.strays = 0
    BY DEF SessionsInit, Looking
  <2>2. \A b \in Browsers : signin[b] = NoValue
    BY DEF SessionsInit
  <2> QED
    BY <2>1, <2>2, FS_EmptySet DEF SlotsAreCounted
<1>5. NothingRenews
  BY DEF SessionsInit, NothingRenews
<1> QED
  BY <1>1, <1>2, <1>3, <1>4, <1>5 DEF SessionInvariant

(* The invariant that carries the promises below.                             *)
THEOREM SessionInvariantHolds == SessionsSpec => []SessionInvariant
<1>1. SessionInvariant /\ [SessionsNext]_sessionVars => SessionInvariant'
  BY TypeInductive, FreshInductive, CodesInductive, SlotsInductive, RenewsInductive
     DEF SessionInvariant
<1> QED
  BY <1>1, SessionInit, PTL DEF SessionsSpec

(* No session outlives the password it was opened with: tokens carry the      *)
(* version of the row their password was compared with (auth/routes.ts:423).  *)
THEOREM SessionHasPasswordHolds == SessionsSpec => []SessionHasPassword
<1>1. SessionInvariant => SessionHasPassword
  BY DEF SessionInvariant, TokensAreFresh, Fresh, SessionHasPassword, Accepted
<1> QED
  BY <1>1, SessionInvariantHolds, PTL

(* A code takes effect once and is compared at most as often as attempts are  *)
(* allowed, since each comparison was paid for (auth/routes.ts:94-113).       *)
THEOREM CodeWorksOnceHolds == SessionsSpec => []CodeWorksOnce
<1>1. SessionInvariant => CodeWorksOnce
  <2> SUFFICES ASSUME SessionInvariant, NEW k \in CodeNumbers
               PROVE  code[k].effects <= 1 /\ code[k].checked <= MaxAttempts
    BY DEF CodeWorksOnce
  <2>1. /\ code[k].checked \in Nat /\ code[k].tries \in 0 .. MaxAttempts
        /\ code[k].effects = IF code[k].state = "used" THEN 1 ELSE 0
        /\ code[k].checked + Cardinality(Comparing(k)) <= code[k].tries
    BY DEF SessionInvariant, SessionsTypeOK, CodesAreCounted, CodeRows
  <2>2. IsFiniteSet(Comparing(k))
    BY FS_Subset DEF Comparing
  <2>3. Cardinality(Comparing(k)) \in Nat
    BY <2>2, FS_CardinalityType
  <2> QED
    BY <2>1, <2>3
<1> QED
  BY <1>1, SessionInvariantHolds, PTL

(* Wrong PINs of a window stay within the brake, but for the sign-ins the     *)
(* window found under way (rateLimit.ts:97-190).                              *)
THEOREM WrongPinsBoundedHolds == SessionsSpec => []WrongPinsBounded
<1>1. SessionInvariant => WrongPinsBounded
  <2> SUFFICES ASSUME SessionInvariant PROVE brake.wrong <= MaxPins + brake.strays
    BY DEF WrongPinsBounded
  <2>1. brake.wrong \in Nat /\ brake.strays \in Nat
    BY DEF SessionInvariant, SessionsTypeOK, Brakes
  <2>2. IsFiniteSet(Looking)
    BY FS_Subset DEF Looking
  <2>3. Cardinality(Looking) \in Nat
    BY <2>2, FS_CardinalityType
  <2> QED
    BY <2>1, <2>3 DEF SessionInvariant, SlotsAreCounted
<1> QED
  BY <1>1, SessionInvariantHolds, PTL

(* Guesses of codes and PINs are limited, and a right code works once          *)
(* (auth/routes.ts:94-113, rateLimit.ts:97-190).                               *)
THEOREM GuessesAreLimitedHolds == SessionsSpec => []GuessesAreLimited
BY CodeWorksOnceHolds, WrongPinsBoundedHolds, PTL DEF GuessesAreLimited

(* A student who signed out is not signed in again by anything but a sign-in, *)
(* unless a renewal was pending (Profile.tsx:57-65, api.ts:86-91).            *)
THEOREM SignedOutStaysOutHolds == SessionsSpec => []SignedOutStaysOut
<1>1. SessionInvariant => SignedOutStaysOut
  BY DEF SessionInvariant, NothingRenews, SignedOutStaysOut
<1> QED
  BY <1>1, SessionInvariantHolds, PTL
================================================================================
