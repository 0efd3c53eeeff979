------------------------------- MODULE Sessions -------------------------------
(***************************************************************************)
(* Who is signed in: the account of a shop user or of a student, the       *)
(* one-time codes that reset a password or sign a student in, the brake on *)
(* wrong PINs, and the browsers that keep a session token in storage their *)
(* tabs share.  A request carries the token of the moment it was sent, and *)
(* what its answer does to the storage it does when it arrives.            *)
(***************************************************************************)
EXTENDS Integers, FiniteSets

CONSTANTS
  Browsers,    \* browsers the account is used in
  Tabs,        \* their open tabs
  BrowserOf,   \* BrowserOf[t]: the browser of a tab
  Calls,       \* bound: authenticated requests under way at once
  Confirms,    \* bound: confirmations of a code under way at once
  MaxBusy,     \* bound: sign-ins, requests and confirmations under way at once
  MaxCodes,    \* bound: codes sent, numbered as they are created
  MaxAttempts, \* MAX_LOGIN_OTP_ATTEMPTS, MAX_RESET_OTP_ATTEMPTS
  MaxPins,     \* wrong PINs of a window (perShop of pinFailures)
  MaxWindows,  \* bound: windows of the brake that end
  MaxTokens,   \* bound: session tokens issued
  MaxSecrets,  \* bound: passwords the account has had
  NoValue      \* no token, no request

ASSUME SessionAssumption ==
  /\ IsFiniteSet(Browsers) /\ IsFiniteSet(Confirms)
  /\ BrowserOf \in [Tabs -> Browsers]
  /\ MaxBusy \in Nat /\ MaxCodes \in Nat /\ MaxAttempts \in Nat \ {0} /\ MaxPins \in Nat
  /\ MaxWindows \in Nat /\ MaxTokens \in Nat /\ MaxSecrets \in Nat \ {0}

VARIABLES
  role,     \* whose account it is: a shop user's, or that of a student who
            \* proves the phone number to Firebase or (locally) to PrintQ
  acct,     \* the ShopUser row: exists, its password, sessionVersion
  issued,   \* tokens issued so far
  token,    \* token[b]: printq:<role>:token in the storage of browser b
  device,   \* browsers with a trusted-device session of Firebase
  call,     \* call[c]: an authenticated request of a tab
  renewal,  \* tabs whose studentRenewal promise is pending
  signin,   \* signin[b]: a sign-in of the browser that is under way
  leaving,  \* browsers between the two steps of a student's sign-out
  code,     \* code[k]: a LoginOtp or PasswordResetOtp row
  asking,   \* requests for a code that found none of the last minute
  confirm,  \* confirm[r]: a confirmation between two of its statements
  brake,    \* the PIN brake: its counter, and what its window has seen
  out       \* history: browsers signed out, and whether a renewal was pending

server == <<acct, issued>>
codes == <<code, asking, confirm>>
client == <<token, device, call, renewal, leaving, out>>
sessionVars == <<role, server, client, signin, codes, brake>>

-----------------------------------------------------------------------------
(* Data. *)

CodeNumbers == 1 .. MaxCodes

(* live: the JWT has not expired.  secret: the password it was issued for;    *)
(* history.                                                                   *)
Tokens == [n: 1 .. MaxTokens, version: Nat, secret: 1 .. MaxSecrets, live: BOOLEAN]
Accounts == [exists: BOOLEAN, secret: 1 .. MaxSecrets, version: Nat]
CodeRows == [state: {"none", "open", "used", "expired"}, recent: BOOLEAN,
             tries: 0 .. MaxAttempts, checked: Nat, effects: Nat]
Brakes == [count: Int, open: BOOLEAN, wrong: Nat, strays: Nat, ended: 0 .. MaxWindows]
TabCalls == [tab: Tabs, kind: {"plain", "logout"}, token: Tokens, retry: BOOLEAN,
             step: {"sent", "served", "refused", "waiting"}]
SignIns == [step: {"sent"}, secret: 1 .. MaxSecrets]
           \cup [step: {"granted", "answered"}, token: Tokens]
Confirmations == [code: CodeNumbers, browser: Browsers, step: {"found", "claimed", "right"}]

NewToken(version, secret) ==
  [n |-> issued + 1, version |-> version, secret |-> secret, live |-> TRUE]

(* requireStudent; requireShopUser with resolveShopSession. *)
Accepted(tok) ==
  /\ tok.live
  /\ role = "shop" => acct.exists /\ tok.version = acct.version

NoCode == [state |-> "none", recent |-> FALSE, tries |-> 0, checked |-> 0, effects |-> 0]

(* The newest code of the account that is neither used nor expired. *)
Newest == {k \in CodeNumbers : code[k].state = "open"
                               /\ \A l \in CodeNumbers : l > k => code[l].state # "open"}

SignedIn(b) == token[b] # NoValue

Room ==
  Cardinality({c \in Calls : call[c] # NoValue})
  + Cardinality({r \in Confirms : confirm[r] # NoValue})
  + Cardinality({b \in Browsers : signin[b] # NoValue}) < MaxBusy

Waiting(t) == {c \in Calls : call[c] # NoValue /\ call[c].tab = t /\ call[c].step = "waiting"}

-----------------------------------------------------------------------------
SessionsInit ==
  /\ role \in {"shop", "firebase", "local"}
  /\ acct = [exists |-> TRUE, secret |-> 1, version |-> 0]
  /\ issued = 0
  /\ token = [b \in Browsers |-> NoValue]
  /\ device = {} /\ renewal = {} /\ leaving = {}
  /\ call = [c \in Calls |-> NoValue]
  /\ signin = [b \in Browsers |-> NoValue]
  /\ code = [k \in CodeNumbers |-> NoCode]
  /\ asking = 0
  /\ confirm = [r \in Confirms |-> NoValue]
  /\ brake = [count |-> 0, open |-> FALSE, wrong |-> 0, strays |-> 0, ended |-> 0]
  /\ out = [b \in Browsers |-> "no"]

-----------------------------------------------------------------------------
(* Signing in. *)

(* POST /shop/staff-login, and /shop/login with a PIN: pinLoginFailureLimiter *)
(* takes a slot before the handler runs, and keeps it of a request it refuses. *)
SubmitPin(b, secret) ==
  /\ role = "shop" /\ signin[b] = NoValue /\ Room
  /\ secret <= acct.secret
  /\ brake.count <= MaxPins       \* bound: one refused sign-in is counted
  /\ brake' = [brake EXCEPT !.count = @ + 1, !.open = TRUE]
  /\ signin' = IF brake.count + 1 > MaxPins THEN signin
               ELSE [signin EXCEPT ![b] = [step |-> "sent", secret |-> secret]]
  /\ UNCHANGED <<role, server, client, codes>>

(* Fault: the session version is read when the token is signed. *)
VersionReadLate(b) ==
  /\ signin[b] # NoValue /\ signin[b].step = "sent"
  /\ acct.exists /\ issued < MaxTokens
  /\ issued' = issued + 1
  /\ signin' = [signin EXCEPT ![b] =
       [step |-> "granted", token |-> NewToken(acct.version, signin[b].secret)]]
  /\ UNCHANGED <<role, acct, client, codes, brake>>

(* The password and the session version come from one read of the row. *)
CheckPin(b) ==
  /\ signin[b] # NoValue /\ signin[b].step = "sent"
  /\ IF acct.exists /\ acct.secret = signin[b].secret
     THEN /\ issued < MaxTokens
          /\ issued' = issued + 1
          /\ signin' = [signin EXCEPT ![b] =
               [step |-> "granted", token |-> NewToken(acct.version, acct.secret)]]
          /\ UNCHANGED brake
     ELSE /\ signin' = [signin EXCEPT ![b] = NoValue]
          /\ brake' = [brake EXCEPT !.wrong = @ + 1]
          /\ UNCHANGED issued
  /\ UNCHANGED <<role, acct, client, codes>>

(* A success gives its slot back, to whatever window has begun meanwhile. *)
ReturnSlot(b) ==
  /\ signin[b] # NoValue /\ signin[b].step = "granted"
  /\ signin' = [signin EXCEPT ![b].step = "answered"]
  /\ brake' = IF role = "shop" THEN [brake EXCEPT !.count = @ - 1] ELSE brake
  /\ UNCHANGED <<role, server, client, codes>>

(* The key of the counter expires a window after its first hit. *)
WindowEnds ==
  /\ brake.open /\ brake.ended < MaxWindows
  /\ brake' = [count |-> 0, open |-> FALSE, wrong |-> 0, ended |-> brake.ended + 1,
               strays |-> Cardinality({b \in Browsers : signin[b] # NoValue})]
  /\ UNCHANGED <<role, server, client, signin, codes>>

(* POST /student/firebase-login answers a number Firebase confirmed with a    *)
(* token.                                                                     *)
LoginWithFirebase(b) ==
  /\ role = "firebase" /\ signin[b] = NoValue /\ ~SignedIn(b) /\ b \notin leaving
  /\ Room /\ issued < MaxTokens
  /\ out' = [out EXCEPT ![b] = "no"]
  /\ issued' = issued + 1
  /\ signin' = [signin EXCEPT ![b] = [step |-> "granted", token |-> NewToken(acct.version, 1)]]
  /\ UNCHANGED <<role, acct, token, call, renewal, leaving, codes, brake>>

(* PhoneLogin on entry: the device is trusted from an earlier visit ...       *)
ResumeSession(b) ==
  /\ b \in device
  /\ LoginWithFirebase(b)
  /\ UNCHANGED device

(* ... or the student confirms the code of an SMS, and it is trusted now.     *)
VerifyNumber(b) ==
  /\ LoginWithFirebase(b)
  /\ device' = device \cup {b}

SignInArrives(b) ==
  /\ signin[b] # NoValue /\ signin[b].step = "answered"
  /\ token' = [token EXCEPT ![b] = signin[b].token]
  /\ signin' = [signin EXCEPT ![b] = NoValue]
  /\ out' = [out EXCEPT ![b] = "no"]
  /\ UNCHANGED <<role, server, device, call, renewal, leaving, codes, brake>>

-----------------------------------------------------------------------------
(* One-time codes: /student/request-otp and /student/verify-otp, or           *)
(* /shop/request-reset and /shop/reset-password.                              *)

(* No code of the last minute, none too many today ... *)
AskForCode ==
  /\ role # "firebase"
  /\ ~\E k \in CodeNumbers : code[k].recent
  /\ asking + Cardinality({k \in CodeNumbers : code[k].state # "none"}) < MaxCodes
  /\ asking' = asking + 1
  /\ UNCHANGED <<role, server, client, signin, code, confirm, brake>>

(* ... so one is made, even if another request has made one since. *)
CreateCode ==
  /\ asking > 0
  /\ asking' = asking - 1
  /\ \E k \in CodeNumbers :
       /\ code[k].state = "none" /\ \A l \in CodeNumbers : l < k => code[l].state # "none"
       /\ code' = [code EXCEPT ![k].state = "open", ![k].recent = TRUE]
  /\ UNCHANGED <<role, server, client, signin, confirm, brake>>

MinutePasses(k) ==
  /\ code[k].recent
  /\ code' = [code EXCEPT ![k].recent = FALSE]
  /\ UNCHANGED <<role, server, client, signin, asking, confirm, brake>>

CodeExpires(k) ==
  /\ code[k].state = "open" /\ ~code[k].recent
  /\ code' = [code EXCEPT ![k].state = "expired"]
  /\ UNCHANGED <<role, server, client, signin, asking, confirm, brake>>

FindCode(r) ==
  /\ confirm[r] = NoValue /\ Room
  /\ \E k \in Newest, b \in Browsers :
       confirm' = [confirm EXCEPT ![r] = [code |-> k, browser |-> b, step |-> "found"]]
  /\ UNCHANGED <<role, server, client, signin, code, asking, brake>>

(* One of the attempts is claimed before the code is compared. *)
ClaimAttempt(r) ==
  /\ confirm[r] # NoValue /\ confirm[r].step = "found"
  /\ LET k == confirm[r].code
     IN IF code[k].state # "used" /\ code[k].tries < MaxAttempts
        THEN /\ code' = [code EXCEPT ![k].tries = @ + 1]
             /\ confirm' = [confirm EXCEPT ![r].step = "claimed"]
        ELSE /\ confirm' = [confirm EXCEPT ![r] = NoValue]
             /\ UNCHANGED code
  /\ UNCHANGED <<role, server, client, signin, asking, brake>>

CompareCode(r, right) ==
  /\ confirm[r] # NoValue /\ confirm[r].step = "claimed"
  /\ code' = [code EXCEPT ![confirm[r].code].checked = @ + 1]
  /\ confirm' = IF right THEN [confirm EXCEPT ![r].step = "right"]
                ELSE [confirm EXCEPT ![r] = NoValue]
  /\ UNCHANGED <<role, server, client, signin, asking, brake>>

(* Fault: a code is consumed whatever has become of it. *)
ConsumableAnyway(k) == TRUE

Consumable(k) == code[k].state = "open"

Consumed(k) == [code EXCEPT ![k].state = "used", ![k].effects = @ + 1]

(* The request that consumes a reset code changes the password, and every     *)
(* token issued under the old one stops working; all of it in a transaction.  *)
ResetPassword(r) ==
  /\ role = "shop"
  /\ confirm[r] # NoValue /\ confirm[r].step = "right"
  /\ confirm' = [confirm EXCEPT ![r] = NoValue]
  /\ IF Consumable(confirm[r].code) /\ acct.exists
     THEN /\ acct.secret < MaxSecrets
          /\ code' = Consumed(confirm[r].code)
          /\ acct' = [acct EXCEPT !.secret = @ + 1, !.version = @ + 1]
     ELSE UNCHANGED <<code, acct>>
  /\ UNCHANGED <<role, issued, client, signin, asking, brake>>

(* The request that consumes a login code signs the student in. *)
VerifyOtp(r) ==
  /\ role = "local"
  /\ confirm[r] # NoValue /\ confirm[r].step = "right"
  /\ confirm' = [confirm EXCEPT ![r] = NoValue]
  /\ IF Consumable(confirm[r].code)
     THEN /\ issued < MaxTokens /\ signin[confirm[r].browser] = NoValue
          /\ issued' = issued + 1
          /\ code' = Consumed(confirm[r].code)
          /\ signin' = [signin EXCEPT ![confirm[r].browser] =
               [step |-> "granted", token |-> NewToken(0, 1)]]
     ELSE UNCHANGED <<code, issued, signin>>
  /\ UNCHANGED <<role, acct, client, asking, brake>>

-----------------------------------------------------------------------------
(* A shop user leaves: sign-out everywhere, removal by the owner. *)

RemoveStaff ==
  /\ role = "shop" /\ acct.exists
  /\ acct' = [acct EXCEPT !.exists = FALSE]
  /\ UNCHANGED <<role, issued, client, signin, codes, brake>>

TokenExpires(b) ==
  /\ SignedIn(b) /\ token[b].live
  /\ token' = [token EXCEPT ![b].live = FALSE]
  /\ UNCHANGED <<role, server, device, call, renewal, leaving, out, signin, codes, brake>>

-----------------------------------------------------------------------------
(* Requests of the web app (api.ts). *)

(* kind: an ordinary request, or the sign-out of a shop user.  retry: a 401   *)
(* may still be answered with a renewal.                                      *)
Request(t, kind) ==
  [tab |-> t, kind |-> kind, token |-> token[BrowserOf[t]],
   retry |-> role # "shop", step |-> "sent"]

Send(c, t, kind) ==
  /\ call[c] = NoValue /\ Room /\ SignedIn(BrowserOf[t])
  /\ kind = "logout" => role = "shop"
  /\ call' = [call EXCEPT ![c] = Request(t, kind)]
  /\ UNCHANGED <<role, server, token, device, renewal, leaving, out, signin, codes, brake>>

(* The API answers; POST /shop/logout ends every session of the account.      *)
Answer(c) ==
  /\ call[c] # NoValue /\ call[c].step = "sent"
  /\ LET ok == Accepted(call[c].token)
     IN /\ call' = [call EXCEPT ![c].step = IF ok THEN "served" ELSE "refused"]
        /\ acct' = IF ok /\ call[c].kind = "logout" THEN [acct EXCEPT !.version = @ + 1] ELSE acct
  /\ UNCHANGED <<role, issued, token, device, renewal, leaving, out, signin, codes, brake>>

Forgotten(b) == [token EXCEPT ![b] = NoValue]

(* The answer arrives, or fetch fails (ok = FALSE): only a sign-out forgets    *)
(* the token whatever came of it.                                             *)
Done(c, ok) ==
  /\ call[c] # NoValue
  /\ ok => call[c].step = "served"
  /\ ~ok => call[c].step \in {"sent", "served", "refused"}
  /\ call' = [call EXCEPT ![c] = NoValue]
  /\ token' = IF call[c].kind = "logout" THEN Forgotten(BrowserOf[call[c].tab]) ELSE token
  /\ UNCHANGED <<role, server, device, renewal, leaving, out, signin, codes, brake>>

(* A 401 of a student is first answered by a renewal, which all requests of a *)
(* tab share ...                                                              *)
AskRenewal(c) ==
  /\ call[c] # NoValue /\ call[c].step = "refused" /\ call[c].retry
  /\ BrowserOf[call[c].tab] \in device
  /\ call' = [call EXCEPT ![c].step = "waiting"]
  /\ renewal' = renewal \cup {call[c].tab}
  /\ UNCHANGED <<role, server, token, device, leaving, out, signin, codes, brake>>

(* ... and if there can be none, the token of the browser is forgotten: not   *)
(* necessarily the one that was refused.                                      *)
Refused(c) ==
  /\ call[c] # NoValue /\ call[c].step = "refused"
  /\ ~(call[c].retry /\ BrowserOf[call[c].tab] \in device)
  /\ call' = [call EXCEPT ![c] = NoValue]
  /\ token' = Forgotten(BrowserOf[call[c].tab])
  /\ UNCHANGED <<role, server, device, renewal, leaving, out, signin, codes, brake>>

(* The new token is stored, and the waiting requests are sent again with it.  *)
Renewed(t) ==
  /\ t \in renewal /\ issued < MaxTokens
  /\ issued' = issued + 1
  /\ LET new == NewToken(acct.version, 1)
     IN /\ token' = [token EXCEPT ![BrowserOf[t]] = new]
        /\ call' = [c \in Calls |-> IF c \in Waiting(t)
                      THEN [call[c] EXCEPT !.step = "sent", !.retry = FALSE, !.token = new]
                      ELSE call[c]]
  /\ renewal' = renewal \ {t}
  /\ UNCHANGED <<role, acct, device, leaving, out, signin, codes, brake>>

RenewalFails(t) ==
  /\ t \in renewal
  /\ renewal' = renewal \ {t}
  /\ token' = IF Waiting(t) # {} THEN Forgotten(BrowserOf[t]) ELSE token
  /\ call' = [c \in Calls |-> IF c \in Waiting(t) THEN NoValue ELSE call[c]]
  /\ UNCHANGED <<role, server, device, leaving, out, signin, codes, brake>>

(* getStudentSocket: a socket refused for its token asks for a renewal too.   *)
SocketRefused(t) ==
  /\ role = "firebase" /\ t \notin renewal /\ BrowserOf[t] \in device
  /\ SignedIn(BrowserOf[t]) /\ ~Accepted(token[BrowserOf[t]])
  /\ renewal' = renewal \cup {t}
  /\ UNCHANGED <<role, server, token, device, call, leaving, out, signin, codes, brake>>

(* Fault: the trusted device is kept. *)
LeaveKeepingDevice(b) ==
  /\ role # "shop" /\ SignedIn(b) /\ b \notin leaving
  /\ leaving' = leaving \cup {b}
  /\ UNCHANGED <<role, server, token, device, call, renewal, out, signin, codes, brake>>

(* Profile.logout: first the trusted device, then the token. *)
LeaveFirebase(b) ==
  /\ role # "shop" /\ SignedIn(b) /\ b \notin leaving
  /\ device' = device \ {b}
  /\ leaving' = leaving \cup {b}
  /\ UNCHANGED <<role, server, token, call, renewal, out, signin, codes, brake>>

(* out: nothing that is under way can bring a token back, or something can.   *)
Leave(b) ==
  /\ b \in leaving
  /\ leaving' = leaving \ {b}
  /\ token' = Forgotten(b)
  /\ out' = [out EXCEPT ![b] =
       IF \E t \in renewal : BrowserOf[t] = b THEN "renewing" ELSE "out"]
  /\ UNCHANGED <<role, server, device, call, renewal, signin, codes, brake>>

SessionsNext ==
  \/ \E b \in Browsers :
       \/ \E s \in 1 .. MaxSecrets : SubmitPin(b, s)
       \/ CheckPin(b) \/ ReturnSlot(b) \/ ResumeSession(b) \/ VerifyNumber(b)
       \/ SignInArrives(b)
       \/ TokenExpires(b) \/ LeaveFirebase(b) \/ Leave(b)
  \/ WindowEnds \/ AskForCode \/ CreateCode \/ RemoveStaff
  \/ \E k \in CodeNumbers : MinutePasses(k) \/ CodeExpires(k)
  \/ \E r \in Confirms :
       \/ FindCode(r) \/ ClaimAttempt(r) \/ ResetPassword(r) \/ VerifyOtp(r)
       \/ \E right \in BOOLEAN : CompareCode(r, right)
  \/ \E c \in Calls :
       \/ \E t \in Tabs, kind \in {"plain", "logout"} : Send(c, t, kind)
       \/ Answer(c) \/ AskRenewal(c) \/ Refused(c)
       \/ \E ok \in BOOLEAN : Done(c, ok)
  \/ \E t \in Tabs : Renewed(t) \/ RenewalFails(t) \/ SocketRefused(t)

SessionsSpec == SessionsInit /\ [][SessionsNext]_sessionVars

-----------------------------------------------------------------------------
(* A session the API accepts was opened with the password the account has     *)
(* now: none outlives a reset, not even one whose sign-in the reset overtook  *)
(* (auth/routes.ts:423-427).                                                  *)
SessionHasPassword ==
  role = "shop" =>
    \A b \in Browsers : SignedIn(b) /\ Accepted(token[b]) => token[b].secret = acct.secret

(* A code changes one password or opens one session, and is compared at most  *)
(* five times.                                                                *)
CodeWorksOnce ==
  \A k \in CodeNumbers : code[k].effects <= 1 /\ code[k].checked <= MaxAttempts

(* Between two windows of the brake no more wrong PINs are looked at than it  *)
(* allows, one more for each sign-in that was under way when the window began.*)
WrongPinsBounded == brake.wrong <= MaxPins + brake.strays

(* However many requests bring codes and PINs at once, guesses are limited,   *)
(* and a right one works once (auth/routes.ts:94-113, 401-427;                *)
(* rateLimit.ts:97-190).                                                      *)
GuessesAreLimited == CodeWorksOnce /\ WrongPinsBounded

(* A student who signed out stays signed out until the next sign-in: the      *)
(* trusted device is gone, so no request of any tab renews the session, but   *)
(* for a renewal that was already under way (Profile.tsx:57-65, api.ts:86-91). *)
SignedOutStaysOut == \A b \in Browsers : out[b] = "out" => ~SignedIn(b)

SessionsTypeOK ==
  /\ role \in {"shop", "firebase", "local"}
  /\ acct \in Accounts
  /\ issued \in 0 .. MaxTokens
  /\ token \in [Browsers -> Tokens \cup {NoValue}]
  /\ device \subseteq Browsers /\ renewal \subseteq Tabs /\ leaving \subseteq Browsers
  /\ call \in [Calls -> TabCalls \cup {NoValue}]
  /\ signin \in [Browsers -> SignIns \cup {NoValue}]
  /\ code \in [CodeNumbers -> CodeRows]
  /\ asking \in Nat
  /\ confirm \in [Confirms -> Confirmations \cup {NoValue}]
  /\ brake \in Brakes
  /\ out \in [Browsers -> {"no", "out", "renewing"}]
===============================================================================
