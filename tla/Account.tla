------------------------------- MODULE Account -------------------------------
(***************************************************************************)
(* Signing in and out: the steps of AuthScreen.tsx, the token and user of  *)
(* the store, the token of the HTTP client, the profile as AuthScreen and  *)
(* SettingsPanel save it, and auth/service.go with its keys in Redis.  A   *)
(* request is served at one moment and its answer applied at a later one,  *)
(* by a function of the screen that asked, which may be gone by then.      *)
(***************************************************************************)
EXTENDS Naturals, FiniteSets

CONSTANTS Emails, None,
          Start,             \* the accounts there may be at first
          MaxVerifyAttempts, \* of VerifyCode, 3
          MaxIssued,         \* bound for TLC: codes ever mailed
          MaxTokens,         \* bound for TLC: tokens ever signed
          MaxAsked           \* bound for TLC: requests under way at a time

(* What the users table keeps, a user of the store, a token; a temporary token is a pair of an *)
(* email and a code.                                                                           *)
Accounts == [pw : BOOLEAN, named : BOOLEAN]
StoredUsers == [email : Emails, named : BOOLEAN]
Tokens == Emails \X Nat
Steps == {"email", "code", "password", "forgot", "reset", "profile"}

AccountConstants == /\ Start \subseteq [Emails -> {None} \cup Accounts]
                    /\ None \notin Emails /\ None \notin Accounts /\ None \notin StoredUsers
                    /\ None \notin Tokens /\ None \notin Steps
                    /\ MaxVerifyAttempts \in Nat \ {0}
                    /\ {MaxIssued, MaxTokens, MaxAsked} \subseteq Nat

VARIABLES
  acct,   \* table users: None, or whether a password and a username are set
  issued, \* codes mailed so far: a code is its number
  code,   \* authcode:<email>, 0 when there is none
  tries,  \* authattempts:<email>
  reset,  \* pwdreset:<email>
  temps,  \* 2fa:<token>: temporary tokens, <<email, the code they were given for>>
  signed, \* the tokens signed so far, <<email, number>>
  token, user, \* of the store
  held,   \* the token of ApiClient
  step,   \* of AuthScreen, None while it is not mounted
  email,  \* typed there last
  temp,   \* temp2fa, None when it is ''
  asked,  \* the requests under way
  refused, slips, \* history: the tries refused since <tries> was last deleted, and those of
                  \* them that Redis did not bound: the attempts were not read or not counted
  used, excused,  \* history: the codes that have signed somebody in, and those of them that may
                  \* again: not deleted, or another request had compared with it already
  odd     \* history: what befell, among "nameless", "dropped", "late", "moved", "spent",
          \* "expired", "detour"

counts == <<tries, refused, slips>>
marks == <<used, excused>>
server == <<acct, issued, code, counts, reset, temps, signed, marks>>
client == <<token, user, held, step, email, temp>>
vars == <<server, client, asked, odd>>

Needs(u) == u # None /\ ~u.named
Screen(tok, u) == IF tok # None /\ u = None THEN "loading"
                  ELSE IF tok = None \/ Needs(u) THEN "auth" ELSE "main"

(* A request: what it asks, for which email and with what (a code, or 1 for yes), the step and *)
(* the user it is made for, the tokens it carries, how far it has come, whether its effect was *)
(* not undone, and the answer.                                                                 *)
Call(op, e, arg, tok) == [op |-> op, email |-> e, arg |-> arg, from |-> step, for |-> user, tok |-> tok,
                          temp |-> temp, at |-> "sent", here |-> TRUE, res |-> None]
Me(tok) == [Call("me", tok[1], 0, tok) EXCEPT !.from = None, !.for = None, !.temp = None]
(* loading of AuthScreen: its buttons are disabled.                                            *)
Busy == \E t \in asked : t.from # None /\ t.here

(* Mutant: the getMe of a token that is gone is heard.                                         *)
NoneCancelled(T) == T
Cancelled(T) == {[t EXCEPT !.here = @ /\ t.op # "me"] : t \in T}
(* Token and user are set.  App shows another screen or the same; AuthScreen is unmounted, or  *)
(* mounted at its first step, or at the step the handler or its effect on the user sets; the   *)
(* effect on a new token cancels the getMe of the one before and asks anew.                    *)
Set(tok, u, st, tmp, T) ==
  LET stays == step # None /\ Screen(tok, u) = "auth" IN
  /\ token' = tok /\ user' = u
  /\ step' = IF Screen(tok, u) # "auth" THEN None
             ELSE IF Needs(u) THEN "profile" ELSE IF stays THEN st ELSE "email"
  /\ email' = (IF stays THEN email ELSE None) /\ temp' = (IF stays THEN tmp ELSE None)
  /\ asked' = LET left == {[t EXCEPT !.here = @ /\ (stays \/ t.from = None)] : t \in T}
              IN IF tok = token THEN left
                 ELSE Cancelled(left) \cup IF tok = None THEN {} ELSE {Me(tok)}

Init == /\ acct \in Start
        /\ issued = 0 /\ code = [e \in Emails |-> 0] /\ tries = code /\ reset = code
        /\ refused = tries /\ slips = tries /\ used = {} /\ excused = {}
        /\ temps = {} /\ signed = {} /\ token = None /\ user = None /\ held = None
        /\ step = "email" /\ email = None /\ temp = None /\ asked = {} /\ odd = {}
-----------------------------------------------------------------------------
(* The user.                                                                                   *)
MayAsk == Cardinality(asked) < MaxAsked
Ask(st, op, e, arg) == /\ step \in st /\ ~Busy /\ MayAsk /\ e # None
                       /\ asked' = asked \cup {Call(op, e, arg, held)} /\ email' = e
                       /\ UNCHANGED <<server, token, user, held, step, temp, odd>>

SubmitEmail(e) == Ask({"email"}, "sendCode", e, 0)
(* The button of the step "reset" asks for a code to sign in, too.                             *)
Resend == Ask({"code", "reset"}, "again", email, 0)
SubmitCode(c) == Ask({"code"}, "verify", email, c)
SubmitPassword(right) == Ask({"password"}, "verify2FA", email, right)
SubmitForgot(e) == Ask({"forgot"}, "forgot", e, 0)
SubmitReset(c) == Ask({"reset"}, "reset", email, c)

(* The form of the last step, and the one of the settings, where the username may be emptied;  *)
(* a picture is uploaded before.                                                               *)
SubmitProfile(pic, named) ==
  /\ MayAsk
  /\ \/ step = "profile" /\ ~Busy /\ named = 1
     \/ Screen(token, user) = "main" /\ \A t \in asked : t.op \notin {"upload", "put", "get"}
  /\ asked' = asked \cup {Call(IF pic THEN "upload" ELSE "put", None, named, held)}
  /\ UNCHANGED <<server, client, odd>>

BackOf == [code |-> "email", password |-> "code", forgot |-> "password", reset |-> "forgot"]
Kept(to) == IF step = "password" /\ to = "code" THEN None ELSE temp
Links == [x \in {"code", "password", "forgot", "reset"} |-> {BackOf[x]}
            \cup IF x = "password" THEN {"forgot"} ELSE {}]
(* The arrow of a step, and the link of the step "password".                                   *)
Turn(to) ==
  /\ step \in DOMAIN Links /\ to \in Links[step]
  /\ step' = to /\ temp' = Kept(to)
  /\ odd' = odd \cup IF to = "password" /\ temp = None THEN {"detour"} ELSE {}
  /\ UNCHANGED <<server, token, user, held, email, asked>>

(* The token of ApiClient stays.                                                               *)
Logout == /\ Screen(token, user) = "main" /\ Set(None, None, "email", None, asked)
          /\ UNCHANGED <<server, held, odd>>

(* The window is loaded again: only the token was kept, and what others ask for goes on.       *)
Reload == /\ token' = token /\ user' = None /\ held' = token /\ email' = None /\ temp' = None
          /\ step' = IF token = None THEN "email" ELSE None
          /\ asked' = {t \in asked : t.op = "other"}
                        \cup IF token = None THEN {} ELSE {Me(token)}
          /\ UNCHANGED <<server, odd>>

(* Somebody signs in to the account from elsewhere.                                            *)
OtherVerify(e, c) ==
  /\ MayAsk
  /\ asked' = asked \cup {[Call("other", e, c, None) EXCEPT !.from = None, !.for = None, !.temp = None]}
  /\ UNCHANGED <<server, client, odd>>
-----------------------------------------------------------------------------
(* The server.                                                                                 *)
Becomes(t, at, res) == asked' = (asked \ {t}) \cup {[t EXCEPT !.at = at, !.res = res]}
UserOf(e) == [email |-> e, named |-> acct'[e].named]

SendCode(t) ==
  /\ t.op \in {"sendCode", "again"} /\ issued < MaxIssued /\ issued' = issued + 1
  /\ code' = [code EXCEPT ![t.email] = issued'] /\ Becomes(t, "ok", None)
  /\ UNCHANGED <<acct, counts, reset, temps, signed, marks, odd>>
SendPasswordResetCode(t) ==
  /\ t.op = "forgot" /\ issued < MaxIssued /\ issued' = issued + 1
  /\ reset' = [reset EXCEPT ![t.email] = issued'] /\ Becomes(t, "ok", None)
  /\ UNCHANGED <<acct, code, counts, temps, signed, marks, odd>>

(* Mutant: the attempts are not looked at.                                                     *)
MayTryAlways(e) == TRUE
MayTry(e) == tries[e] < MaxVerifyAttempts
Plus(f, e) == [f EXCEPT ![e] = @ + 1]
(* VerifyCode is no transaction: it reads the attempts, then the code, and then deletes both.  *)
(* An error of Redis reads as no attempts.                                                     *)
ReadTries(t) ==
  /\ t.op \in {"verify", "other"}
  /\ \/ Becomes(t, IF MayTry(t.email) THEN "read" ELSE "fail", None) /\ UNCHANGED slips
     \/ ~MayTry(t.email) /\ Becomes(t, "read", None) /\ slips' = Plus(slips, t.email)
  /\ UNCHANGED <<acct, issued, code, tries, refused, reset, temps, signed, marks, odd>>
(* A try is refused when the code is another, or could not be read; counting it may fail.      *)
CompareCode(t) ==
  /\ t.at = "read"
  /\ \/ /\ code[t.email] = t.arg /\ t.arg # 0
        /\ Becomes(t, "same", None) /\ UNCHANGED counts
     \/ /\ Becomes(t, "fail", None) /\ refused' = Plus(refused, t.email)
        /\ \/ tries' = Plus(tries, t.email) /\ UNCHANGED slips
           \/ slips' = Plus(slips, t.email) /\ UNCHANGED tries
  /\ UNCHANGED <<acct, issued, code, reset, temps, signed, marks, odd>>
Sign(t, e) == /\ Cardinality(signed) < MaxTokens
              /\ signed' = signed \cup {<<e, Cardinality(signed)>>}
              /\ Becomes(t, "ok", [tok |-> <<e, Cardinality(signed)>>, user |-> UserOf(e)])
(* Either deletion may fail unnoticed, and so may what comes after them: the user that is      *)
(* created, the temporary token, the session.  A query for the password that fails signs in    *)
(* without it.                                                                                 *)
Overlapped(t) == \E x \in asked \ {t} : x.at = "same" /\ x.email = t.email /\ x.arg = t.arg
CodeDeleted(e) == code' = [code EXCEPT ![e] = 0]
TriesDeleted(e) == /\ tries' = [tries EXCEPT ![e] = 0] /\ refused' = [refused EXCEPT ![e] = 0]
                   /\ slips' = [slips EXCEPT ![e] = 0]
Admits(t) ==
  LET c == <<t.email, t.arg>> IN
  /\ acct' = [acct EXCEPT ![t.email] = IF @ = None THEN [pw |-> FALSE, named |-> FALSE] ELSE @]
  /\ used' = used \cup {c}
  /\ \/ /\ acct'[t.email].pw /\ UNCHANGED signed
        /\ temps' = temps \cup {c}
        /\ Becomes(t, "ok", [tok |-> None, user |-> UserOf(t.email), temp |-> c])
     \/ Sign(t, t.email) /\ UNCHANGED temps
Grant(t) ==
  /\ t.at = "same"
  /\ CodeDeleted(t.email) \/ UNCHANGED code
  /\ TriesDeleted(t.email) \/ UNCHANGED counts
  /\ excused' = excused \cup IF Overlapped(t) \/ code' = code THEN {<<t.email, t.arg>>} ELSE {}
  /\ \/ Admits(t)
     \/ Becomes(t, "fail", None) /\ UNCHANGED <<acct, used, temps, signed>>
  /\ UNCHANGED <<issued, reset, odd>>
(* Verify2FA deletes the temporary token, if it can, before it compares the password.          *)
Verify2FA(t) ==
  /\ t.op = "verify2FA"
  /\ \/ Becomes(t, "fail", None) /\ UNCHANGED <<temps, signed>>
     \/ /\ t.temp \in temps /\ temps' \in {temps \ {t.temp}, temps}
        /\ \/ t.arg = 1 /\ acct' = acct /\ Sign(t, t.temp[1])
           \/ Becomes(t, "fail", None) /\ UNCHANGED signed
  /\ UNCHANGED <<acct, issued, code, counts, reset, marks, odd>>
ResetPassword(t) ==
  /\ t.op = "reset"
  /\ \/ /\ reset[t.email] = t.arg /\ t.arg # 0
        /\ reset' \in {[reset EXCEPT ![t.email] = 0], reset}
        /\ \/ /\ acct[t.email] # None /\ acct' = [acct EXCEPT ![t.email].pw = TRUE]
              /\ Becomes(t, "ok", None)
           \/ Becomes(t, "fail", None) /\ UNCHANGED acct
     \/ Becomes(t, "fail", None) /\ UNCHANGED <<acct, reset>>
  /\ UNCHANGED <<issued, code, counts, temps, signed, marks, odd>>
(* withAuth looks at the token alone, and takes the user of it: UpdateProfile and getMe.       *)
Authorised(t) ==
  /\ t.op \in {"put", "get", "me"}
  /\ IF t.tok = None THEN Becomes(t, "fail", None) /\ UNCHANGED acct
     ELSE LET e == t.tok[1] IN
          /\ acct' = IF t.op = "put" THEN [acct EXCEPT ![e].named = (t.arg = 1)] ELSE acct
          /\ Becomes(t, "ok", IF t.op = "put" THEN None ELSE UserOf(e))
  /\ UNCHANGED <<issued, code, counts, reset, temps, signed, marks, odd>>
Serve(t) ==
  /\ t.at = "sent"
  /\ \/ SendCode(t) \/ SendPasswordResetCode(t) \/ ReadTries(t) \/ Verify2FA(t)
     \/ ResetPassword(t) \/ Authorised(t)
     \/ t.op = "upload" /\ t.tok # None /\ Becomes(t, "ok", None) /\ UNCHANGED <<server, odd>>
(* The keys of Redis run out.                                                                  *)
Expire(e) ==
  /\ \/ code[e] # 0 /\ CodeDeleted(e) /\ UNCHANGED <<counts, reset, temps, odd>>
     \/ tries[e] # 0 /\ TriesDeleted(e) /\ UNCHANGED <<code, reset, temps, odd>>
     \/ reset[e] # 0 /\ reset' = [reset EXCEPT ![e] = 0] /\ UNCHANGED <<code, counts, temps, odd>>
     \/ /\ \E x \in temps : x[1] = e /\ temps' = temps \ {x}
        /\ odd' = odd \cup {"expired"} /\ UNCHANGED <<code, counts, reset>>
  /\ UNCHANGED <<acct, issued, signed, marks, client, asked>>
-----------------------------------------------------------------------------
(* The answers.                                                                                *)
Rest(t) == asked \ {t}
Told(t) == asked' = Rest(t) /\ UNCHANGED <<token, user, held, email, temp>>
(* sendCode, forgotPassword and resetPassword lead on to the next step, whatever it is now.    *)
NextOf == [sendCode |-> "code", forgot |-> "reset", reset |-> "email"]
Moved(t) == /\ t.op \in DOMAIN NextOf
            /\ Told(t) /\ step' = (IF t.here THEN NextOf[t.op] ELSE step) /\ UNCHANGED odd
Heard(t) == t.op \in {"again", "other"} /\ Told(t) /\ UNCHANGED <<step, odd>>

Holds(tok) == tok
(* verifyCode and verify2FA have signed the user in, or a password is wanted.                  *)
SignedIn(t) ==
  /\ t.op \in {"verify", "verify2FA"}
  /\ IF t.res.tok = None
     THEN /\ Set(token, t.res.user, "password", t.res.temp, Rest(t)) /\ UNCHANGED held
          /\ odd' = odd \cup IF Needs(t.res.user) THEN {"nameless"} ELSE {}
     ELSE /\ Set(t.res.tok, t.res.user, step, temp, Rest(t)) /\ held' = Holds(t.res.tok)
          /\ UNCHANGED odd
(* The profile is sent with the token of now, and then the user is asked for with the one of   *)
(* then.                                                                                       *)
GoOn(t) ==
  /\ t.op \in {"upload", "put"}
  /\ asked' = Rest(t) \cup {[t EXCEPT !.op = IF @ = "put" THEN "get" ELSE "put", !.at = "sent", !.res = None,
                                      !.tok = held]}
  /\ odd' = odd \cup IF t.op = "upload" /\ held # t.tok THEN {"moved"} ELSE {}
  /\ UNCHANGED client
SetUser(t) ==
  /\ t.op = "get" /\ Set(token, t.res, step, temp, Rest(t))
  /\ odd' = odd \cup IF token # t.tok THEN {"late"} ELSE {}
  /\ UNCHANGED held
GotMe(t) == /\ t.op = "me"
            /\ IF t.here THEN Set(token, t.res, step, temp, Rest(t)) /\ UNCHANGED <<held, odd>>
               ELSE Told(t) /\ UNCHANGED <<step, odd>>
Answer(t) == /\ t.at = "ok" /\ UNCHANGED server
             /\ Moved(t) \/ Heard(t) \/ SignedIn(t) \/ GoOn(t) \/ SetUser(t) \/ GotMe(t)

(* A request fails, or its answer is lost: getMe signs out, AuthScreen goes on without the     *)
(* picture.                                                                                    *)
Fails(t) ==
  /\ t.at \in {"sent", "ok", "fail"} /\ UNCHANGED server
  /\ \/ t.op = "me" /\ t.here /\ Set(None, None, step, temp, Rest(t)) /\ held' = None
        /\ odd' = odd \cup {"dropped"}
     \/ t.op = "upload" /\ t.from # None /\ GoOn(t)
     \/ ~(t.op = "me" /\ t.here) /\ ~(t.op = "upload" /\ t.from # None) /\ Told(t)
        /\ UNCHANGED step /\ odd' = odd \cup IF t.op = "verify2FA" THEN {"spent"} ELSE {}

Codes == 0..issued
UserStep ==
  \/ \E e \in Emails : \/ SubmitEmail(e) \/ SubmitForgot(e) \/ \E c \in Codes : OtherVerify(e, c)
  \/ \E c \in Codes : SubmitCode(c) \/ SubmitReset(c)
  \/ \E n \in {0, 1} : SubmitPassword(n) \/ \E pic \in BOOLEAN : SubmitProfile(pic, n)
  \/ Resend \/ Logout \/ Reload \/ \E to \in {"email", "code", "password", "forgot"} : Turn(to)
Next ==
  \/ UserStep
  \/ \E t \in asked : \/ (Serve(t) \/ CompareCode(t) \/ Grant(t)) /\ UNCHANGED client
                      \/ Answer(t) \/ Fails(t)
  \/ \E e \in Emails : Expire(e)

Spec == Init /\ [][Next]_vars
-----------------------------------------------------------------------------
(* The user shown is the one of the token, unless a save of the settings was answered after    *)
(* its user had signed out (App.tsx, SettingsPanel.tsx saveProfile).                           *)
UserOfToken == token # None /\ user # None => user.email = token[1] \/ "late" \in odd

(* A profile is saved to the account whose form was filled in, unless the token changed while  *)
(* its picture was uploaded, a late answer had put another user in the store, or the form was  *)
(* shown without a token.                                                                      *)
OwnProfile == \A t \in asked : t.op = "put" /\ t.tok # None /\ t.for # None =>
                t.for.email = t.tok[1] \/ odd \cap {"moved", "late", "nameless"} # {}

(* The last step is shown to somebody with a token, unless an account with a password has no   *)
(* username, or getMe failed meanwhile.                                                        *)
ProfileHasToken == step = "profile" => token # None \/ odd \cap {"nameless", "dropped", "late"} # {}

(* A password that is asked for can be checked, unless the temporary token ran out, a first    *)
(* try spent it, or the form was left and come back to.                                        *)
PasswordLive == step = "password" /\ ~Busy =>
                  temp \in temps \/ odd \cap {"spent", "expired", "detour"} # {}

(* No more tries are refused than MaxVerifyAttempts, those under way meanwhile, and one for     *)
(* each time Redis failed to tell or to count the attempts.                                    *)
TriesBounded == \A e \in Emails : refused[e] < MaxVerifyAttempts + MaxAsked + slips[e]

(* A code that has signed somebody in signs in no more, unless it could not be deleted or       *)
(* another request had compared with it before it was.                                         *)
CodeOnce == \A e \in Emails : \A c \in 1..issued :
              <<e, c>> \in used \ excused =>
                code[e] # c /\ \A t \in asked : t.at = "same" => t.email # e \/ t.arg # c
=============================================================================
