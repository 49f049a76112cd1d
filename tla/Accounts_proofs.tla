--------------------------- MODULE Accounts_proofs ---------------------------
(***************************************************************************)
(* For any number of requests in flight, whatever they interleave with and *)
(* wherever they die: a one-time token is spent once and for its purpose,  *)
(* and an address is verified only by a token mailed to it or by Google.   *)
(*                                                                         *)
(* The invariant follows a token from Redis to the mailbox to the request  *)
(* that presents it, and says of every row a request holds a stale copy of *)
(* what it says of the row in the table: that is why a save of a stale row *)
(* cannot verify an address.                                               *)
(*                                                                         *)
(* The second part is about requests that do not overlap and do not die:   *)
(* then at most one is in flight, and Calm says what it relies on from one *)
(* await to the next.  Wrong passwords lock the account at the limit, and  *)
(* no recent password is stored again, for any limits.                     *)
(*                                                                         *)
(* The third part types the state; the bounds need a count of the requests *)
(* that have a token to generate or a password to store.                   *)
(***************************************************************************)
EXTENDS Accounts, SequenceTheorems, FiniteSetTheorems, TLAPS

Cols   == {"password", "attempts", "until", "verified", "active", "google"}
Fields == {"pc", "pw", "seen", "patch", "mint", "take", "token"}

\* The address was verified by a token: ml are the tokens mailed, ac the
\* tokens accepted.
ByToken(ml, ac)    == \E t \in ml : <<t, "VerifyEmail">> \in ac
GoodRow(r, ml, ac) == r.verified = TRUE => r.google = TRUE \/ ByToken(ml, ac)

\* A patch verifies the address only behind the check of a token; n tokens
\* have been generated.
GoodPatch(r, ml, ac) ==
    /\ "google" \in DOMAIN r.patch => r.patch["google"] = TRUE
    /\ "verified" \in DOMAIN r.patch =>
         \/ r.pc = "tk_take" /\ r.take = "VerifyEmail" /\ r.token \in ml \cup {0}
         \/ ByToken(ml, ac)

GoodRequest(r, ml, ac, n) ==
    /\ DOMAIN r = Fields /\ DOMAIN r.seen = Cols
    /\ GoodRow(r.seen, ml, ac) /\ GoodPatch(r, ml, ac)
    /\ r.mint \in TokenTypes \cup {"none"} /\ r.take \in TokenTypes \cup {"none"}
    /\ r.pc = "tk_set"  => r.mint # "none"
    /\ r.pc = "tk_mail" => r.token \in 1..n
    /\ r.pc = "tk_take" => r.take # "none"

TokensOK ==
    /\ minted \in Seq(TokenTypes) /\ mailed \subseteq 1..Len(minted)
    /\ record \in [TokenTypes -> 0..Len(minted)]
    /\ \A y \in TokenTypes : record[y] # 0 => minted[record[y]] = y
    /\ TokenIsSpent

RowOK      == DOMAIN row = Cols /\ GoodRow(row, mailed, accepted)
RequestsOK == /\ DOMAIN req = Workers
              /\ \A w \in Workers : GoodRequest(req[w], mailed, accepted, Len(minted))

IInv == TokensOK /\ RowOK /\ RequestsOK

\* What only grows: tokens generated, mailed and accepted.
Grows == /\ mailed \subseteq mailed' /\ accepted \subseteq accepted'
         /\ Len(minted) \in Nat /\ Len(minted') \in Nat /\ Len(minted) <= Len(minted')

-----------------------------------------------------------------------------
(* The shape of the records.                                               *)

LEMMA NoRowShape ==
    /\ DOMAIN NoRow = Cols /\ NoRow.verified = FALSE
    /\ \A p : LET r == [NoRow EXCEPT !.password = p, !.active = TRUE] IN
              DOMAIN r = Cols /\ r.verified = FALSE
    /\ LET r == [NoRow EXCEPT !.verified = TRUE, !.active = TRUE, !.google = TRUE] IN
       DOMAIN r = Cols /\ r.google = TRUE
BY DEF NoRow, Cols

LEMMA NoPatch == DOMAIN <<>> = {}
OBVIOUS

LEMMA NoRequestShape ==
    /\ DOMAIN NoRequest = Fields /\ NoRequest.seen = NoRow /\ NoRequest.patch = <<>>
    /\ NoRequest.mint = "none" /\ NoRequest.take = "none" /\ NoRequest.pc = "idle"
BY DEF NoRequest, Fields

\* A request and a row stay good while tokens are generated, mailed and accepted.
LEMMA GoodGrows ==
    ASSUME NEW r, NEW ml, NEW ac, NEW n \in Nat, NEW ml2, NEW ac2, NEW n2 \in Nat,
           ml \subseteq ml2, ac \subseteq ac2, n <= n2
    PROVE  /\ GoodRow(r, ml, ac) => GoodRow(r, ml2, ac2)
           /\ GoodRequest(r, ml, ac, n) => GoodRequest(r, ml2, ac2, n2)
<1>1. ByToken(ml, ac) => ByToken(ml2, ac2)
  BY DEF ByToken
<1>2. \A x : GoodRow(x, ml, ac) => GoodRow(x, ml2, ac2)
  BY <1>1 DEF GoodRow
<1>3. GoodPatch(r, ml, ac) => GoodPatch(r, ml2, ac2)
  BY <1>1 DEF GoodPatch
<1>4. r.token \in 1..n => r.token \in 1..n2
  OBVIOUS
<1> QED
  BY <1>2, <1>3, <1>4 DEF GoodRequest

\* A step that gives request w the record r, and only adds tokens.
LEMMA OneRequest ==
    ASSUME RequestsOK, Grows, NEW w \in Workers, NEW r,
           GoodRequest(r, mailed', accepted', Len(minted')),
           req' = [req EXCEPT ![w] = r]
    PROVE  RequestsOK'
<1>1. DOMAIN req' = Workers
  BY DEF RequestsOK
<1>2. ASSUME NEW v \in Workers
      PROVE  GoodRequest(req'[v], mailed', accepted', Len(minted'))
  <2>1. CASE v = w
    BY <2>1 DEF RequestsOK
  <2>2. CASE v # w
    <3>1. req'[v] = req[v]
      BY <2>2 DEF RequestsOK
    <3>2. GoodRequest(req[v], mailed, accepted, Len(minted))
      BY DEF RequestsOK
    <3> QED
      BY <3>1, <3>2, GoodGrows DEF Grows
  <2> QED
    BY <2>1, <2>2
<1> QED
  BY <1>1, <1>2 DEF RequestsOK

LEMMA IdleRequest ==
    ASSUME NEW ml, NEW ac, NEW n
    PROVE  GoodRequest(NoRequest, ml, ac, n)
<1>1. GoodRow(NoRow, ml, ac)
  BY NoRowShape DEF GoodRow
<1>2. GoodPatch(NoRequest, ml, ac)
  BY NoRequestShape, NoPatch DEF GoodPatch
<1> QED
  BY <1>1, <1>2, NoRowShape, NoRequestShape DEF GoodRequest

\* A request moves on to label l.
LEMMA GotoGood ==
    ASSUME NEW r, NEW ml, NEW ac, NEW n, NEW l, GoodRequest(r, ml, ac, n),
           "verified" \in DOMAIN r.patch /\ r.pc = "tk_take" => ByToken(ml, ac),
           l = "tk_set"  => r.mint # "none",
           l = "tk_take" => r.take # "none",
           l # "tk_mail"
    PROVE  GoodRequest([r EXCEPT !.pc = l], ml, ac, n)
<1> DEFINE q == [r EXCEPT !.pc = l]
<1>1. /\ DOMAIN q = Fields /\ q.pc = l /\ q.seen = r.seen /\ q.patch = r.patch
      /\ q.mint = r.mint /\ q.take = r.take /\ q.token = r.token
  BY DEF GoodRequest, Fields
<1> HIDE DEF q
<1>2. GoodPatch(q, ml, ac)
  BY <1>1 DEF GoodRequest, GoodPatch
<1>3. GoodRequest(q, ml, ac, n)
  BY <1>1, <1>2 DEF GoodRequest
<1> QED
  BY <1>3 DEF q

\* A new request that only carries tokens to generate or to take, and a patch.
LEMMA NewRequest ==
    ASSUME NEW q, NEW ml, NEW ac, NEW n,
           DOMAIN q = Fields, DOMAIN q.seen = Cols,
           q.mint \in TokenTypes \cup {"none"}, q.take \in TokenTypes \cup {"none"},
           q.pc = "tk_set" => q.mint # "none", q.pc = "tk_take" => q.take # "none",
           q.pc # "tk_mail", GoodRow(q.seen, ml, ac), GoodPatch(q, ml, ac)
    PROVE  GoodRequest(q, ml, ac, n)
BY DEF GoodRequest

\* A step of request w that touches neither the row nor a token.
LEMMA RequestStep ==
    ASSUME IInv, UNCHANGED <<row, onetime, accepted>>, NEW w \in Workers, NEW r,
           GoodRequest(r, mailed, accepted, Len(minted)),
           req' = [req EXCEPT ![w] = r]
    PROVE  IInv'
<1>1. UNCHANGED <<row, record, minted, mailed, accepted>>
  BY DEF onetime
<1>2. TokensOK'
  BY <1>1 DEF IInv, TokensOK, TokenIsSpent
<1>3. RowOK'
  BY <1>1 DEF IInv, RowOK
<1>4. Grows
  BY <1>1, LenProperties DEF Grows, IInv, TokensOK
<1>5. RequestsOK'
  BY <1>1, <1>4, OneRequest DEF IInv
<1> QED
  BY <1>2, <1>3, <1>5 DEF IInv

\* A step that begins a request and a step that ends one.
LEMMA BeginStep ==
    ASSUME IInv, NEW w \in Workers, NEW r, Begin(w, r),
           GoodRequest(r, mailed, accepted, Len(minted))
    PROVE  IInv'
<1>1. UNCHANGED <<row, onetime, accepted>> /\ req' = [req EXCEPT ![w] = r]
  BY DEF Begin, account
<1> QED
  BY <1>1, RequestStep

LEMMA FinishStep ==
    ASSUME IInv, NEW w \in Workers, Finish(w), UNCHANGED <<row, onetime, accepted>>
    PROVE  IInv'
BY IdleRequest, RequestStep DEF Finish

\* A step that touches no request either.
LEMMA IdleStep ==
    ASSUME IInv, UNCHANGED <<row, onetime, accepted, req>>
    PROVE  IInv'
<1>1. UNCHANGED <<row, record, minted, mailed, accepted, req>>
  BY DEF onetime
<1> QED
  BY <1>1 DEF IInv, TokensOK, TokenIsSpent, RowOK, RequestsOK

\* A step of request w that writes the row.
LEMMA RowStep ==
    ASSUME IInv, UNCHANGED <<onetime, accepted>>, NEW w \in Workers, NEW r,
           GoodRequest(r, mailed, accepted, Len(minted)), req' = [req EXCEPT ![w] = r],
           DOMAIN row' = Cols, GoodRow(row', mailed, accepted)
    PROVE  IInv'
<1>1. UNCHANGED <<record, minted, mailed, accepted>>
  BY DEF onetime
<1>2. TokensOK'
  BY <1>1 DEF IInv, TokensOK, TokenIsSpent
<1>3. RowOK'
  BY <1>1 DEF RowOK
<1>4. Grows
  BY <1>1, LenProperties DEF Grows, IInv, TokensOK
<1>5. RequestsOK'
  BY <1>1, <1>4, OneRequest DEF IInv
<1> QED
  BY <1>2, <1>3, <1>5 DEF IInv

\* The row as it is may be read at any time.
LEMMA Typing ==
    ASSUME IInv, NEW w \in Workers
    PROVE  /\ GoodRequest(req[w], mailed, accepted, Len(minted))
           /\ DOMAIN row = Cols /\ GoodRow(row, mailed, accepted)
           /\ DOMAIN req = Workers /\ Len(minted) \in Nat
           /\ minted \in Seq(TokenTypes) /\ mailed \subseteq 1..Len(minted)
BY LenProperties DEF IInv, TokensOK, RowOK, RequestsOK

-----------------------------------------------------------------------------
(* The steps that begin a request.                                         *)

\* Requests that neither read the row nor consume a token for it.
LEMMA StartMint ==
    ASSUME NEW ml, NEW ac, NEW n, NEW p, NEW y \in TokenTypes
    PROVE  /\ GoodRequest([NoRequest EXCEPT !.pc = "su_create", !.pw = p, !.mint = y], ml, ac, n)
           /\ GoodRequest([NoRequest EXCEPT !.pc = "tk_set", !.mint = y], ml, ac, n)
           /\ GoodRequest([NoRequest EXCEPT !.pc = "go_create"], ml, ac, n)
<1>1. GoodRow(NoRow, ml, ac)
  BY NoRowShape DEF GoodRow
<1> DEFINE q1 == [NoRequest EXCEPT !.pc = "su_create", !.pw = p, !.mint = y]
           q2 == [NoRequest EXCEPT !.pc = "tk_set", !.mint = y]
           q3 == [NoRequest EXCEPT !.pc = "go_create"]
<1>2. /\ DOMAIN q1 = Fields /\ q1.pc = "su_create" /\ q1.seen = NoRow /\ q1.patch = <<>>
      /\ q1.mint = y /\ q1.take = "none"
  BY NoRequestShape DEF Fields
<1>3. /\ DOMAIN q2 = Fields /\ q2.pc = "tk_set" /\ q2.seen = NoRow /\ q2.patch = <<>>
      /\ q2.mint = y /\ q2.take = "none"
  BY NoRequestShape DEF Fields
<1>4. /\ DOMAIN q3 = Fields /\ q3.pc = "go_create" /\ q3.seen = NoRow /\ q3.patch = <<>>
      /\ q3.mint = "none" /\ q3.take = "none"
  BY NoRequestShape DEF Fields
<1> HIDE DEF q1, q2, q3
<1>5. y # "none"
  BY DEF TokenTypes
<1>6. GoodPatch(q1, ml, ac) /\ GoodPatch(q2, ml, ac) /\ GoodPatch(q3, ml, ac)
  BY <1>2, <1>3, <1>4, NoPatch DEF GoodPatch
<1>7. GoodRequest(q1, ml, ac, n)
  BY <1>1, <1>2, <1>5, <1>6, NoRowShape DEF GoodRequest
<1>8. GoodRequest(q2, ml, ac, n)
  BY <1>1, <1>3, <1>5, <1>6, NoRowShape DEF GoodRequest
<1>9. GoodRequest(q3, ml, ac, n)
  BY <1>1, <1>4, <1>6, NoRowShape DEF GoodRequest
<1> QED
  BY <1>7, <1>8, <1>9 DEF q1, q2, q3

\* Requests that patch the row with columns that verify nothing.
LEMMA StartPatch ==
    ASSUME NEW ml, NEW ac, NEW n, NEW pt, "verified" \notin DOMAIN pt,
           "google" \in DOMAIN pt => pt["google"] = TRUE
    PROVE  GoodRequest([NoRequest EXCEPT !.pc = "us_find", !.patch = pt], ml, ac, n)
<1> DEFINE q == [NoRequest EXCEPT !.pc = "us_find", !.patch = pt]
<1>1. /\ DOMAIN q = Fields /\ q.pc = "us_find" /\ q.seen = NoRow /\ q.patch = pt
      /\ q.mint = "none" /\ q.take = "none"
  BY NoRequestShape DEF Fields
<1> HIDE DEF q
<1>2. GoodRow(NoRow, ml, ac) /\ GoodPatch(q, ml, ac)
  BY <1>1, NoRowShape DEF GoodRow, GoodPatch
<1>3. GoodRequest(q, ml, ac, n)
  BY <1>1, <1>2, NoRowShape DEF GoodRequest
<1> QED
  BY <1>3 DEF q

LEMMA StartSteps ==
    ASSUME IInv, NEW w \in Workers, Start(w)
    PROVE  IInv'
<1> DEFINE Good(r) == GoodRequest(r, mailed, accepted, Len(minted))
<1>1. CASE GoogleStart(w)
  <2>1. Good([NoRequest EXCEPT !.pc = "us_find", !.patch = GooglePatch])
    BY StartPatch DEF GooglePatch
  <2>2. Good([NoRequest EXCEPT !.pc = "go_create"])
    BY StartMint DEF TokenTypes
  <2> QED
    BY <1>1, <2>1, <2>2, BeginStep DEF GoogleStart
<1>2. CASE GoogleReturns(w)
  BY <1>2, IdleStep DEF GoogleReturns, ghosts
<1>3. CASE ResendVerification(w)
  <2>1. Good([NoRequest EXCEPT !.pc = "tk_set", !.mint = "VerifyEmail"])
    BY StartMint DEF TokenTypes
  <2> QED
    BY <1>3, <2>1, BeginStep DEF ResendVerification
<1>4. CASE ForgotPassword(w)
  <2>1. Good([NoRequest EXCEPT !.pc = "tk_set", !.mint = "ForgotPassword"])
    BY StartMint DEF TokenTypes
  <2> QED
    BY <1>4, <2>1, BeginStep DEF ForgotPassword
<1>5. ASSUME NEW p \in Passwords, SignupStart(w, p)
      PROVE  IInv'
  <2>1. Good([NoRequest EXCEPT !.pc = "su_create", !.pw = p, !.mint = "VerifyEmail"])
    BY StartMint DEF TokenTypes
  <2> QED
    BY <1>5, <2>1, BeginStep DEF SignupStart
<1>6. ASSUME NEW p \in Passwords, SigninStart(w, p)
      PROVE  IInv'
  <2> DEFINE q == [NoRequest EXCEPT !.pc = "si_hash", !.pw = p, !.seen = row]
  <2>1. /\ DOMAIN q = Fields /\ q.pc = "si_hash" /\ q.seen = row /\ q.patch = <<>>
        /\ q.mint = "none" /\ q.take = "none"
    BY NoRequestShape DEF Fields
  <2> HIDE DEF q
  <2>2. GoodPatch(q, mailed, accepted)
    BY <2>1, NoPatch DEF GoodPatch
  <2>3. Good(q)
    BY <2>1, <2>2, Typing DEF GoodRequest
  <2>4. Begin(w, q)
    BY <1>6 DEF SigninStart, q
  <2> QED
    BY <2>3, <2>4, BeginStep
<1>7. ASSUME NEW p \in Passwords, NEW old \in Passwords, ChangePassword(w, old, p)
      PROVE  IInv'
  <2> DEFINE q == [NoRequest EXCEPT !.pc = "pw_check", !.pw = p, !.patch = [password |-> p]]
  <2>1. /\ DOMAIN q = Fields /\ q.pc = "pw_check" /\ q.seen = NoRow
        /\ DOMAIN q.patch = {"password"} /\ q.mint = "none" /\ q.take = "none"
    BY NoRequestShape DEF Fields
  <2> HIDE DEF q
  <2>2. GoodPatch(q, mailed, accepted) /\ GoodRow(NoRow, mailed, accepted)
    BY <2>1, NoRowShape DEF GoodPatch, GoodRow
  <2>3. Good(q)
    BY <2>1, <2>2, NoRowShape DEF GoodRequest
  <2>4. Begin(w, q)
    BY <1>7 DEF ChangePassword, q
  <2> QED
    BY <2>3, <2>4, BeginStep
<1>8. ASSUME NEW t \in mailed \cup {0}, VerifyEmail(w, t)
      PROVE  IInv'
  <2> DEFINE q == [NoRequest EXCEPT !.pc = "tk_take", !.take = "VerifyEmail", !.token = t,
                                    !.patch = [verified |-> TRUE]]
  <2>1. /\ DOMAIN q = Fields /\ q.pc = "tk_take" /\ q.seen = NoRow
        /\ DOMAIN q.patch = {"verified"} /\ q.mint = "none" /\ q.take = "VerifyEmail"
        /\ q.token = t
    BY NoRequestShape DEF Fields
  <2> HIDE DEF q
  <2>2. GoodPatch(q, mailed, accepted) /\ GoodRow(NoRow, mailed, accepted)
    BY <1>8, <2>1, NoRowShape DEF GoodPatch, GoodRow
  <2>3. Good(q)
    BY <2>1, <2>2, NoRowShape DEF GoodRequest, TokenTypes
  <2>4. Begin(w, q)
    BY <1>8 DEF VerifyEmail, q
  <2> QED
    BY <2>3, <2>4, BeginStep
<1>9. ASSUME NEW t \in mailed \cup {0}, NEW p \in Passwords, ResetPassword(w, t, p)
      PROVE  IInv'
  <2> DEFINE q == [NoRequest EXCEPT !.pc = "pw_check", !.pw = p, !.take = "ForgotPassword",
                                    !.token = t, !.patch = [password |-> p]]
  <2>1. /\ DOMAIN q = Fields /\ q.pc = "pw_check" /\ q.seen = NoRow
        /\ DOMAIN q.patch = {"password"} /\ q.mint = "none" /\ q.take = "ForgotPassword"
    BY NoRequestShape DEF Fields
  <2> HIDE DEF q
  <2>2. GoodPatch(q, mailed, accepted) /\ GoodRow(NoRow, mailed, accepted)
    BY <2>1, NoRowShape DEF GoodPatch, GoodRow
  <2>3. Good(q)
    BY <2>1, <2>2, NoRowShape DEF GoodRequest, TokenTypes
  <2>4. Begin(w, q)
    BY <1>9 DEF ResetPassword, q
  <2> QED
    BY <2>3, <2>4, BeginStep
<1>10. ASSUME NEW a \in BOOLEAN, ToggleUserStatus(w, a)
       PROVE  IInv'
  <2>1. Good([NoRequest EXCEPT !.pc = "us_find", !.patch = [active |-> a]])
    BY StartPatch
  <2> QED
    BY <1>10, <2>1, BeginStep DEF ToggleUserStatus
<1> QED
  BY <1>1, <1>2, <1>3, <1>4, <1>5, <1>6, <1>7, <1>8, <1>9, <1>10 DEF Start

-----------------------------------------------------------------------------
(* The steps that continue a request.                                      *)

\* Request w moves to label l.
LEMMA GotoStep ==
    ASSUME IInv, NEW w \in Workers, NEW l, Goto(w, l), UNCHANGED <<row, onetime, accepted>>,
           req[w].pc # "tk_take", l # "tk_mail",
           l = "tk_set"  => req[w].mint # "none",
           l = "tk_take" => req[w].take # "none"
    PROVE  IInv'
<1> DEFINE q == [req[w] EXCEPT !.pc = l]
<1>1. GoodRequest(q, mailed, accepted, Len(minted))
  BY Typing, GotoGood
<1>2. req' = [req EXCEPT ![w] = q]
  BY DEF Goto
<1> HIDE DEF q
<1> QED
  BY <1>1, <1>2, RequestStep

LEMMA SaveStep ==
    ASSUME IInv, NEW w \in Workers, UserSave(w)
    PROVE  IInv'
<1> DEFINE r == req[w]
<1>1. GoodRequest(r, mailed, accepted, Len(minted)) /\ r.pc = "us_save"
  BY Typing DEF UserSave, At
<1>2. row' = Merge(r.patch, r.seen) /\ UNCHANGED <<onetime, accepted>>
  BY DEF UserSave
<1>3. PICK q : req' = [req EXCEPT ![w] = q] /\ GoodRequest(q, mailed, accepted, Len(minted))
  <2>1. CASE Goto(w, "ph_insert")
    <3>1. GoodRequest([r EXCEPT !.pc = "ph_insert"], mailed, accepted, Len(minted))
      BY <1>1, GotoGood
    <3> QED
      BY <2>1, <3>1 DEF Goto
  <2>2. CASE Finish(w)
    BY <2>2, IdleRequest DEF Finish
  <2> QED
    BY <2>1, <2>2 DEF UserSave
<1> HIDE DEF r
<1>4. DOMAIN row' = Cols
  BY <1>1, <1>2 DEF Merge, GoodRequest
<1>5. GoodRow(row', mailed, accepted)
  <2> SUFFICES ASSUME row'.verified = TRUE, ~ByToken(mailed, accepted)
               PROVE  row'.google = TRUE
    BY DEF GoodRow
  <2>1. "verified" \notin DOMAIN r.patch
    BY <1>1 DEF GoodRequest, GoodPatch
  <2>2. row'.verified = r.seen.verified
    BY <1>1, <1>2, <2>1 DEF Merge, GoodRequest, Cols
  <2>3. r.seen.google = TRUE
    BY <1>1, <2>2 DEF GoodRequest, GoodRow
  <2>4. row'.google = IF "google" \in DOMAIN r.patch THEN r.patch["google"] ELSE r.seen.google
    BY <1>1, <1>2 DEF Merge, GoodRequest, Cols
  <2> QED
    BY <1>1, <2>3, <2>4 DEF GoodRequest, GoodPatch
<1> QED
  BY <1>2, <1>3, <1>4, <1>5, RowStep

LEMMA CreateSteps ==
    ASSUME IInv, NEW w \in Workers, SignupCreate(w) \/ GoogleCreate(w)
    PROVE  IInv'
<1>1. CASE Finish(w) /\ UNCHANGED <<row, onetime, accepted>>
  BY <1>1, FinishStep
<1>2. CASE SignupCreate(w) /\ ~exists
  <2> DEFINE r == [NoRow EXCEPT !.password = req[w].pw, !.active = TRUE]
  <2>1. DOMAIN r = Cols /\ GoodRow(r, mailed, accepted)
    BY NoRowShape DEF GoodRow
  <2>2. /\ row' = r /\ UNCHANGED <<onetime, accepted>> /\ Goto(w, "ph_insert")
        /\ req[w].pc = "su_create"
    BY <1>2 DEF SignupCreate, At
  <2>3. GoodRequest([req[w] EXCEPT !.pc = "ph_insert"], mailed, accepted, Len(minted))
    BY <2>2, Typing, GotoGood
  <2> HIDE DEF r
  <2> QED
    BY <2>1, <2>2, <2>3, RowStep DEF Goto
<1>3. CASE GoogleCreate(w) /\ ~exists
  <2> DEFINE r == [NoRow EXCEPT !.verified = TRUE, !.active = TRUE, !.google = TRUE]
  <2>1. DOMAIN r = Cols /\ GoodRow(r, mailed, accepted)
    BY NoRowShape DEF GoodRow
  <2>2. row' = r /\ UNCHANGED <<onetime, accepted>> /\ Finish(w)
    BY <1>3 DEF GoogleCreate, ghosts
  <2> HIDE DEF r
  <2> QED
    BY <2>1, <2>2, IdleRequest, RowStep DEF Finish
<1> QED
  BY <1>1, <1>2, <1>3 DEF SignupCreate, GoogleCreate, account, ghosts

LEMMA SetStep ==
    ASSUME IInv, NEW w \in Workers, TokenSet(w)
    PROVE  IInv'
<1> DEFINE t == Len(minted) + 1
           y == req[w].mint
           q == [req[w] EXCEPT !.pc = "tk_mail", !.mint = "none", !.token = t]
<1>1. GoodRequest(req[w], mailed, accepted, Len(minted)) /\ req[w].pc = "tk_set"
  BY Typing DEF TokenSet, At
<1>2. y \in TokenTypes
  BY <1>1 DEF GoodRequest
<1>3. /\ minted' = Append(minted, y) /\ record' = [record EXCEPT ![y] = t]
      /\ req' = [req EXCEPT ![w] = q] /\ UNCHANGED <<row, mailed, accepted>>
  BY DEF TokenSet, account, ghosts
<1>4. /\ DOMAIN q = Fields /\ q.pc = "tk_mail" /\ q.mint = "none" /\ q.token = t
      /\ q.take = req[w].take /\ q.seen = req[w].seen /\ q.patch = req[w].patch
  BY <1>1 DEF GoodRequest, Fields
<1>5. Len(minted) \in Nat /\ minted \in Seq(TokenTypes)
  BY Typing
<1> HIDE DEF q, y
<1>6. /\ Len(minted') = t /\ minted' \in Seq(TokenTypes) /\ minted'[t] = y
      /\ \A i \in 1..Len(minted) : minted'[i] = minted[i]
  BY <1>2, <1>3, <1>5, AppendProperties
<1> HIDE DEF t
<1>7. t = Len(minted) + 1
  BY DEF t
<1>8. Grows
  BY <1>3, <1>5, <1>6, <1>7 DEF Grows
<1>9. RequestsOK'
  <2>1. GoodPatch(q, mailed, accepted)
    BY <1>1, <1>4 DEF GoodRequest, GoodPatch
  <2>2. GoodRequest(q, mailed', accepted', Len(minted'))
    BY <1>1, <1>3, <1>4, <1>5, <1>6, <1>7, <2>1 DEF GoodRequest
  <2> QED
    BY <1>3, <1>8, <2>2, OneRequest DEF IInv
<1>10. RowOK'
  BY <1>3 DEF IInv, RowOK
<1>11. TokensOK'
  <2>1. mailed' \subseteq 1..Len(minted') /\ record' \in [TokenTypes -> 0..Len(minted')]
    BY <1>2, <1>3, <1>5, <1>6, <1>7 DEF IInv, TokensOK
  <2>2. ASSUME NEW z \in TokenTypes, record'[z] # 0
        PROVE  minted'[record'[z]] = z
    <3>1. CASE z = y
      BY <1>2, <1>3, <1>6, <3>1 DEF IInv, TokensOK
    <3>2. CASE z # y
      BY <1>3, <1>5, <1>6, <2>2, <3>2 DEF IInv, TokensOK
    <3> QED
      BY <3>1, <3>2
  <2>3. ASSUME NEW a \in accepted
        PROVE  /\ a[1] \in 1..Len(minted') /\ minted'[a[1]] = a[2]
               /\ \A z \in TokenTypes : record'[z] # a[1]
    <3>1. /\ a[1] \in 1..Len(minted) /\ minted[a[1]] = a[2]
          /\ \A z \in TokenTypes : record[z] # a[1]
      BY <2>3 DEF IInv, TokensOK, TokenIsSpent
    <3>2. \A z \in TokenTypes : record'[z] = record[z] \/ record'[z] = t
      BY <1>3 DEF IInv, TokensOK
    <3> QED
      BY <1>5, <1>6, <1>7, <3>1, <3>2
  <2> QED
    BY <1>3, <1>6, <2>1, <2>2, <2>3 DEF TokensOK, TokenIsSpent
<1> QED
  BY <1>9, <1>10, <1>11 DEF IInv

LEMMA MailStep ==
    ASSUME IInv, NEW w \in Workers, TokenMail(w)
    PROVE  IInv'
<1>1. req[w].token \in 1..Len(minted)
  BY Typing DEF TokenMail, At, GoodRequest
<1>2. /\ mailed' = mailed \cup {req[w].token} /\ req' = [req EXCEPT ![w] = NoRequest]
      /\ UNCHANGED <<row, record, minted, accepted>>
  BY DEF TokenMail, account, ghosts, Finish
<1>3. Grows
  BY <1>2, Typing DEF Grows
<1>4. RequestsOK'
  BY <1>2, <1>3, IdleRequest, OneRequest DEF IInv
<1>5. RowOK'
  <2>1. GoodRow(row, mailed', accepted')
    BY <1>3, Typing, GoodGrows DEF Grows
  <2> QED
    BY <1>2, <2>1, Typing DEF RowOK
<1>6. TokensOK'
  BY <1>1, <1>2 DEF IInv, TokensOK, TokenIsSpent
<1> QED
  BY <1>4, <1>5, <1>6 DEF IInv

LEMMA TakeStep ==
    ASSUME IInv, NEW w \in Workers, TokenTake(w)
    PROVE  IInv'
<1> DEFINE r == req[w]
           t == r.token
           y == r.take
<1>1. GoodRequest(r, mailed, accepted, Len(minted)) /\ r.pc = "tk_take"
  BY Typing DEF TokenTake, At
<1>2. y \in TokenTypes
  BY <1>1 DEF GoodRequest
<1>3. /\ record' = [record EXCEPT ![y] = 0] /\ UNCHANGED <<row, minted, mailed>>
      /\ \/ record[y] # 0 /\ record[y] = t /\ Goto(w, "us_find")
            /\ accepted' = accepted \cup {<<t, y>>}
         \/ Finish(w) /\ accepted' = accepted
  BY DEF TokenTake, account
<1>4. Grows
  BY <1>3, Typing DEF Grows
<1>5. RowOK'
  <2>1. GoodRow(row, mailed', accepted')
    BY <1>4, Typing, GoodGrows DEF Grows
  <2> QED
    BY <1>3, <2>1, Typing DEF RowOK
<1>6. RequestsOK'
  <2>1. CASE Finish(w)
    BY <1>4, <2>1, IdleRequest, OneRequest DEF Finish, IInv
  <2>2. CASE /\ record[y] # 0 /\ record[y] = t /\ Goto(w, "us_find")
             /\ accepted' = accepted \cup {<<t, y>>}
    <3> DEFINE q == [r EXCEPT !.pc = "us_find"]
    <3>1. GoodRequest(r, mailed', accepted', Len(minted'))
      BY <1>1, <1>4, GoodGrows DEF Grows
    <3>2. ASSUME "verified" \in DOMAIN r.patch
          PROVE  ByToken(mailed', accepted')
      <4>1. CASE ByToken(mailed, accepted)
        BY <1>4, <4>1 DEF ByToken, Grows
      <4>2. CASE y = "VerifyEmail" /\ t \in mailed \cup {0}
        BY <1>3, <2>2, <4>2 DEF ByToken
      <4> QED
        BY <1>1, <3>2, <4>1, <4>2 DEF GoodRequest, GoodPatch
    <3>3. GoodRequest(q, mailed', accepted', Len(minted'))
      BY <3>1, <3>2, GotoGood
    <3>4. req' = [req EXCEPT ![w] = q]
      BY <2>2 DEF Goto
    <3> HIDE DEF q
    <3> QED
      BY <1>4, <3>3, <3>4, OneRequest DEF IInv
  <2> QED
    BY <1>3, <2>1, <2>2
<1>7. TokensOK'
  <2>1. record' \in [TokenTypes -> 0..Len(minted')]
    BY <1>2, <1>3, Typing DEF IInv, TokensOK
  <2>2. \A z \in TokenTypes : record'[z] # 0 => record'[z] = record[z] /\ z # y
    BY <1>2, <1>3 DEF IInv, TokensOK
  <2>3. ASSUME NEW a \in accepted'
        PROVE  /\ a[1] \in 1..Len(minted') /\ minted'[a[1]] = a[2]
               /\ \A z \in TokenTypes : record'[z] # a[1]
    <3>1. CASE a \in accepted
      <4>1. /\ a[1] \in 1..Len(minted) /\ minted[a[1]] = a[2]
            /\ \A z \in TokenTypes : record[z] # a[1]
        BY <3>1 DEF IInv, TokensOK, TokenIsSpent
      <4>2. \A z \in TokenTypes : record'[z] # a[1]
        BY <2>2, <4>1, Typing
      <4> QED
        BY <1>3, <4>1, <4>2
    <3>2. CASE a \notin accepted
      <4>1. a = <<t, y>> /\ record[y] = t /\ t # 0
        BY <1>3, <2>3, <3>2
      <4>2. t \in 1..Len(minted) /\ minted[t] = y
        BY <1>2, <4>1, Typing DEF IInv, TokensOK
      <4>3. \A z \in TokenTypes : record'[z] # t
        <5> SUFFICES ASSUME NEW z \in TokenTypes, record'[z] = t
                     PROVE  FALSE
          OBVIOUS
        <5>1. record[z] = t /\ z # y
          BY <2>2, <4>1
        <5>2. minted[t] = z
          BY <4>1, <5>1 DEF IInv, TokensOK
        <5> QED
          BY <4>2, <5>1, <5>2
      <4>4. a[1] = t /\ a[2] = y
        BY <4>1
      <4> HIDE DEF t, y
      <4> QED
        BY <1>3, <4>2, <4>3, <4>4
    <3> QED
      BY <3>1, <3>2
  <2>4. \A z \in TokenTypes : record'[z] # 0 => minted'[record'[z]] = z
    BY <1>3, <2>2 DEF IInv, TokensOK
  <2> QED
    BY <1>3, <2>1, <2>3, <2>4, Typing DEF TokensOK, TokenIsSpent
<1> QED
  BY <1>5, <1>6, <1>7 DEF IInv

LEMMA ExpiryStep ==
    ASSUME IInv, NEW y \in TokenTypes, TokenExpires(y)
    PROVE  IInv'
<1>1. record' = [record EXCEPT ![y] = 0] /\ UNCHANGED <<row, minted, mailed, accepted, req>>
  BY DEF TokenExpires, account, ghosts
<1>2. RowOK' /\ RequestsOK'
  BY <1>1 DEF IInv, RowOK, RequestsOK
<1>3. \A z \in TokenTypes : record'[z] = record[z] \/ record'[z] = 0
  BY <1>1 DEF IInv, TokensOK
<1>4. record' \in [TokenTypes -> 0..Len(minted')]
  BY <1>1 DEF IInv, TokensOK
<1>5. TokensOK'
  BY <1>1, <1>3, <1>4 DEF IInv, TokensOK, TokenIsSpent
<1> QED
  BY <1>2, <1>5 DEF IInv

LEMMA ContinueSteps ==
    ASSUME IInv, NEW w \in Workers, Continue(w)
    PROVE  IInv'
<1>1. CASE SignupCreate(w) \/ GoogleCreate(w)
  BY <1>1, CreateSteps
<1>2. CASE UserFind(w)
  <2> DEFINE r == req[w]
             q == [r EXCEPT !.pc = "us_save", !.seen = row]
  <2>1. GoodRequest(r, mailed, accepted, Len(minted)) /\ r.pc = "us_find"
    BY <1>2, Typing DEF UserFind, At
  <2>2. /\ DOMAIN q = Fields /\ q.pc = "us_save" /\ q.seen = row /\ q.patch = r.patch
        /\ q.mint = r.mint /\ q.take = r.take /\ q.token = r.token
    BY <2>1 DEF GoodRequest, Fields
  <2>3. req' = [req EXCEPT ![w] = q] /\ UNCHANGED <<row, onetime, accepted>>
    BY <1>2 DEF UserFind, account, ghosts
  <2> HIDE DEF q
  <2>4. GoodPatch(q, mailed, accepted)
    BY <2>1, <2>2 DEF GoodRequest, GoodPatch
  <2>5. GoodRequest(q, mailed, accepted, Len(minted))
    BY <2>1, <2>2, <2>4, Typing DEF GoodRequest
  <2> QED
    BY <2>3, <2>5, RequestStep
<1>3. CASE UserSave(w)
  BY <1>3, SaveStep
<1>4. CASE HistoryInsert(w)
  BY <1>4, GotoStep DEF HistoryInsert, At, account, ghosts
<1>5. CASE HistoryPrune(w)
  <2>1. CASE req[w].mint # "none"
    BY <1>5, <2>1, GotoStep DEF HistoryPrune, At, account, ghosts
  <2>2. CASE req[w].mint = "none"
    BY <1>5, <2>2, FinishStep DEF HistoryPrune, account, ghosts
  <2> QED
    BY <2>1, <2>2
<1>6. CASE TokenSet(w)
  BY <1>6, SetStep
<1>7. CASE TokenMail(w)
  BY <1>7, MailStep
<1>8. CASE TokenTake(w)
  BY <1>8, TakeStep
<1>9. CASE PasswordCheck(w)
  <2>1. UNCHANGED <<row, onetime, accepted>> /\ req[w].pc = "pw_check"
    BY <1>9 DEF PasswordCheck, At, account, ghosts
  <2>2. CASE Finish(w)
    BY <2>1, <2>2, FinishStep
  <2>3. CASE Goto(w, "us_find")
    BY <2>1, <2>3, GotoStep
  <2>4. CASE Goto(w, "tk_take") /\ req[w].take # "none"
    BY <2>1, <2>4, GotoStep
  <2> QED
    BY <1>9, <2>2, <2>3, <2>4 DEF PasswordCheck
<1>10. CASE SigninRefuse(w) \/ SigninUnverified(w)
  BY <1>10, FinishStep DEF SigninRefuse, SigninUnverified, account, ghosts
<1>11. CASE SigninFail(w)
  <2> DEFINE pt == FailedPatch(req[w].seen)
  <2>1. DOMAIN pt = {"attempts", "until"}
    BY DEF FailedPatch
  <2>2. /\ UNCHANGED <<row, onetime, accepted>>
        /\ req' = [req EXCEPT ![w] = [NoRequest EXCEPT !.pc = "us_find", !.patch = pt]]
    BY <1>11 DEF SigninFail, account
  <2> HIDE DEF pt
  <2>3. GoodRequest([NoRequest EXCEPT !.pc = "us_find", !.patch = pt], mailed, accepted,
                    Len(minted))
    BY <2>1, StartPatch
  <2> QED
    BY <2>2, <2>3, RequestStep
<1>12. CASE SigninPass(w)
  <2>1. DOMAIN ClearedPatch = {"attempts", "until"}
    BY DEF ClearedPatch
  <2>2. /\ UNCHANGED <<row, onetime, accepted>>
        /\ req' = [req EXCEPT ![w] = [NoRequest EXCEPT !.pc = "us_find",
                                                       !.patch = ClearedPatch]]
    BY <1>12 DEF SigninPass, account
  <2>3. GoodRequest([NoRequest EXCEPT !.pc = "us_find", !.patch = ClearedPatch], mailed,
                    accepted, Len(minted))
    BY <2>1, StartPatch
  <2> QED
    BY <2>2, <2>3, RequestStep
<1> QED
  BY <1>1, <1>2, <1>3, <1>4, <1>5, <1>6, <1>7, <1>8, <1>9, <1>10, <1>11, <1>12 DEF Continue

-----------------------------------------------------------------------------
LEMMA InitHolds == Init => IInv
<1> SUFFICES ASSUME Init
             PROVE  IInv
  OBVIOUS
<1>1. TokensOK
  <2>1. minted = <<>> /\ Len(minted) = 0 /\ mailed = {} /\ accepted = {}
    BY DEF Init
  <2>2. record = [y \in TokenTypes |-> 0]
    BY DEF Init
  <2> QED
    BY <2>1, <2>2 DEF TokensOK, TokenIsSpent
<1>2. RowOK
  BY NoRowShape DEF Init, RowOK, GoodRow
<1>3. RequestsOK
  BY IdleRequest DEF Init, RequestsOK
<1> QED
  BY <1>1, <1>2, <1>3 DEF IInv

LEMMA NextHolds == IInv /\ [Next]_vars => IInv'
<1> SUFFICES ASSUME IInv, [Next]_vars
             PROVE  IInv'
  OBVIOUS
<1>1. ASSUME NEW w \in Workers, Start(w)
      PROVE  IInv'
  BY <1>1, StartSteps
<1>2. ASSUME NEW w \in Workers, Continue(w)
      PROVE  IInv'
  BY <1>2, ContinueSteps
<1>3. ASSUME NEW w \in Workers, Abort(w)
      PROVE  IInv'
  BY <1>3, FinishStep DEF Abort, account
<1>4. ASSUME NEW y \in TokenTypes, TokenExpires(y)
      PROVE  IInv'
  BY <1>4, ExpiryStep
<1>5. CASE Tick
  BY <1>5, IdleStep DEF Tick, account, ghosts
<1>6. CASE UNCHANGED vars
  BY <1>6, IdleStep DEF vars, account, ghosts
<1> QED
  BY <1>1, <1>2, <1>3, <1>4, <1>5, <1>6 DEF Next

\* The invariant holds in every reachable state, for any number of requests.
THEOREM AccountsInvariant == Spec => []IInv
BY InitHolds, NextHolds, PTL DEF Spec

\* verify-token.provider.ts: an accepted token was mailed for that purpose and
\* is in Redis no more, whatever other requests do.
THEOREM TokenIsSpentHolds == Spec => []TokenIsSpent
<1>1. IInv => TokenIsSpent
  BY DEF IInv, TokensOK
<1> QED
  BY <1>1, AccountsInvariant, PTL

\* verify-email.provider.ts: no interleaving and no stale save verifies an
\* address that neither a mailed token nor Google has verified.
THEOREM VerifiedByMailHolds == Spec => []VerifiedByMail
<1>1. IInv => VerifiedByMail
  BY DEF IInv, RowOK, GoodRow, ByToken, VerifiedByMail
<1> QED
  BY <1>1, AccountsInvariant, PTL
-----------------------------------------------------------------------------
(* Requests that do not overlap: the counter and the password history.     *)

\* The request is about to save the counter.
Counting(r) == "attempts" \in DOMAIN r.patch \/ "until" \in DOMAIN r.patch

\* The failures are counted in the row, or in the patch that is about to be saved.
Counted(r, rw, fa, lf) ==
    IF Counting(r)
    THEN /\ r.pc \in {"us_find", "us_save"} /\ DOMAIN r.patch = {"attempts", "until"}
         /\ r.patch["attempts"] = fa
         /\ fa >= MaxAttempts => r.patch["until"] = lf + LockFor
    ELSE /\ rw.attempts = fa
         /\ fa >= MaxAttempts => rw.until = lf + LockFor

\* What a request relies on from one await to the next.
Current(r, ex, rw, fa, st) ==
    /\ fa \in Nat /\ (~ex => fa = 0 /\ st = <<>>)
    /\ r.pc \in {"si_hash", "pw_check", "tk_take", "us_find", "us_save"} => ex = TRUE
    /\ r.pc \in {"si_hash", "us_save"} => r.seen = rw
    /\ r.pc = "si_hash" => r.pw = rw.password \/ rw.attempts < MaxFailures

\* h ends as the first n passwords of st do, and has no more than m.
Kept(h, st, n, m) == /\ Len(h) = IF n <= m THEN n ELSE m
                     /\ \A i \in 1..Len(h) : h[i] = st[n - Len(h) + i]

Differ(st) == \A i, j \in 1..Len(st) : i < j /\ j - i <= HistoryLimit => st[i] # st[j]

\* The history follows the passwords stored, up to the insert and the deletion
\* that are still to come.
Recorded(r, hi, st) ==
    /\ hi \in Seq(Passwords) /\ st \in Seq(Passwords) /\ Differ(st)
    /\ r.pc = "ph_insert" => /\ Len(st) > 0 /\ st[Len(st)] = r.pw
                             /\ Kept(hi, st, Len(st) - 1, HistoryLimit)
    /\ r.pc = "ph_prune" => Kept(hi, st, Len(st), HistoryLimit + 1)
    /\ r.pc \notin {"ph_insert", "ph_prune"} => Kept(hi, st, Len(st), HistoryLimit)

\* A password to store has been looked up in the history.
Checked(r, hi) ==
    /\ r.pc = "su_create" => r.pw \in Passwords
    /\ r.pc \in {"pw_check", "tk_take", "us_find", "us_save"} /\ "password" \in DOMAIN r.patch =>
         /\ r.patch["password"] = r.pw /\ r.pw \in Passwords
         /\ r.pc # "pw_check" => \A i \in 1..Len(hi) : hi[i] # r.pw

Calm(r, ex, rw, hi, st, fa, lf) ==
    Counted(r, rw, fa, lf) /\ Current(r, ex, rw, fa, st) /\ Recorded(r, hi, st) /\ Checked(r, hi)

IdleOK == \A w \in Workers : At(w, "idle") => req[w] = NoRequest

CInv ==
    /\ IdleOK
    /\ ~disturbed =>
         /\ \A v, w \in Workers : v = w \/ At(v, "idle") \/ At(w, "idle")
         /\ \A w \in Workers : ~At(w, "idle") =>
              Calm(req[w], exists, row, hist, stored, failures, lastFailure)
         /\ Quiet => Calm(NoRequest, exists, row, hist, stored, failures, lastFailure)


-----------------------------------------------------------------------------
(* What the steps of SavePasswordHistoryProvider do to the history.        *)

LEMMA KeptAppend ==
    ASSUME NEW h \in Seq(Passwords), NEW st \in Seq(Passwords), NEW p \in Passwords,
           Kept(h, st, Len(st), HistoryLimit), Differ(st), \A i \in 1..Len(h) : h[i] # p
    PROVE  LET s2 == Append(st, p) IN
           /\ s2 \in Seq(Passwords) /\ Len(s2) > 0 /\ s2[Len(s2)] = p
           /\ Kept(h, s2, Len(s2) - 1, HistoryLimit) /\ Differ(s2)
<1> DEFINE s2 == Append(st, p)
<1>0. HistoryLimit \in Nat /\ Len(st) \in Nat /\ Len(h) \in Nat
  BY AccountsAssumption
<1>1. /\ s2 \in Seq(Passwords) /\ Len(s2) = Len(st) + 1 /\ s2[Len(st) + 1] = p
      /\ \A i \in 1..Len(st) : s2[i] = st[i]
  OBVIOUS
<1> HIDE DEF s2
<1>2. Kept(h, s2, Len(s2) - 1, HistoryLimit)
  <2>1. Len(h) = IF Len(st) <= HistoryLimit THEN Len(st) ELSE HistoryLimit
    BY DEF Kept
  <2>2. ASSUME NEW i \in 1..Len(h)
        PROVE  h[i] = s2[Len(st) - Len(h) + i]
    <3>1. Len(st) - Len(h) + i \in 1..Len(st)
      BY <1>0, <2>1
    <3> QED
      BY <1>1, <3>1 DEF Kept
  <2> QED
    BY <1>0, <1>1, <2>1, <2>2 DEF Kept
<1>3. Differ(s2)
  <2> SUFFICES ASSUME NEW i \in 1..Len(s2), NEW j \in 1..Len(s2),
                      i < j, j - i <= HistoryLimit
               PROVE  s2[i] # s2[j]
    BY DEF Differ
  <2>1. CASE j <= Len(st)
    BY <1>0, <1>1, <2>1 DEF Differ
  <2>2. CASE j = Len(st) + 1
    <3> DEFINE k == i - (Len(st) - Len(h))
    <3>0. Len(h) = IF Len(st) <= HistoryLimit THEN Len(st) ELSE HistoryLimit
      BY DEF Kept
    <3>a. i \in Nat /\ i >= 1 /\ i <= Len(st) /\ Len(st) + 1 - i <= HistoryLimit
      BY <1>0, <1>1, <2>2
    <3>b. k \in Int /\ k >= 1 /\ k <= Len(h)
      BY <1>0, <3>0, <3>a
    <3>1. k \in 1..Len(h) /\ Len(st) - Len(h) + k = i /\ i \in 1..Len(st)
      BY <1>0, <3>a, <3>b
    <3>2. h[k] = st[i]
      BY <3>1 DEF Kept
    <3> QED
      BY <1>1, <2>2, <3>1, <3>2
  <2> QED
    BY <1>0, <1>1, <2>1, <2>2
<1> QED
  BY <1>0, <1>1, <1>2, <1>3 DEF s2

LEMMA KeptInsert ==
    ASSUME NEW h \in Seq(Passwords), NEW st \in Seq(Passwords), NEW p \in Passwords,
           Len(st) > 0, st[Len(st)] = p, Kept(h, st, Len(st) - 1, HistoryLimit)
    PROVE  /\ Append(h, p) \in Seq(Passwords)
           /\ Kept(Append(h, p), st, Len(st), HistoryLimit + 1)
<1> DEFINE h2 == Append(h, p)
<1>0. HistoryLimit \in Nat /\ Len(st) \in Nat /\ Len(h) \in Nat
  BY AccountsAssumption
<1>1. /\ h2 \in Seq(Passwords) /\ Len(h2) = Len(h) + 1 /\ h2[Len(h) + 1] = p
      /\ \A i \in 1..Len(h) : h2[i] = h[i]
  OBVIOUS
<1> HIDE DEF h2
<1>2. Len(h2) = IF Len(st) <= HistoryLimit + 1 THEN Len(st) ELSE HistoryLimit + 1
  BY <1>0, <1>1 DEF Kept
<1>3. ASSUME NEW i \in 1..Len(h2)
      PROVE  h2[i] = st[Len(st) - Len(h2) + i]
  <2>1. CASE i \in 1..Len(h)
    <3>1. Len(st) - Len(h2) + i = Len(st) - 1 - Len(h) + i
      BY <1>0, <1>1
    <3> QED
      BY <1>1, <2>1, <3>1 DEF Kept
  <2>2. CASE i = Len(h) + 1
    <3>1. Len(st) - Len(h2) + i = Len(st)
      BY <1>0, <1>1, <2>2
    <3> QED
      BY <1>1, <2>2, <3>1
  <2> QED
    BY <1>0, <1>1, <2>1, <2>2
<1>4. Kept(h2, st, Len(st), HistoryLimit + 1)
  BY <1>2, <1>3 DEF Kept
<1> QED
  BY <1>1, <1>4 DEF h2

LEMMA KeptPrune ==
    ASSUME NEW h \in Seq(Passwords), NEW st \in Seq(Passwords),
           Kept(h, st, Len(st), HistoryLimit + 1)
    PROVE  /\ LastN(h, HistoryLimit) \in Seq(Passwords)
           /\ Kept(LastN(h, HistoryLimit), st, Len(st), HistoryLimit)
<1> DEFINE L  == HistoryLimit
           h2 == LastN(h, L)
<1>0. L \in Nat /\ L > 0 /\ Len(st) \in Nat /\ Len(h) \in Nat
  BY AccountsAssumption
<1>k. /\ Len(h) = IF Len(st) <= L + 1 THEN Len(st) ELSE L + 1
      /\ \A i \in 1..Len(h) : h[i] = st[Len(st) - Len(h) + i]
  BY DEF Kept
<1> HIDE DEF L
<1>1. CASE Len(h) > L
  <2>0. Len(h) = L + 1 /\ Len(h) - L + 1 = 2
    BY <1>0, <1>k, <1>1
  <2>1. Len(h) = L + 1 /\ h2 = SubSeq(h, 2, L + 1)
    BY <1>1, <2>0, Zenon DEF LastN
  <2>2. h2 \in Seq(Passwords) /\ Len(h2) = L /\ \A i \in 1..L : h2[i] = h[i + 1]
    BY <1>0, <2>1
  <2> HIDE DEF h2
  <2>3. ASSUME NEW i \in 1..L
        PROVE  h2[i] = st[Len(st) - L + i]
    <3>1. i + 1 \in 1..Len(h) /\ Len(st) - Len(h) + (i + 1) = Len(st) - L + i
      BY <1>0, <2>1
    <3> QED
      BY <1>k, <2>2, <3>1
  <2>4. Len(h2) = IF Len(st) <= L THEN Len(st) ELSE L
    BY <1>0, <1>k, <1>1, <2>2
  <2>5. Kept(h2, st, Len(st), L)
    BY <2>2, <2>3, <2>4 DEF Kept
  <2> QED
    BY <2>2, <2>5 DEF h2, L
<1>2. CASE Len(h) <= L
  <2>0. ~(Len(h) > L) /\ Len(st) = Len(h)
    BY <1>0, <1>k, <1>2
  <2>1. h2 = SubSeq(h, 1, Len(h)) /\ Len(st) = Len(h)
    BY <2>0 DEF LastN
  <2>2. h2 \in Seq(Passwords) /\ Len(h2) = Len(h) /\ \A i \in 1..Len(h) : h2[i] = h[i]
    BY <1>0, <2>1
  <2> HIDE DEF h2
  <2>3. Kept(h2, st, Len(st), L)
    BY <1>0, <1>k, <1>2, <2>1, <2>2 DEF Kept
  <2> QED
    BY <2>2, <2>3 DEF h2, L
<1> QED
  BY <1>0, <1>1, <1>2

\* The lookup of CheckPasswordHistoryProvider sees the whole history.
LEMMA WholeHistory ==
    ASSUME NEW h \in Seq(Passwords), NEW p, Len(h) <= HistoryLimit,
           p \notin Contents(LastN(h, HistoryLimit))
    PROVE  \A i \in 1..Len(h) : h[i] # p
<1>0. ~(Len(h) > HistoryLimit)
  BY AccountsAssumption
<1>1. LastN(h, HistoryLimit) = SubSeq(h, 1, Len(h))
  BY <1>0 DEF LastN
<1>2. LastN(h, HistoryLimit) = h
  BY <1>1
<1> QED
  BY <1>2 DEF Contents


-----------------------------------------------------------------------------
(* The request in flight, when it is the only one.                         *)

Holds(r) == Calm(r, exists, row, hist, stored, failures, lastFailure)

\* The request of a step that overlaps no other is calm, also while it is idle.
LEMMA CalmNow ==
    ASSUME CInv, NEW w \in Workers, ~disturbed, Alone(w) \/ ~At(w, "idle")
    PROVE  Holds(req[w]) /\ \A v \in Workers \ {w} : At(v, "idle")
<1>1. \A v \in Workers \ {w} : At(v, "idle")
  BY DEF CInv, Alone
<1>2. CASE At(w, "idle")
  <2>1. Quiet /\ req[w] = NoRequest
    BY <1>1, <1>2 DEF CInv, IdleOK, Quiet
  <2> QED
    BY <1>1, <2>1 DEF CInv, Holds
<1>3. CASE ~At(w, "idle")
  BY <1>1, <1>3 DEF CInv, Holds
<1> QED
  BY <1>2, <1>3

LEMMA CalmStep ==
    ASSUME CInv, DOMAIN req = Workers, NEW w \in Workers, NEW r,
           req' = [req EXCEPT ![w] = r], r.pc = "idle" => r = NoRequest,
           ~disturbed' =>
             /\ ~disturbed /\ (Alone(w) \/ ~At(w, "idle"))
             /\ Calm(r, exists', row', hist', stored', failures', lastFailure')
    PROVE  CInv'
<1>1. /\ DOMAIN req' = Workers /\ req'[w] = r
      /\ \A v \in Workers : v # w => req'[v] = req[v]
  OBVIOUS
<1>2. IdleOK'
  BY <1>1 DEF CInv, IdleOK, At
<1>3. ASSUME ~disturbed'
      PROVE  /\ \A u, v \in Workers : u = v \/ At(u, "idle")' \/ At(v, "idle")'
             /\ \A v \in Workers : ~At(v, "idle")' =>
                  Calm(req'[v], exists', row', hist', stored', failures', lastFailure')
             /\ Quiet' =>
                  Calm(NoRequest, exists', row', hist', stored', failures', lastFailure')
  <2>1. \A v \in Workers : v # w => At(v, "idle")'
    BY <1>1, <1>3, CalmNow DEF At
  <2>2. Calm(r, exists', row', hist', stored', failures', lastFailure')
    BY <1>3
  <2>3. Quiet' => r = NoRequest
    BY <1>1 DEF Quiet, At
  <2> QED
    BY <1>1, <2>1, <2>2, <2>3
<1> QED
  BY <1>2, <1>3 DEF CInv

\* A step that changes nothing these facts are about.
LEMMA CalmStutter ==
    ASSUME CInv, UNCHANGED <<req, exists, row, hist, stored, failures, lastFailure, disturbed>>
    PROVE  CInv'
<1>1. IdleOK'
  BY DEF CInv, IdleOK, At
<1> QED
  BY <1>1 DEF CInv, At, Quiet

\* The death of a request: others may be in flight beside the next one.
LEMMA CalmAbort ==
    ASSUME CInv, DOMAIN req = Workers, NEW w \in Workers, Abort(w)
    PROVE  CInv'
<1>1. req' = [req EXCEPT ![w] = NoRequest] /\ disturbed'
  BY DEF Abort, Finish
<1> QED
  BY <1>1, CalmStep

-----------------------------------------------------------------------------
(* The steps that begin a request.                                         *)

LEMMA NewCalm ==
    ASSUME NEW r, NEW ex, NEW rw, NEW hi, NEW st, NEW fa, NEW lf,
           Calm(NoRequest, ex, rw, hi, st, fa, lf), ~Counting(r),
           r.pc \notin {"ph_insert", "ph_prune", "us_save"},
           r.pc \in {"si_hash", "pw_check", "tk_take", "us_find"} => ex = TRUE,
           r.pc = "si_hash" => r.seen = rw /\ (r.pw = rw.password \/ rw.attempts < MaxFailures),
           Checked(r, hi)
    PROVE  Calm(r, ex, rw, hi, st, fa, lf)
<1>0. NoRequest.pc = "idle" /\ ~Counting(NoRequest)
  BY NoRequestShape, NoPatch DEF Counting
<1>1. Counted(r, rw, fa, lf)
  BY <1>0 DEF Calm, Counted, Counting
<1>2. Current(r, ex, rw, fa, st)
  BY <1>0 DEF Calm, Current
<1>3. Recorded(r, hi, st)
  BY <1>0 DEF Calm, Recorded
<1> QED
  BY <1>1, <1>2, <1>3 DEF Calm

LEMMA CalmBegin ==
    ASSUME CInv, DOMAIN req = Workers, NEW w \in Workers, NEW r, Begin(w, r),
           ~Counting(r),
           r.pc \notin {"idle", "ph_insert", "ph_prune", "us_save"},
           r.pc \in {"si_hash", "pw_check", "tk_take", "us_find"} => exists = TRUE,
           r.pc = "si_hash" => r.seen = row /\ (r.pw = row.password \/ row.attempts < MaxFailures),
           Checked(r, hist)
    PROVE  CInv'
<1>1. /\ At(w, "idle") /\ req' = [req EXCEPT ![w] = r]
      /\ UNCHANGED <<exists, row, hist, stored, failures, lastFailure>>
  BY DEF Begin, account
<1>2. ASSUME ~disturbed'
      PROVE  /\ ~disturbed /\ Alone(w)
             /\ Calm(r, exists, row, hist, stored, failures, lastFailure)
  <2>1. ~disturbed /\ Alone(w)
    BY <1>2 DEF Begin
  <2>2. req[w] = NoRequest
    BY <1>1 DEF CInv, IdleOK
  <2>3. Holds(NoRequest)
    BY <2>1, <2>2, CalmNow
  <2> QED
    BY <2>1, <2>3, NewCalm DEF Holds
<1> QED
  BY <1>1, <1>2, CalmStep

LEMMA CalmStart ==
    ASSUME CInv, DOMAIN req = Workers, NEW w \in Workers, Start(w)
    PROVE  CInv'
<1>0. ~Counting(NoRequest)
  BY NoRequestShape, NoPatch DEF Counting
<1>1. CASE GoogleStart(w)
  <2>1. CASE Begin(w, [NoRequest EXCEPT !.pc = "go_create"])
    <3> DEFINE q == [NoRequest EXCEPT !.pc = "go_create"]
    <3>1. q.pc = "go_create" /\ q.patch = NoRequest.patch
      BY NoRequestShape DEF Fields
    <3>2. Begin(w, q)
      BY <2>1
    <3> HIDE DEF q
    <3> QED
      BY <1>0, <3>1, <3>2, CalmBegin DEF Checked, Counting
  <2>2. CASE exists /\ Begin(w, [NoRequest EXCEPT !.pc = "us_find", !.patch = GooglePatch])
    <3> DEFINE q == [NoRequest EXCEPT !.pc = "us_find", !.patch = GooglePatch]
    <3>1. q.pc = "us_find" /\ DOMAIN q.patch = {"google"}
      BY NoRequestShape DEF Fields, GooglePatch
    <3>2. Begin(w, q) /\ exists = TRUE
      BY <2>2
    <3> HIDE DEF q
    <3> QED
      BY <3>1, <3>2, CalmBegin DEF Checked, Counting
  <2> QED
    BY <1>1, <2>1, <2>2 DEF GoogleStart
<1>2. CASE GoogleReturns(w)
  BY <1>2, CalmStutter DEF GoogleReturns, ghosts
<1>3. ASSUME NEW y, Begin(w, [NoRequest EXCEPT !.pc = "tk_set", !.mint = y])
      PROVE  CInv'
  <2> DEFINE q == [NoRequest EXCEPT !.pc = "tk_set", !.mint = y]
  <2>1. q.pc = "tk_set" /\ q.patch = NoRequest.patch
    BY NoRequestShape DEF Fields
  <2>2. Begin(w, q)
    BY <1>3
  <2> HIDE DEF q
  <2> QED
    BY <1>0, <2>1, <2>2, CalmBegin DEF Checked, Counting
<1>4. CASE ResendVerification(w) \/ ForgotPassword(w)
  BY <1>3, <1>4 DEF ResendVerification, ForgotPassword
<1>5. ASSUME NEW p \in Passwords, SignupStart(w, p)
      PROVE  CInv'
  <2> DEFINE q == [NoRequest EXCEPT !.pc = "su_create", !.pw = p, !.mint = "VerifyEmail"]
  <2>1. q.pc = "su_create" /\ q.pw = p /\ q.patch = NoRequest.patch
    BY NoRequestShape DEF Fields
  <2>2. Begin(w, q)
    BY <1>5 DEF SignupStart
  <2> HIDE DEF q
  <2> QED
    BY <1>0, <2>1, <2>2, CalmBegin DEF Checked, Counting
<1>6. ASSUME NEW p \in Passwords, SigninStart(w, p)
      PROVE  CInv'
  <2> DEFINE q == [NoRequest EXCEPT !.pc = "si_hash", !.pw = p, !.seen = row]
  <2>1. q.pc = "si_hash" /\ q.pw = p /\ q.seen = row /\ q.patch = NoRequest.patch
    BY NoRequestShape DEF Fields
  <2>2. Begin(w, q) /\ exists = TRUE /\ (p = row.password \/ row.attempts < MaxFailures)
    BY <1>6 DEF SigninStart
  <2> HIDE DEF q
  <2> QED
    BY <1>0, <2>1, <2>2, CalmBegin DEF Checked, Counting
<1>7. ASSUME NEW p \in Passwords, NEW old \in Passwords, ChangePassword(w, old, p)
      PROVE  CInv'
  <2> DEFINE q == [NoRequest EXCEPT !.pc = "pw_check", !.pw = p, !.patch = [password |-> p]]
  <2>1. q.pc = "pw_check" /\ q.pw = p /\ DOMAIN q.patch = {"password"} /\ q.patch["password"] = p
    BY NoRequestShape DEF Fields
  <2>2. Begin(w, q) /\ exists = TRUE
    BY <1>7 DEF ChangePassword
  <2> HIDE DEF q
  <2> QED
    BY <2>1, <2>2, CalmBegin DEF Checked, Counting
<1>8. ASSUME NEW t \in mailed \cup {0}, VerifyEmail(w, t)
      PROVE  CInv'
  <2> DEFINE q == [NoRequest EXCEPT !.pc = "tk_take", !.take = "VerifyEmail", !.token = t,
                                    !.patch = [verified |-> TRUE]]
  <2>1. q.pc = "tk_take" /\ DOMAIN q.patch = {"verified"}
    BY NoRequestShape DEF Fields
  <2>2. Begin(w, q) /\ exists = TRUE
    BY <1>8 DEF VerifyEmail
  <2> HIDE DEF q
  <2> QED
    BY <2>1, <2>2, CalmBegin DEF Checked, Counting
<1>9. ASSUME NEW t \in mailed \cup {0}, NEW p \in Passwords, ResetPassword(w, t, p)
      PROVE  CInv'
  <2> DEFINE q == [NoRequest EXCEPT !.pc = "pw_check", !.pw = p, !.take = "ForgotPassword",
                                    !.token = t, !.patch = [password |-> p]]
  <2>1. q.pc = "pw_check" /\ q.pw = p /\ DOMAIN q.patch = {"password"} /\ q.patch["password"] = p
    BY NoRequestShape DEF Fields
  <2>2. Begin(w, q) /\ exists = TRUE
    BY <1>9 DEF ResetPassword
  <2> HIDE DEF q
  <2> QED
    BY <2>1, <2>2, CalmBegin DEF Checked, Counting
<1>10. ASSUME NEW a \in BOOLEAN, ToggleUserStatus(w, a)
       PROVE  CInv'
  <2> DEFINE q == [NoRequest EXCEPT !.pc = "us_find", !.patch = [active |-> a]]
  <2>1. q.pc = "us_find" /\ DOMAIN q.patch = {"active"}
    BY NoRequestShape DEF Fields
  <2>2. Begin(w, q) /\ exists = TRUE
    BY <1>10 DEF ToggleUserStatus
  <2> HIDE DEF q
  <2> QED
    BY <2>1, <2>2, CalmBegin DEF Checked, Counting
<1> QED
  BY <1>1, <1>2, <1>4, <1>5, <1>6, <1>7, <1>8, <1>9, <1>10 DEF Start


-----------------------------------------------------------------------------
(* The steps that continue a request.                                      *)

LEMMA CalmMove ==
    ASSUME CInv, DOMAIN req = Workers, NEW w \in Workers, NEW r, ~At(w, "idle"),
           req' = [req EXCEPT ![w] = r], r.pc = "idle" => r = NoRequest,
           UNCHANGED disturbed,
           Holds(req[w]) => Calm(r, exists', row', hist', stored', failures', lastFailure')
    PROVE  CInv'
<1>1. ~disturbed' => Calm(r, exists', row', hist', stored', failures', lastFailure')
  BY CalmNow
<1> QED
  BY <1>1, CalmStep

\* A request that has neither counted nor stored anything may end.
LEMMA CalmEnd ==
    ASSUME CInv, DOMAIN req = Workers, NEW w \in Workers, Finish(w),
           ~At(w, "idle"), req[w].pc \notin {"us_find", "us_save", "ph_insert", "ph_prune"},
           UNCHANGED <<exists, row, hist, stored, failures, lastFailure, disturbed>>
    PROVE  CInv'
<1>0. NoRequest.pc = "idle" /\ ~Counting(NoRequest)
  BY NoRequestShape, NoPatch DEF Counting
<1>1. ASSUME Holds(req[w])
      PROVE  Holds(NoRequest)
  <2>1. Counted(NoRequest, row, failures, lastFailure)
    BY <1>0, <1>1 DEF Holds, Calm, Counted, Counting
  <2>2. Current(NoRequest, exists, row, failures, stored)
    BY <1>0, <1>1 DEF Holds, Calm, Current
  <2>3. Recorded(NoRequest, hist, stored)
    BY <1>0, <1>1 DEF Holds, Calm, Recorded
  <2>4. Checked(NoRequest, hist)
    BY <1>0 DEF Checked
  <2> QED
    BY <2>1, <2>2, <2>3, <2>4 DEF Holds, Calm
<1> QED
  BY <1>1, CalmMove DEF Finish, Holds

\* A request goes on with other fields that neither count nor store.
LEMMA GoesOn ==
    ASSUME NEW r, NEW q, Holds(r), q.patch = r.patch, q.pw = r.pw,
           r.pc \notin {"ph_insert", "ph_prune"}, q.pc \notin {"ph_insert", "ph_prune", "si_hash"},
           Counting(r) => q.pc \in {"us_find", "us_save"},
           q.pc \in {"pw_check", "tk_take", "us_find", "us_save"} => exists = TRUE,
           q.pc = "us_save" => q.seen = row, q.pc # "su_create", Checked(q, hist)
    PROVE  Holds(q)
<1>1. Counted(q, row, failures, lastFailure)
  BY DEF Holds, Calm, Counted, Counting
<1>2. Current(q, exists, row, failures, stored)
  BY DEF Holds, Calm, Current
<1>3. Recorded(q, hist, stored)
  BY DEF Holds, Calm, Recorded
<1> QED
  BY <1>1, <1>2, <1>3 DEF Holds, Calm

LEMMA CalmFind ==
    ASSUME IInv, CInv, NEW w \in Workers, UserFind(w)
    PROVE  CInv'
<1> DEFINE r == req[w]
           q == [r EXCEPT !.pc = "us_save", !.seen = row]
<1>1. /\ r.pc = "us_find" /\ req' = [req EXCEPT ![w] = q] /\ DOMAIN req = Workers
      /\ UNCHANGED <<exists, row, hist, stored, failures, lastFailure, disturbed>>
  BY Typing DEF UserFind, At, account, ghosts
<1>2. q.pc = "us_save" /\ q.seen = row /\ q.patch = r.patch /\ q.pw = r.pw
  BY Typing DEF GoodRequest, Fields
<1> HIDE DEF r, q
<1>3. ASSUME Holds(r)
      PROVE  Holds(q)
  <2>1. Checked(q, hist) /\ exists = TRUE
    BY <1>1, <1>2, <1>3 DEF Holds, Calm, Checked, Current
  <2> QED
    BY <1>1, <1>2, <1>3, <2>1, GoesOn
<1> QED
  BY <1>1, <1>2, <1>3, CalmMove DEF At, Holds, r

LEMMA CalmCheck ==
    ASSUME IInv, CInv, NEW w \in Workers, PasswordCheck(w) \/ TokenTake(w)
    PROVE  CInv'
<1> DEFINE r == req[w]
<1>1. /\ r.pc \in {"pw_check", "tk_take"} /\ ~At(w, "idle") /\ DOMAIN req = Workers
      /\ UNCHANGED <<exists, row, hist, stored, failures, lastFailure, disturbed>>
  BY Typing DEF PasswordCheck, TokenTake, At, account, ghosts
<1>2. CASE Finish(w)
  BY <1>1, <1>2, CalmEnd
<1>3. ASSUME NEW l \in {"us_find", "tk_take"}, Goto(w, l),
             r.pc = "pw_check" => r.pw \notin Contents(LastN(hist, HistoryLimit))
      PROVE  CInv'
  <2> DEFINE q == [r EXCEPT !.pc = l]
  <2>1. q.pc = l /\ q.patch = r.patch /\ q.pw = r.pw /\ req' = [req EXCEPT ![w] = q]
    BY <1>3, Typing DEF GoodRequest, Fields, Goto
  <2> HIDE DEF q
  <2>2. ASSUME Holds(r)
        PROVE  Holds(q)
    <3>1. /\ hist \in Seq(Passwords) /\ Len(hist) <= HistoryLimit /\ exists = TRUE
          /\ ~Counting(r)
      <4>1. Kept(hist, stored, Len(stored), HistoryLimit) /\ hist \in Seq(Passwords)
        BY <1>1, <2>2 DEF Holds, Calm, Recorded
      <4>2. Len(stored) \in Nat
        BY <2>2 DEF Holds, Calm, Recorded
      <4>3. Len(hist) <= HistoryLimit
        BY <4>1, <4>2, AccountsAssumption DEF Kept
      <4> QED
        BY <1>1, <2>2, <4>1, <4>3 DEF Holds, Calm, Current, Counted, Counting
    <3>2. r.pc = "pw_check" => \A i \in 1..Len(hist) : hist[i] # r.pw
      BY <1>3, <3>1, WholeHistory
    <3>3. Checked(q, hist)
      BY <1>1, <1>3, <2>1, <2>2, <3>2 DEF Holds, Calm, Checked
    <3> QED
      BY <1>1, <1>3, <2>1, <2>2, <3>1, <3>3, GoesOn
  <2> QED
    BY <1>1, <1>3, <2>1, <2>2, CalmMove DEF Holds
<1> QED
  BY <1>1, <1>2, <1>3 DEF PasswordCheck, TokenTake, At

LEMMA CalmToken ==
    ASSUME IInv, CInv, NEW w \in Workers, TokenSet(w) \/ TokenMail(w)
    PROVE  CInv'
<1> DEFINE r == req[w]
           q == [r EXCEPT !.pc = "tk_mail", !.mint = "none", !.token = Len(minted) + 1]
<1>1. /\ r.pc \in {"tk_set", "tk_mail"} /\ ~At(w, "idle") /\ DOMAIN req = Workers
      /\ UNCHANGED <<exists, row, hist, stored, failures, lastFailure, disturbed>>
  BY Typing DEF TokenSet, TokenMail, At, account, ghosts
<1>2. CASE TokenMail(w)
  BY <1>1, <1>2, CalmEnd DEF TokenMail
<1>3. CASE TokenSet(w)
  <2>1. q.pc = "tk_mail" /\ q.patch = r.patch /\ q.pw = r.pw
    BY Typing DEF GoodRequest, Fields
  <2>2. req' = [req EXCEPT ![w] = q]
    BY <1>3 DEF TokenSet
  <2> HIDE DEF r, q
  <2>3. ASSUME Holds(r)
        PROVE  Holds(q)
    <3>1. Checked(q, hist) /\ ~Counting(r)
      BY <1>1, <2>1, <2>3 DEF Checked, Holds, Calm, Counted, Counting
    <3> QED
      BY <1>1, <2>1, <2>3, <3>1, GoesOn
  <2> QED
    BY <1>1, <2>1, <2>2, <2>3, CalmMove DEF Holds, r
<1> QED
  BY <1>2, <1>3

LEMMA CalmHistory ==
    ASSUME IInv, CInv, NEW w \in Workers, HistoryInsert(w) \/ HistoryPrune(w)
    PROVE  CInv'
<1> DEFINE r == req[w]
<1>1. /\ ~At(w, "idle") /\ DOMAIN req = Workers
      /\ UNCHANGED <<exists, row, stored, failures, lastFailure, disturbed>>
  BY Typing DEF HistoryInsert, HistoryPrune, At, account, ghosts
<1>2. ASSUME NEW q, req' = [req EXCEPT ![w] = q], q.pc = "idle" => q = NoRequest,
             q.pc \notin {"su_create", "pw_check", "tk_take", "us_find", "us_save", "si_hash"},
             q.patch = r.patch \/ q = NoRequest, r.pc \in {"ph_insert", "ph_prune"},
             Holds(r) => Recorded(q, hist', stored)
      PROVE  CInv'
  <2>1. ASSUME Holds(r)
        PROVE  Calm(q, exists, row, hist', stored, failures, lastFailure)
    <3>0. ~Counting(r) /\ ~Counting(q)
      BY <1>2, <2>1, NoRequestShape, NoPatch DEF Holds, Calm, Counted, Counting
    <3>1. Counted(q, row, failures, lastFailure)
      BY <2>1, <3>0 DEF Holds, Calm, Counted, Counting
    <3>2. Current(q, exists, row, failures, stored)
      BY <1>2, <2>1 DEF Holds, Calm, Current
    <3>3. Checked(q, hist')
      BY <1>2 DEF Checked
    <3> QED
      BY <1>2, <2>1, <3>1, <3>2, <3>3 DEF Calm
  <2> QED
    BY <1>1, <1>2, <2>1, CalmMove
<1>3. CASE HistoryInsert(w)
  <2> DEFINE q == [r EXCEPT !.pc = "ph_prune"]
  <2>1. q.pc = "ph_prune" /\ q.patch = r.patch
    BY Typing DEF GoodRequest, Fields
  <2>2. /\ r.pc = "ph_insert" /\ hist' = Append(hist, r.pw) /\ req' = [req EXCEPT ![w] = q]
    BY <1>3 DEF HistoryInsert, At, Goto
  <2> HIDE DEF q
  <2>3. ASSUME Holds(r)
        PROVE  Recorded(q, hist', stored)
    <3>1. /\ hist \in Seq(Passwords) /\ stored \in Seq(Passwords) /\ Differ(stored)
          /\ Len(stored) > 0 /\ stored[Len(stored)] = r.pw
          /\ Kept(hist, stored, Len(stored) - 1, HistoryLimit)
      BY <2>2, <2>3 DEF Holds, Calm, Recorded
    <3>2. r.pw \in Passwords
      BY <3>1
    <3>3. hist' \in Seq(Passwords) /\ Kept(hist', stored, Len(stored), HistoryLimit + 1)
      BY <2>2, <3>1, <3>2, KeptInsert
    <3> QED
      BY <2>1, <3>1, <3>3 DEF Recorded
  <2> QED
    BY <1>2, <2>1, <2>2, <2>3
<1>4. CASE HistoryPrune(w)
  <2>1. r.pc = "ph_prune" /\ hist' = LastN(hist, HistoryLimit)
    BY <1>4 DEF HistoryPrune, At
  <2>2. ASSUME NEW q, q.pc \notin {"ph_insert", "ph_prune"}, Holds(r)
        PROVE  Recorded(q, hist', stored)
    <3>1. /\ hist \in Seq(Passwords) /\ stored \in Seq(Passwords) /\ Differ(stored)
          /\ Kept(hist, stored, Len(stored), HistoryLimit + 1)
      BY <2>1, <2>2 DEF Holds, Calm, Recorded
    <3>2. hist' \in Seq(Passwords) /\ Kept(hist', stored, Len(stored), HistoryLimit)
      BY <2>1, <3>1, KeptPrune
    <3> QED
      BY <2>2, <3>1, <3>2 DEF Recorded
  <2>3. CASE Finish(w)
    <3>1. req' = [req EXCEPT ![w] = NoRequest] /\ NoRequest.pc = "idle"
      BY <2>3, NoRequestShape DEF Finish
    <3> QED
      BY <1>2, <2>1, <2>2, <3>1
  <2>4. CASE Goto(w, "tk_set")
    <3> DEFINE q == [r EXCEPT !.pc = "tk_set"]
    <3>1. q.pc = "tk_set" /\ q.patch = r.patch /\ req' = [req EXCEPT ![w] = q]
      BY <2>4, Typing DEF GoodRequest, Fields, Goto
    <3> HIDE DEF q
    <3> QED
      BY <1>2, <2>1, <2>2, <3>1
  <2> QED
    BY <1>4, <2>3, <2>4 DEF HistoryPrune
<1> QED
  BY <1>3, <1>4


LEMMA CalmSignin ==
    ASSUME IInv, CInv, NEW w \in Workers,
           SigninRefuse(w) \/ SigninFail(w) \/ SigninUnverified(w) \/ SigninPass(w)
    PROVE  CInv'
<1> DEFINE r == req[w]
<1>1. /\ r.pc = "si_hash" /\ ~At(w, "idle") /\ DOMAIN req = Workers
      /\ UNCHANGED <<exists, row, hist, stored, disturbed>>
  BY Typing DEF SigninRefuse, SigninFail, SigninUnverified, SigninPass, At, account, ghosts
<1>2. CASE SigninRefuse(w) \/ SigninUnverified(w)
  <2>1. Finish(w) /\ UNCHANGED <<failures, lastFailure>>
    BY <1>2 DEF SigninRefuse, SigninUnverified, ghosts
  <2> QED
    BY <1>1, <2>1, CalmEnd
\* The patch that counts the attempt is the only thing left to do.
<1>3. ASSUME NEW pt, DOMAIN pt = {"attempts", "until"},
             req' = [req EXCEPT ![w] = [NoRequest EXCEPT !.pc = "us_find", !.patch = pt]],
             Holds(r) => /\ failures' \in Nat /\ pt["attempts"] = failures'
                         /\ failures' >= MaxAttempts => pt["until"] = lastFailure' + LockFor
      PROVE  CInv'
  <2> DEFINE q == [NoRequest EXCEPT !.pc = "us_find", !.patch = pt]
  <2>1. q.pc = "us_find" /\ q.patch = pt
    BY NoRequestShape DEF Fields
  <2>2. req' = [req EXCEPT ![w] = q]
    BY <1>3
  <2> HIDE DEF q
  <2>3. ASSUME Holds(r)
        PROVE  Calm(q, exists, row, hist, stored, failures', lastFailure')
    <3>1. Counted(q, row, failures', lastFailure')
      BY <1>3, <2>1, <2>3 DEF Counted, Counting
    <3>2. Current(q, exists, row, failures', stored)
      BY <1>1, <1>3, <2>1, <2>3 DEF Holds, Calm, Current
    <3>3. Recorded(q, hist, stored)
      BY <1>1, <2>1, <2>3 DEF Holds, Calm, Recorded
    <3>4. Checked(q, hist)
      BY <1>3, <2>1 DEF Checked
    <3> QED
      BY <3>1, <3>2, <3>3, <3>4 DEF Calm
  <2> QED
    BY <1>1, <2>1, <2>2, <2>3, CalmMove
<1>4. CASE SigninFail(w)
  <2> DEFINE pt == FailedPatch(r.seen)
  <2>1. /\ DOMAIN pt = {"attempts", "until"} /\ pt["attempts"] = r.seen.attempts + 1
        /\ r.seen.attempts + 1 >= MaxAttempts => pt["until"] = now + LockFor
    BY DEF FailedPatch
  <2>2. /\ req' = [req EXCEPT ![w] = [NoRequest EXCEPT !.pc = "us_find", !.patch = pt]]
        /\ r.pw # r.seen.password /\ lastFailure' = now
        /\ failures' = IF failures < MaxFailures THEN failures + 1 ELSE failures
    BY <1>4 DEF SigninFail
  <2> HIDE DEF pt
  <2>3. ASSUME Holds(r)
        PROVE  /\ failures' \in Nat /\ pt["attempts"] = failures'
               /\ failures' >= MaxAttempts => pt["until"] = lastFailure' + LockFor
    <3>1. failures \in Nat /\ r.seen = row /\ row.attempts < MaxFailures
      BY <1>1, <2>2, <2>3 DEF Holds, Calm, Current
    <3>2. row.attempts = failures
      BY <1>1, <2>3 DEF Holds, Calm, Counted, Counting
    <3> QED
      BY <2>1, <2>2, <3>1, <3>2
  <2> QED
    BY <1>3, <2>1, <2>2, <2>3
<1>5. CASE SigninPass(w)
  <2>1. DOMAIN ClearedPatch = {"attempts", "until"} /\ ClearedPatch["attempts"] = 0
    BY DEF ClearedPatch
  <2>2. /\ req' = [req EXCEPT ![w] = [NoRequest EXCEPT !.pc = "us_find", !.patch = ClearedPatch]]
        /\ failures' = 0
    BY <1>5 DEF SigninPass
  <2>3. ~(0 >= MaxAttempts)
    BY AccountsAssumption
  <2> QED
    BY <1>3, <2>1, <2>2, <2>3
<1> QED
  BY <1>2, <1>4, <1>5

\* A password is stored that has been looked up, or is the first.
LEMMA StoredOnce ==
    ASSUME NEW r, NEW q, NEW hi, NEW st, Recorded(r, hi, st),
           r.pc \notin {"ph_insert", "ph_prune"}, q.pc = "ph_insert", q.pw \in Passwords,
           \A i \in 1..Len(hi) : hi[i] # q.pw
    PROVE  Recorded(q, hi, Append(st, q.pw))
<1>1. /\ hi \in Seq(Passwords) /\ st \in Seq(Passwords) /\ Differ(st)
      /\ Kept(hi, st, Len(st), HistoryLimit)
  BY DEF Recorded
<1> DEFINE s2 == Append(st, q.pw)
<1>2. /\ s2 \in Seq(Passwords) /\ Len(s2) > 0 /\ s2[Len(s2)] = q.pw
      /\ Kept(hi, s2, Len(s2) - 1, HistoryLimit) /\ Differ(s2)
  BY <1>1, KeptAppend
<1> HIDE DEF s2
<1>3. Recorded(q, hi, s2)
  BY <1>1, <1>2 DEF Recorded
<1> QED
  BY <1>3 DEF s2

LEMMA CalmSave ==
    ASSUME IInv, CInv, NEW w \in Workers, UserSave(w)
    PROVE  CInv'
<1> DEFINE r == req[w]
           q == [r EXCEPT !.pc = "ph_insert"]
<1>1. /\ r.pc = "us_save" /\ ~At(w, "idle") /\ DOMAIN req = Workers /\ DOMAIN row = Cols
      /\ row' = Merge(r.patch, r.seen)
      /\ UNCHANGED <<exists, hist, failures, lastFailure, disturbed>>
  BY Typing DEF UserSave, At
<1>2. q.pc = "ph_insert" /\ q.patch = r.patch /\ q.pw = r.pw
  BY Typing DEF GoodRequest, Fields
<1>3. /\ "password" \in DOMAIN r.patch => /\ stored' = Append(stored, r.patch["password"])
                                          /\ req' = [req EXCEPT ![w] = q]
      /\ "password" \notin DOMAIN r.patch => /\ stored' = stored
                                             /\ req' = [req EXCEPT ![w] = NoRequest]
  BY DEF UserSave, Goto, Finish
<1> HIDE DEF q
\* The counter of the saved row, whether the patch has it or not.
<1>4. ASSUME NEW s, Holds(r), ~Counting(s)
      PROVE  Counted(s, row', failures, lastFailure)
  <2>1. r.seen = row
    BY <1>1, <1>4 DEF Holds, Calm, Current
  <2>2. /\ row'.attempts = IF "attempts" \in DOMAIN r.patch THEN r.patch["attempts"] ELSE row.attempts
        /\ row'.until = IF "until" \in DOMAIN r.patch THEN r.patch["until"] ELSE row.until
    BY <1>1, <2>1 DEF Merge, Cols
  <2>3. CASE Counting(r)
    BY <1>4, <2>2, <2>3 DEF Holds, Calm, Counted, Counting
  <2>4. CASE ~Counting(r)
    BY <1>4, <2>2, <2>4 DEF Holds, Calm, Counted, Counting
  <2> QED
    BY <2>3, <2>4
<1>5. CASE "password" \in DOMAIN r.patch
  <2>1. ASSUME Holds(r)
        PROVE  Calm(q, exists, row', hist, stored', failures, lastFailure)
    <3>1. /\ r.patch["password"] = r.pw /\ r.pw \in Passwords
          /\ \A i \in 1..Len(hist) : hist[i] # r.pw
      BY <1>1, <1>5, <2>1 DEF Holds, Calm, Checked
    <3>2. Recorded(q, hist, stored')
      <4>1. Recorded(r, hist, stored)
        BY <2>1 DEF Holds, Calm
      <4>2. r.pc \notin {"ph_insert", "ph_prune"} /\ q.pc = "ph_insert" /\ q.pw = r.pw
        BY <1>1, <1>2
      <4>3. stored' = Append(stored, r.pw)
        BY <1>3, <1>5, <3>1
      <4> HIDE DEF r
      <4>4. Recorded(q, hist, Append(stored, q.pw))
        BY <3>1, <4>1, <4>2, StoredOnce
      <4> QED
        BY <4>2, <4>3, <4>4
    <3>3. ~Counting(q)
      BY <1>2, <1>5, <2>1 DEF Holds, Calm, Counted, Counting
    <3>4. Counted(q, row', failures, lastFailure)
      BY <1>4, <2>1, <3>3
    <3>5. Current(q, exists, row', failures, stored')
      BY <1>1, <1>2, <2>1 DEF Holds, Calm, Current
    <3>6. Checked(q, hist)
      BY <1>2 DEF Checked
    <3> QED
      BY <3>2, <3>4, <3>5, <3>6 DEF Calm
  <2> QED
    BY <1>1, <1>2, <1>3, <1>5, <2>1, CalmMove
<1>6. CASE "password" \notin DOMAIN r.patch
  <2>0. NoRequest.pc = "idle" /\ ~Counting(NoRequest)
    BY NoRequestShape, NoPatch DEF Counting
  <2>1. ASSUME Holds(r)
        PROVE  Calm(NoRequest, exists, row', hist, stored', failures, lastFailure)
    <3>1. Counted(NoRequest, row', failures, lastFailure)
      BY <1>4, <2>0, <2>1
    <3>2. Current(NoRequest, exists, row', failures, stored')
      BY <1>3, <1>6, <2>0, <2>1 DEF Holds, Calm, Current
    <3>3. Recorded(NoRequest, hist, stored')
      BY <1>1, <1>3, <1>6, <2>0, <2>1 DEF Holds, Calm, Recorded
    <3>4. Checked(NoRequest, hist)
      BY <2>0 DEF Checked
    <3> QED
      BY <3>1, <3>2, <3>3, <3>4 DEF Calm
  <2> QED
    BY <1>1, <1>3, <1>6, <2>1, CalmMove
<1> QED
  BY <1>5, <1>6

LEMMA CalmCreate ==
    ASSUME IInv, CInv, NEW w \in Workers, SignupCreate(w) \/ GoogleCreate(w)
    PROVE  CInv'
<1> DEFINE r == req[w]
           q == [r EXCEPT !.pc = "ph_insert"]
<1>1. /\ r.pc \in {"su_create", "go_create"} /\ ~At(w, "idle") /\ DOMAIN req = Workers
      /\ UNCHANGED <<hist, failures, lastFailure, disturbed>>
  BY Typing DEF SignupCreate, GoogleCreate, At, ghosts
<1>2. CASE Finish(w) /\ UNCHANGED <<exists, row, stored>>
  BY <1>1, <1>2, CalmEnd
\* A new row counts no failure, and there was none before it.
<1>3. ASSUME NEW s, Holds(r), ~exists, ~Counting(s),
             row'.attempts = 0
      PROVE  Counted(s, row', failures, lastFailure)
  <2>1. failures = 0 /\ ~(0 >= MaxAttempts)
    BY <1>3, AccountsAssumption DEF Holds, Calm, Current
  <2> QED
    BY <1>3, <2>1 DEF Counted, Counting
<1>4. CASE SignupCreate(w) /\ ~exists
  <2>1. /\ r.pc = "su_create" /\ exists' = TRUE /\ row'.attempts = 0
        /\ stored' = Append(stored, r.pw)
    BY <1>4 DEF SignupCreate, At, NoRow
  <2>2. req' = [req EXCEPT ![w] = q]
    BY <1>4 DEF SignupCreate, Goto
  <2>3. q.pc = "ph_insert" /\ q.patch = r.patch /\ q.pw = r.pw
    BY Typing DEF GoodRequest, Fields
  <2> HIDE DEF q
  <2>4. ASSUME Holds(r)
        PROVE  Calm(q, exists', row', hist, stored', failures, lastFailure)
    <3>1. r.pw \in Passwords /\ ~Counting(q)
      BY <2>1, <2>3, <2>4 DEF Holds, Calm, Checked, Counted, Counting
    <3>2. \A i \in 1..Len(hist) : hist[i] # r.pw
      <4>1. stored = <<>> /\ Kept(hist, stored, Len(stored), HistoryLimit)
        BY <1>4, <2>1, <2>4 DEF Holds, Calm, Current, Recorded
      <4>2. Len(hist) = 0
        BY <4>1, AccountsAssumption DEF Kept
      <4> QED
        BY <4>2
    <3>3. Recorded(q, hist, stored')
      <4>1. Recorded(r, hist, stored)
        BY <2>4 DEF Holds, Calm
      <4> QED
        BY <2>1, <2>3, <3>1, <3>2, <4>1, StoredOnce
    <3>4. Counted(q, row', failures, lastFailure)
      BY <1>3, <1>4, <2>1, <2>4, <3>1
    <3>5. Current(q, exists', row', failures, stored')
      BY <2>1, <2>3, <2>4 DEF Holds, Calm, Current
    <3>6. Checked(q, hist)
      BY <2>3 DEF Checked
    <3> QED
      BY <3>3, <3>4, <3>5, <3>6 DEF Calm
  <2> QED
    BY <1>1, <2>2, <2>3, <2>4, CalmMove
<1>5. CASE GoogleCreate(w) /\ ~exists
  <2>0. NoRequest.pc = "idle" /\ ~Counting(NoRequest)
    BY NoRequestShape, NoPatch DEF Counting
  <2>1. /\ exists' = TRUE /\ row'.attempts = 0 /\ stored' = stored
        /\ req' = [req EXCEPT ![w] = NoRequest]
    BY <1>5 DEF GoogleCreate, NoRow, Finish, ghosts
  <2>2. ASSUME Holds(r)
        PROVE  Calm(NoRequest, exists', row', hist, stored', failures, lastFailure)
    <3>1. Counted(NoRequest, row', failures, lastFailure)
      BY <1>3, <1>5, <2>0, <2>1, <2>2
    <3>2. Current(NoRequest, exists', row', failures, stored')
      BY <2>0, <2>1, <2>2 DEF Holds, Calm, Current
    <3>3. Recorded(NoRequest, hist, stored')
      BY <1>1, <2>0, <2>1, <2>2 DEF Holds, Calm, Recorded
    <3>4. Checked(NoRequest, hist)
      BY <2>0 DEF Checked
    <3> QED
      BY <3>1, <3>2, <3>3, <3>4 DEF Calm
  <2> QED
    BY <1>1, <2>1, <2>2, CalmMove
<1> QED
  BY <1>2, <1>4, <1>5 DEF SignupCreate, GoogleCreate, account, ghosts

-----------------------------------------------------------------------------
LEMMA CalmInit == Init => CInv
<1> SUFFICES ASSUME Init
             PROVE  CInv
  OBVIOUS
<1>1. IdleOK
  BY DEF Init, IdleOK
<1>0. NoRequest.pc = "idle" /\ ~Counting(NoRequest)
  BY NoRequestShape, NoPatch DEF Counting
<1>2. \A w \in Workers : At(w, "idle")
  BY <1>0 DEF Init, At
<1>3. Counted(NoRequest, row, failures, lastFailure)
  <2>1. row.attempts = 0 /\ failures = 0 /\ ~(0 >= MaxAttempts)
    BY AccountsAssumption DEF Init, NoRow
  <2> QED
    BY <1>0, <2>1 DEF Counted, Counting
<1>4. Current(NoRequest, exists, row, failures, stored)
  BY <1>0 DEF Init, Current
<1>5. Recorded(NoRequest, hist, stored)
  <2>1. hist = <<>> /\ stored = <<>> /\ Len(hist) = 0 /\ Len(stored) = 0
    BY DEF Init
  <2>2. Kept(hist, stored, Len(stored), HistoryLimit)
    BY <2>1, AccountsAssumption DEF Kept
  <2>3. Differ(stored) /\ hist \in Seq(Passwords) /\ stored \in Seq(Passwords)
    BY <2>1 DEF Differ
  <2> QED
    BY <1>0, <2>2, <2>3 DEF Recorded
<1>6. Checked(NoRequest, hist)
  BY <1>0 DEF Checked
<1> QED
  BY <1>1, <1>2, <1>3, <1>4, <1>5, <1>6 DEF CInv, Calm

LEMMA CalmNext == IInv /\ CInv /\ [Next]_vars => CInv'
<1> SUFFICES ASSUME IInv, CInv, [Next]_vars
             PROVE  CInv'
  OBVIOUS
<1>0. \A w \in Workers : DOMAIN req = Workers
  BY DEF IInv, RequestsOK
<1>1. ASSUME NEW w \in Workers, Start(w)
      PROVE  CInv'
  BY <1>0, <1>1, CalmStart
<1>2. ASSUME NEW w \in Workers, Continue(w)
      PROVE  CInv'
  BY <1>2, CalmCreate, CalmFind, CalmSave, CalmHistory, CalmToken, CalmCheck, CalmSignin
     DEF Continue
<1>3. ASSUME NEW w \in Workers, Abort(w)
      PROVE  CInv'
  BY <1>0, <1>3, CalmAbort
<1>4. ASSUME NEW y \in TokenTypes, TokenExpires(y)
      PROVE  CInv'
  BY <1>4, CalmStutter DEF TokenExpires, account, ghosts
<1>5. CASE Tick
  BY <1>5, CalmStutter DEF Tick, account, ghosts
<1>6. CASE UNCHANGED vars
  BY <1>6, CalmStutter DEF vars, account, ghosts
<1> QED
  BY <1>1, <1>2, <1>3, <1>4, <1>5, <1>6 DEF Next

LEMMA CalmInvariant == Spec => []CInv
BY InitHolds, NextHolds, CalmInit, CalmNext, PTL DEF Spec

\* signin.provider.ts: while requests do not overlap, the wrong passwords of any
\* sequence of requests lock the account exactly when they reach the limit.
THEOREM GuessingLocksHolds == Spec => []GuessingLocks
<1>1. CInv => GuessingLocks
  <2> SUFFICES ASSUME CInv, Quiet, ~disturbed, failures >= MaxAttempts
               PROVE  row.until = lastFailure + LockFor
    BY DEF GuessingLocks
  <2>1. Counted(NoRequest, row, failures, lastFailure)
    BY DEF CInv, Calm
  <2> QED
    BY <2>1, NoRequestShape, NoPatch DEF Counted, Counting
<1> QED
  BY <1>1, CalmInvariant, PTL

\* save-password-history.provider.ts, check-password-history.provider.ts: while
\* requests do not overlap, no password is one of the last ones stored.
THEOREM NoRecentReuseHolds == Spec => []NoRecentReuse
<1>1. CInv => NoRecentReuse
  <2> SUFFICES ASSUME CInv, ~disturbed
               PROVE  \A i, j \in DOMAIN stored :
                        i < j /\ j - i <= HistoryLimit => stored[i] # stored[j]
    BY DEF NoRecentReuse
  <2>1. stored \in Seq(Passwords) /\ Differ(stored)
    <3>1. CASE Quiet
      BY <3>1 DEF CInv, Calm, Recorded
    <3>2. CASE ~Quiet
      BY <3>2 DEF Quiet, CInv, Calm, Recorded
    <3> QED
      BY <3>1, <3>2
  <2> QED
    BY <2>1 DEF Differ
<1> QED
  BY <1>1, CalmInvariant, PTL
-----------------------------------------------------------------------------
(* Types.  A bound holds because a request starts only while there is room  *)
(* for what it will generate or store, so TInv counts the requests that     *)
(* have still to do it.  A wrong password is counted on a row that had not  *)
(* reached the bound when it was read.                                      *)

Num(b)     == IF b THEN 1 ELSE 0
Mints(r)   == Num(r.mint # "none")
Stores(r)  == Num(/\ r.pw # NoPassword
                  /\ r.pc \in {"su_create", "pw_check", "tk_take", "us_find", "us_save"})
Inserts(r) == Num(r.pc = "ph_insert")

Minting    == {w \in Workers : Mints(req[w]) = 1}
Storing    == {w \in Workers : Stores(req[w]) = 1}
Inserting  == {w \in Workers : Inserts(req[w]) = 1}

TypedRequest(r) ==
    /\ r \in Requests
    /\ r.pc \in {"su_create", "pw_check", "ph_insert"} => r.pw \in Passwords
    /\ "password" \in DOMAIN r.patch => r.pw = r.patch["password"]
    /\ r.pc = "si_hash" => r.pw = r.seen.password \/ r.seen.attempts < MaxFailures

TypedState ==
    /\ exists \in BOOLEAN /\ row \in Rows /\ signedin \in BOOLEAN
    /\ minted \in Seq(TokenTypes)
    /\ hist \in Seq(Passwords) /\ stored \in Seq(Passwords)
    /\ accepted \subseteq (0..Len(minted)) \X TokenTypes
    /\ now \in 0..MaxNow /\ failures \in 0..MaxFailures /\ lastFailure \in 0..now
    /\ disturbed \in BOOLEAN

TypedRequests == /\ DOMAIN req = Workers /\ req \in [Workers -> Requests]
                 /\ \A w \in Workers : TypedRequest(req[w])

Counts ==
    /\ IsFiniteSet(Minting) /\ Len(minted) + Cardinality(Minting) <= MaxTokens
    /\ IsFiniteSet(Storing) /\ Len(stored) + Cardinality(Storing) <= MaxStores
    /\ IsFiniteSet(Inserting) /\ Len(hist) + Cardinality(Inserting) <= Len(stored)

TInv == TypedState /\ TypedRequests /\ Counts

\* Two finite sets that differ in one element at most.
LEMMA Exchange ==
    ASSUME NEW S, IsFiniteSet(S), NEW T, NEW w, S \ {w} = T \ {w}
    PROVE  /\ IsFiniteSet(T) /\ Cardinality(S) \in Nat /\ Cardinality(T) \in Nat
           /\ Cardinality(T) + Num(w \in S) = Cardinality(S) + Num(w \in T)
<1> DEFINE R == S \ {w}
<1>1. IsFiniteSet(R) /\ Cardinality(R) \in Nat
  BY FS_Subset, FS_CardinalityType
<1>2. w \notin R
  OBVIOUS
<1>3. IsFiniteSet(R \cup {w}) /\ Cardinality(R \cup {w}) = Cardinality(R) + 1
  BY <1>1, <1>2, FS_AddElement
<1>4. S = IF w \in S THEN R \cup {w} ELSE R
  OBVIOUS
<1>5. T = IF w \in T THEN R \cup {w} ELSE R
  OBVIOUS
<1> HIDE DEF R
<1>6. Cardinality(S) = Cardinality(R) + Num(w \in S)
  BY <1>1, <1>3, <1>4 DEF Num
<1>7. IsFiniteSet(T) /\ Cardinality(T) = Cardinality(R) + Num(w \in T)
  <2>1. CASE w \in T
    BY <1>3, <1>5, <2>1 DEF Num
  <2>2. CASE w \notin T
    BY <1>1, <1>5, <2>2 DEF Num
  <2> QED
    BY <2>1, <2>2
<1>8. Num(w \in S) \in Nat /\ Num(w \in T) \in Nat
  BY DEF Num
<1> QED
  BY <1>1, <1>6, <1>7, <1>8

\* What one request adds to the three counts, and what it takes from them.
LEMMA CountsMove ==
    ASSUME TInv, NEW w \in Workers, NEW q, req' = [req EXCEPT ![w] = q]
    PROVE  /\ IsFiniteSet(Minting') /\ IsFiniteSet(Storing') /\ IsFiniteSet(Inserting')
           /\ Cardinality(Minting) \in Nat /\ Cardinality(Minting') \in Nat
           /\ Cardinality(Storing) \in Nat /\ Cardinality(Storing') \in Nat
           /\ Cardinality(Inserting) \in Nat /\ Cardinality(Inserting') \in Nat
           /\ Cardinality(Minting') + Mints(req[w]) = Cardinality(Minting) + Mints(q)
           /\ Cardinality(Storing') + Stores(req[w]) = Cardinality(Storing) + Stores(q)
           /\ Cardinality(Inserting') + Inserts(req[w])
                = Cardinality(Inserting) + Inserts(q)
<1>1. req'[w] = q /\ \A v \in Workers : v # w => req'[v] = req[v]
  BY DEF TInv, TypedRequests
<1>2. /\ Minting \ {w} = Minting' \ {w}
      /\ (w \in Minting <=> Mints(req[w]) = 1) /\ (w \in Minting' <=> Mints(q) = 1)
  BY <1>1 DEF Minting
<1>3. /\ Storing \ {w} = Storing' \ {w}
      /\ (w \in Storing <=> Stores(req[w]) = 1) /\ (w \in Storing' <=> Stores(q) = 1)
  BY <1>1 DEF Storing
<1>4. /\ Inserting \ {w} = Inserting' \ {w}
      /\ (w \in Inserting <=> Inserts(req[w]) = 1) /\ (w \in Inserting' <=> Inserts(q) = 1)
  BY <1>1 DEF Inserting
<1>5. IsFiniteSet(Minting) /\ IsFiniteSet(Storing) /\ IsFiniteSet(Inserting)
  BY DEF TInv, Counts
<1>6. /\ IsFiniteSet(Minting') /\ Cardinality(Minting) \in Nat /\ Cardinality(Minting') \in Nat
      /\ Cardinality(Minting') + Num(w \in Minting) = Cardinality(Minting) + Num(w \in Minting')
  BY <1>2, <1>5, Exchange
<1>7. /\ IsFiniteSet(Storing') /\ Cardinality(Storing) \in Nat /\ Cardinality(Storing') \in Nat
      /\ Cardinality(Storing') + Num(w \in Storing) = Cardinality(Storing) + Num(w \in Storing')
  BY <1>3, <1>5, Exchange
<1>8. /\ IsFiniteSet(Inserting') /\ Cardinality(Inserting) \in Nat
      /\ Cardinality(Inserting') \in Nat
      /\ Cardinality(Inserting') + Num(w \in Inserting)
           = Cardinality(Inserting) + Num(w \in Inserting')
  BY <1>4, <1>5, Exchange
<1>9. /\ Mints(req[w]) \in {0, 1} /\ Mints(q) \in {0, 1}
       /\ Stores(req[w]) \in {0, 1} /\ Stores(q) \in {0, 1}
       /\ Inserts(req[w]) \in {0, 1} /\ Inserts(q) \in {0, 1}
  BY DEF Num, Mints, Stores, Inserts
<1>10. /\ Num(w \in Minting) = Mints(req[w]) /\ Num(w \in Minting') = Mints(q)
       /\ Num(w \in Storing) = Stores(req[w]) /\ Num(w \in Storing') = Stores(q)
       /\ Num(w \in Inserting) = Inserts(req[w]) /\ Num(w \in Inserting') = Inserts(q)
  BY <1>2, <1>3, <1>4, <1>9 DEF Num
<1> QED
  BY <1>6, <1>7, <1>8, <1>10

\* A count that keeps below its bound, and one that keeps below another.
LEMMA Room ==
    ASSUME NEW h \in Nat, NEW h2 \in Nat, NEW m \in Nat, NEW a \in 0..1, NEW b \in 0..1,
           NEW c \in Nat, NEW c2 \in Nat, c2 + a = c + b, h + c <= m,
           h2 + b <= h + a \/ (h2 = h /\ h + c < m)
    PROVE  h2 + c2 <= m
OBVIOUS

LEMMA Behind ==
    ASSUME NEW h \in Nat, NEW h2 \in Nat, NEW m \in Nat, NEW m2 \in Nat, NEW a \in 0..1,
           NEW b \in 0..1, NEW c \in Nat, NEW c2 \in Nat, c2 + a = c + b, h + c <= m,
           h2 + b + m <= h + a + m2
    PROVE  h2 + c2 <= m2
OBVIOUS

\* A step of request w keeps the types if its new record is typed and the counts
\* allow for what is left to do.
LEMMA TypeStep ==
    ASSUME TInv, TypedState', NEW w \in Workers, NEW q, TypedRequest(q),
           req' = [req EXCEPT ![w] = q],
           \/ Len(minted') + Mints(q) <= Len(minted) + Mints(req[w])
           \/ Len(minted') = Len(minted) /\ MayMint,
           \/ Len(stored') + Stores(q) <= Len(stored) + Stores(req[w])
           \/ Len(stored') = Len(stored) /\ MayStore,
           Len(hist') + Inserts(q) + Len(stored)
             <= Len(hist) + Inserts(req[w]) + Len(stored')
    PROVE  TInv'
<1>1. /\ Mints(q) \in 0..1 /\ Mints(req[w]) \in 0..1
      /\ Stores(q) \in 0..1 /\ Stores(req[w]) \in 0..1
      /\ Inserts(q) \in 0..1 /\ Inserts(req[w]) \in 0..1
  BY DEF Num, Mints, Stores, Inserts
<1>2. /\ Len(minted) \in Nat /\ Len(minted') \in Nat /\ Len(stored) \in Nat
      /\ Len(stored') \in Nat /\ Len(hist) \in Nat /\ Len(hist') \in Nat
  BY LenProperties DEF TInv, TypedState
<1>3. /\ MaxTokens \in Nat /\ MaxStores \in Nat
  BY AccountsAssumption
<1>4. /\ MayMint => Len(minted) + Cardinality(Minting) < MaxTokens
      /\ MayStore => Len(stored) + Cardinality(Storing) < MaxStores
  <2>1. Minting = {v \in Workers : req[v].mint # "none"}
    BY DEF Minting, Mints, Num
  <2>2. Storing = {v \in Workers :
            /\ req[v].pw # NoPassword
            /\ req[v].pc \in {"su_create", "pw_check", "tk_take", "us_find", "us_save"}}
    BY DEF Storing, Stores, Num
  <2> QED
    BY <2>1, <2>2 DEF MayMint, MayStore
<1>5. Counts
  BY DEF TInv
<1>6. /\ Cardinality(Minting) \in Nat /\ Cardinality(Minting') \in Nat
      /\ Cardinality(Minting') + Mints(req[w]) = Cardinality(Minting) + Mints(q)
      /\ Len(minted) + Cardinality(Minting) <= MaxTokens
  BY <1>5, CountsMove DEF Counts
<1>7. /\ Cardinality(Storing) \in Nat /\ Cardinality(Storing') \in Nat
      /\ Cardinality(Storing') + Stores(req[w]) = Cardinality(Storing) + Stores(q)
      /\ Len(stored) + Cardinality(Storing) <= MaxStores
  BY <1>5, CountsMove DEF Counts
<1>8. /\ Cardinality(Inserting) \in Nat /\ Cardinality(Inserting') \in Nat
      /\ Cardinality(Inserting') + Inserts(req[w]) = Cardinality(Inserting) + Inserts(q)
      /\ Len(hist) + Cardinality(Inserting) <= Len(stored)
  BY <1>5, CountsMove DEF Counts
<1>9. Len(minted') + Cardinality(Minting') <= MaxTokens
  <2>1. \/ Len(minted') + Mints(q) <= Len(minted) + Mints(req[w])
        \/ Len(minted') = Len(minted) /\ Len(minted) + Cardinality(Minting) < MaxTokens
    BY <1>4
  <2> QED
    BY <1>1, <1>2, <1>3, <1>6, <2>1, Room
<1>10. Len(stored') + Cardinality(Storing') <= MaxStores
  <2>1. \/ Len(stored') + Stores(q) <= Len(stored) + Stores(req[w])
        \/ Len(stored') = Len(stored) /\ Len(stored) + Cardinality(Storing) < MaxStores
    BY <1>4
  <2> QED
    BY <1>1, <1>2, <1>3, <1>7, <2>1, Room
<1>11. Len(hist') + Cardinality(Inserting') <= Len(stored')
  BY <1>1, <1>2, <1>8, Behind
<1>12. Counts'
  BY <1>9, <1>10, <1>11, CountsMove DEF Counts
<1>13. TypedRequests'
  BY DEF TInv, TypedRequests, TypedRequest
<1> QED
  BY <1>12, <1>13 DEF TInv

\* A step of request w that generates and stores nothing, and leaves it no more to
\* do than it had.
LEMMA TypedMove ==
    ASSUME TInv, TypedState', NEW w \in Workers, NEW q, TypedRequest(q),
           req' = [req EXCEPT ![w] = q], UNCHANGED <<minted, stored>>,
           Len(hist') <= Len(hist),
           Mints(q) <= Mints(req[w]), Stores(q) <= Stores(req[w]),
           Inserts(q) <= Inserts(req[w])
    PROVE  TInv'
<1>1. /\ Mints(q) \in 0..1 /\ Mints(req[w]) \in 0..1
      /\ Stores(q) \in 0..1 /\ Stores(req[w]) \in 0..1
      /\ Inserts(q) \in 0..1 /\ Inserts(req[w]) \in 0..1
  BY DEF Num, Mints, Stores, Inserts
<1>2. /\ Len(minted) \in Nat /\ Len(stored) \in Nat /\ Len(hist) \in Nat /\ Len(hist') \in Nat
  BY LenProperties DEF TInv, TypedState
<1>3. /\ Len(minted') + Mints(q) <= Len(minted) + Mints(req[w])
      /\ Len(stored') + Stores(q) <= Len(stored) + Stores(req[w])
      /\ Len(hist') + Inserts(q) + Len(stored) <= Len(hist) + Inserts(req[w]) + Len(stored')
  BY <1>1, <1>2
<1> QED
  BY <1>3, TypeStep

LEMMA NoneTyped ==
    /\ NoRow \in Rows /\ <<>> \in Patches /\ ClearedPatch \in Patches /\ GooglePatch \in Patches
    /\ \A p \in Passwords : [password |-> p] \in Patches
    /\ \A a \in BOOLEAN : [active |-> a] \in Patches
    /\ [verified |-> TRUE] \in Patches
    /\ NoRequest \in Requests /\ TypedRequest(NoRequest)
    /\ Mints(NoRequest) = 0 /\ Stores(NoRequest) = 0 /\ Inserts(NoRequest) = 0
<1>1. 0 \in 0..MaxFailures /\ 0 \in 0..(MaxNow + LockFor) /\ 0 \in 0..MaxTokens
  BY AccountsAssumption
<1>2. NoRow \in Rows
  BY <1>1 DEF NoRow, Rows
<1>3. /\ <<>> \in Patches /\ \A p \in Passwords : [password |-> p] \in Patches
      /\ \A a \in BOOLEAN : [active |-> a] \in Patches
      /\ [verified |-> TRUE] \in Patches
  BY DEF Patches
<1>4. ClearedPatch \in Patches /\ GooglePatch \in Patches
  BY <1>1 DEF Patches, ClearedPatch, GooglePatch
<1>5. NoRequest \in Requests
  BY <1>1, <1>2, <1>3 DEF NoRequest, Requests, Pcs
<1>6. TypedRequest(NoRequest)
  BY <1>5, NoRequestShape, NoPatch DEF TypedRequest
<1>7. Mints(NoRequest) = 0 /\ Stores(NoRequest) = 0 /\ Inserts(NoRequest) = 0
  BY NoRequestShape DEF Mints, Stores, Inserts, Num
<1> QED
  BY <1>2, <1>3, <1>4, <1>5, <1>6, <1>7

\* A step that ends a request.
LEMMA TypedFinish ==
    ASSUME TInv, TypedState', NEW w \in Workers, Finish(w), UNCHANGED <<minted, stored>>,
           Len(hist') <= Len(hist)
    PROVE  TInv'
<1>1. 0 <= Mints(req[w]) /\ 0 <= Stores(req[w]) /\ 0 <= Inserts(req[w])
  BY DEF Mints, Stores, Inserts, Num
<1> QED
  BY <1>1, NoneTyped, TypedMove DEF Finish

\* A step that leaves the typed variables alone.
LEMMA StateStays ==
    ASSUME TInv, UNCHANGED <<exists, row, signedin, minted, hist, stored, accepted, now,
                             failures, lastFailure>>, disturbed' \in BOOLEAN
    PROVE  TypedState' /\ Len(hist') <= Len(hist)
<1>1. Len(hist) \in Nat
  BY LenProperties DEF TInv, TypedState
<1> QED
  BY <1>1 DEF TInv, TypedState

\* A step that begins a request.
LEMMA TypedBegin ==
    ASSUME TInv, NEW w \in Workers, NEW q, Begin(w, q), TypedRequest(q),
           Mints(q) = 0 \/ MayMint, Stores(q) = 0 \/ MayStore, Inserts(q) = 0
    PROVE  TInv'
<1>1. /\ Mints(q) \in 0..1 /\ Mints(req[w]) \in 0..1
      /\ Stores(q) \in 0..1 /\ Stores(req[w]) \in 0..1
      /\ Inserts(q) \in 0..1 /\ Inserts(req[w]) \in 0..1
  BY DEF Num, Mints, Stores, Inserts
<1>2. /\ Len(minted) \in Nat /\ Len(stored) \in Nat /\ Len(hist) \in Nat
  BY LenProperties DEF TInv, TypedState
<1>3. /\ UNCHANGED <<exists, row, signedin, minted, hist, stored, accepted, now, failures,
                     lastFailure>>
      /\ req' = [req EXCEPT ![w] = q]
      /\ disturbed' \in BOOLEAN
  BY DEF Begin, account, onetime, Alone, At, TInv, TypedState
<1>4. TypedState'
  BY <1>3, StateStays
<1>5. /\ \/ Len(minted') + Mints(q) <= Len(minted) + Mints(req[w])
         \/ Len(minted') = Len(minted) /\ MayMint
      /\ \/ Len(stored') + Stores(q) <= Len(stored) + Stores(req[w])
         \/ Len(stored') = Len(stored) /\ MayStore
      /\ Len(hist') + Inserts(q) + Len(stored) <= Len(hist) + Inserts(req[w]) + Len(stored')
  BY <1>1, <1>2, <1>3
<1> QED
  BY <1>3, <1>4, <1>5, TypeStep

\* A request moves on to label l.
LEMMA TypedGoto ==
    ASSUME NEW r, TypedRequest(r), NEW l \in Pcs,
           l \in {"su_create", "pw_check", "ph_insert"} => r.pw \in Passwords,
           l # "si_hash"
    PROVE  LET q == [r EXCEPT !.pc = l] IN
           /\ TypedRequest(q) /\ Mints(q) = Mints(r)
           /\ q.pc = l /\ q.pw = r.pw
<1> DEFINE q == [r EXCEPT !.pc = l]
<1>1. /\ q \in Requests /\ q.pc = l /\ q.pw = r.pw /\ q.patch = r.patch /\ q.mint = r.mint
  BY DEF TypedRequest, Requests
<1> HIDE DEF q
<1>2. TypedRequest(q) /\ Mints(q) = Mints(r)
  BY <1>1 DEF TypedRequest, Mints
<1> QED
  BY <1>1, <1>2 DEF q

\* The columns of a patch.
LEMMA PatchTyped ==
    ASSUME NEW p \in Patches
    PROVE  /\ "password" \in DOMAIN p => p["password"] \in Passwords
           /\ "attempts" \in DOMAIN p => p["attempts"] \in 0..MaxFailures
           /\ "until"    \in DOMAIN p => p["until"] \in 0..(MaxNow + LockFor)
           /\ "verified" \in DOMAIN p => p["verified"] \in BOOLEAN
           /\ "active"   \in DOMAIN p => p["active"] \in BOOLEAN
           /\ "google"   \in DOMAIN p => p["google"] \in BOOLEAN
<1>1. CASE p \in [password : Passwords]
  BY <1>1
<1>2. CASE p \in [attempts : 0..MaxFailures, until : 0..(MaxNow + LockFor)]
  BY <1>2
<1>3. CASE p \in [verified : {TRUE}] \cup [active : BOOLEAN] \cup [google : {TRUE}]
  BY <1>3
<1>4. CASE p = <<>>
  BY <1>4, NoPatch
<1> QED
  BY <1>1, <1>2, <1>3, <1>4 DEF Patches

LEMMA MergeTyped ==
    ASSUME NEW p \in Patches, NEW r \in Rows
    PROVE  Merge(p, r) \in Rows
<1>1. DOMAIN r = Cols
  BY DEF Rows, Cols
<1> DEFINE m == Merge(p, r)
<1>2. DOMAIN m = Cols /\ \A c \in Cols : m[c] = IF c \in DOMAIN p THEN p[c] ELSE r[c]
  BY <1>1 DEF Merge
<1>3. /\ "password" \in DOMAIN p => p["password"] \in Passwords
      /\ "attempts" \in DOMAIN p => p["attempts"] \in 0..MaxFailures
      /\ "until"    \in DOMAIN p => p["until"] \in 0..(MaxNow + LockFor)
      /\ "verified" \in DOMAIN p => p["verified"] \in BOOLEAN
      /\ "active"   \in DOMAIN p => p["active"] \in BOOLEAN
      /\ "google"   \in DOMAIN p => p["google"] \in BOOLEAN
  BY PatchTyped
<1>4. /\ r["password"] \in Passwords \cup {NoPassword} /\ r["attempts"] \in 0..MaxFailures
      /\ r["until"] \in 0..(MaxNow + LockFor) /\ r["verified"] \in BOOLEAN
      /\ r["active"] \in BOOLEAN /\ r["google"] \in BOOLEAN
  BY DEF Rows
<1>5. m = [c \in Cols |-> m[c]]
  BY <1>1 DEF Merge
<1> HIDE DEF m
<1>6. /\ m["password"] \in Passwords \cup {NoPassword} /\ m["attempts"] \in 0..MaxFailures
      /\ m["until"] \in 0..(MaxNow + LockFor) /\ m["verified"] \in BOOLEAN
      /\ m["active"] \in BOOLEAN /\ m["google"] \in BOOLEAN
  BY <1>2, <1>3, <1>4 DEF Cols
<1>7. m \in Rows
  BY <1>5, <1>6 DEF Rows, Cols
<1> QED
  BY <1>7 DEF m

\* The record a request carries and the row, as the invariant types them.
LEMMA TypedRow ==
    ASSUME TInv, NEW w \in Workers
    PROVE  /\ row \in Rows /\ TypedRequest(req[w]) /\ req[w] \in Requests
           /\ req[w].seen \in Rows /\ req[w].patch \in Patches
           /\ Len(minted) \in Nat /\ Len(stored) \in Nat /\ Len(hist) \in Nat
BY LenProperties DEF TInv, TypedState, TypedRequests, TypedRequest, Requests

\* Requests that carry no password.
LEMMA TypedStarts ==
    ASSUME NEW q \in Requests, q.pw = NoPassword, "password" \notin DOMAIN q.patch,
           q.pc \notin {"su_create", "pw_check", "ph_insert", "si_hash"}
    PROVE  /\ TypedRequest(q) /\ Stores(q) = 0 /\ Inserts(q) = 0
           /\ q.mint = "none" => Mints(q) = 0
BY DEF TypedRequest, Stores, Inserts, Mints, Num

LEMMA TypedStart ==
    ASSUME IInv, TInv, NEW w \in Workers, Start(w)
    PROVE  TInv'
<1>1. \A pt \in Patches : LET q == [NoRequest EXCEPT !.pc = "us_find", !.patch = pt] IN
        "password" \notin DOMAIN pt
          => TypedRequest(q) /\ Stores(q) = 0 /\ Inserts(q) = 0 /\ Mints(q) = 0
  <2> SUFFICES ASSUME NEW pt \in Patches, "password" \notin DOMAIN pt
               PROVE  LET q == [NoRequest EXCEPT !.pc = "us_find", !.patch = pt] IN
                      TypedRequest(q) /\ Stores(q) = 0 /\ Inserts(q) = 0 /\ Mints(q) = 0
    OBVIOUS
  <2> DEFINE q == [NoRequest EXCEPT !.pc = "us_find", !.patch = pt]
  <2>1. q \in Requests /\ q.pc = "us_find" /\ q.pw = NoPassword /\ q.patch = pt /\ q.mint = "none"
    BY NoneTyped DEF Requests, Pcs, NoRequest
  <2> HIDE DEF q
  <2>2. TypedRequest(q) /\ Stores(q) = 0 /\ Inserts(q) = 0 /\ Mints(q) = 0
    BY <2>1, TypedStarts
  <2> QED
    BY <2>2 DEF q
<1>2. "password" \notin DOMAIN GooglePatch /\ \A a : "password" \notin DOMAIN [active |-> a]
  BY DEF GooglePatch
<1>3. CASE GoogleStart(w)
  <2> DEFINE q == [NoRequest EXCEPT !.pc = "go_create"]
  <2>1. q \in Requests /\ q.pc = "go_create" /\ q.pw = NoPassword /\ q.patch = <<>> /\ q.mint = "none"
    BY NoneTyped DEF Requests, Pcs, NoRequest
  <2>2. Begin(w, q) \/ Begin(w, [NoRequest EXCEPT !.pc = "us_find", !.patch = GooglePatch])
    BY <1>3 DEF GoogleStart
  <2> HIDE DEF q
  <2>3. TypedRequest(q) /\ Stores(q) = 0 /\ Inserts(q) = 0 /\ Mints(q) = 0
    BY <2>1, NoPatch, TypedStarts
  <2> QED
    BY <1>1, <1>2, <2>2, <2>3, NoneTyped, TypedBegin
<1>4. CASE GoogleReturns(w)
  <2>1. signedin' \in BOOLEAN /\ UNCHANGED <<exists, row, hist, minted, now, req, stored, accepted,
                             failures, lastFailure, disturbed>>
    BY <1>4 DEF GoogleReturns, onetime, ghosts
  <2>2. TypedState'
    BY <2>1 DEF TInv, TypedState
  <2>3. TypedRequests' /\ Counts'
    BY <2>1 DEF TInv, TypedRequests, Counts, Minting, Storing, Inserting
  <2> QED
    BY <2>2, <2>3 DEF TInv
<1>5. CASE ResendVerification(w) \/ ForgotPassword(w)
  <2>1. PICK y \in TokenTypes :
          Begin(w, [NoRequest EXCEPT !.pc = "tk_set", !.mint = y]) /\ MayMint
    BY <1>5 DEF ResendVerification, ForgotPassword, TokenTypes
  <2> DEFINE q == [NoRequest EXCEPT !.pc = "tk_set", !.mint = y]
  <2>2. q \in Requests /\ q.pc = "tk_set" /\ q.pw = NoPassword /\ q.patch = <<>>
    BY NoneTyped DEF Requests, Pcs, NoRequest
  <2>3. Begin(w, q)
    BY <2>1
  <2> HIDE DEF q
  <2>4. TypedRequest(q) /\ Stores(q) = 0 /\ Inserts(q) = 0
    BY <2>2, NoPatch, TypedStarts
  <2> QED
    BY <2>1, <2>3, <2>4, TypedBegin
<1>6. ASSUME NEW p \in Passwords, SignupStart(w, p)
      PROVE  TInv'
  <2> DEFINE q == [NoRequest EXCEPT !.pc = "su_create", !.pw = p, !.mint = "VerifyEmail"]
  <2>1. q \in Requests
    BY NoneTyped DEF Requests, Pcs, TokenTypes
  <2>2. q.pc = "su_create" /\ q.pw = p /\ q.patch = <<>>
    BY DEF NoRequest
  <2>3. Begin(w, q) /\ MayMint /\ MayStore
    BY <1>6 DEF SignupStart
  <2> HIDE DEF q
  <2>4. TypedRequest(q) /\ Inserts(q) = 0
    BY <2>1, <2>2, NoPatch DEF TypedRequest, Inserts, Num
  <2> QED
    BY <2>3, <2>4, TypedBegin
<1>7. ASSUME NEW p \in Passwords, SigninStart(w, p)
      PROVE  TInv'
  <2> DEFINE q == [NoRequest EXCEPT !.pc = "si_hash", !.pw = p, !.seen = row]
  <2>1. q \in Requests
    BY NoneTyped, TypedRow DEF Requests, Pcs
  <2>2. /\ q.pc = "si_hash" /\ q.pw = p /\ q.patch = <<>> /\ q.seen = row /\ q.mint = "none"
    BY DEF NoRequest
  <2>3. Begin(w, q) /\ (p = row.password \/ row.attempts < MaxFailures)
    BY <1>7 DEF SigninStart
  <2> HIDE DEF q
  <2>4. TypedRequest(q) /\ Mints(q) = 0 /\ Stores(q) = 0 /\ Inserts(q) = 0
    BY <2>1, <2>2, <2>3, NoPatch DEF TypedRequest, Mints, Stores, Inserts, Num
  <2> QED
    BY <2>3, <2>4, TypedBegin
<1>8. ASSUME NEW p \in Passwords, NEW old \in Passwords, ChangePassword(w, old, p)
      PROVE  TInv'
  <2> DEFINE q == [NoRequest EXCEPT !.pc = "pw_check", !.pw = p, !.patch = [password |-> p]]
  <2>1. q \in Requests
    BY NoneTyped DEF Requests, Pcs
  <2>2. q.pc = "pw_check" /\ q.pw = p /\ q.patch = [password |-> p] /\ q.mint = "none"
    BY DEF NoRequest
  <2>3. Begin(w, q) /\ MayStore
    BY <1>8 DEF ChangePassword
  <2> HIDE DEF q
  <2>4. TypedRequest(q) /\ Mints(q) = 0 /\ Inserts(q) = 0
    BY <2>1, <2>2 DEF TypedRequest, Mints, Inserts, Num
  <2> QED
    BY <2>3, <2>4, TypedBegin
<1>9. \A t \in mailed \cup {0} : t \in 0..MaxTokens
  <2>1. Len(minted) <= MaxTokens /\ Len(minted) \in Nat /\ MaxTokens \in Nat
    BY TypedRow, FS_CardinalityType, AccountsAssumption DEF TInv, Counts
  <2> QED
    BY <2>1 DEF IInv, TokensOK
<1>10. ASSUME NEW t \in mailed \cup {0}, VerifyEmail(w, t)
       PROVE  TInv'
  <2> DEFINE q == [NoRequest EXCEPT !.pc = "tk_take", !.take = "VerifyEmail", !.token = t,
                                    !.patch = [verified |-> TRUE]]
  <2>1. q \in Requests
    BY <1>9, NoneTyped DEF Requests, Pcs, TokenTypes
  <2>2. /\ q.pc = "tk_take" /\ q.pw = NoPassword /\ q.patch = [verified |-> TRUE]
        /\ q.mint = "none"
    BY DEF NoRequest
  <2>3. Begin(w, q)
    BY <1>10 DEF VerifyEmail
  <2> HIDE DEF q
  <2>4. TypedRequest(q) /\ Mints(q) = 0 /\ Stores(q) = 0 /\ Inserts(q) = 0
    BY <2>1, <2>2 DEF TypedRequest, Mints, Stores, Inserts, Num
  <2> QED
    BY <2>3, <2>4, TypedBegin
<1>11. ASSUME NEW t \in mailed \cup {0}, NEW p \in Passwords, ResetPassword(w, t, p)
       PROVE  TInv'
  <2> DEFINE q == [NoRequest EXCEPT !.pc = "pw_check", !.pw = p, !.take = "ForgotPassword",
                                    !.token = t, !.patch = [password |-> p]]
  <2>1. q \in Requests
    BY <1>9, NoneTyped DEF Requests, Pcs, TokenTypes
  <2>2. q.pc = "pw_check" /\ q.pw = p /\ q.patch = [password |-> p] /\ q.mint = "none"
    BY DEF NoRequest
  <2>3. Begin(w, q) /\ MayStore
    BY <1>11 DEF ResetPassword
  <2> HIDE DEF q
  <2>4. TypedRequest(q) /\ Mints(q) = 0 /\ Inserts(q) = 0
    BY <2>1, <2>2 DEF TypedRequest, Mints, Inserts, Num
  <2> QED
    BY <2>3, <2>4, TypedBegin
<1>12. ASSUME NEW a \in BOOLEAN, ToggleUserStatus(w, a)
       PROVE  TInv'
  <2>1. Begin(w, [NoRequest EXCEPT !.pc = "us_find", !.patch = [active |-> a]])
    BY <1>12 DEF ToggleUserStatus
  <2> QED
    BY <1>1, <1>2, <2>1, NoneTyped, TypedBegin
<1> QED
  BY <1>3, <1>4, <1>5, <1>6, <1>7, <1>8, <1>10, <1>11, <1>12 DEF Start

\* A request that waits to generate a token, or to store a password, has left
\* room for it.
LEMMA RoomLeft ==
    ASSUME TInv, NEW w \in Workers
    PROVE  /\ Mints(req[w]) = 1 => Len(minted) + 1 <= MaxTokens
           /\ Stores(req[w]) = 1 => Len(stored) + 1 <= MaxStores
<1>1. Mints(req[w]) = 1 => w \in Minting
  BY DEF Minting
<1>2. Stores(req[w]) = 1 => w \in Storing
  BY DEF Storing
<1>3. ASSUME NEW S, IsFiniteSet(S), w \in S
      PROVE  Cardinality(S) \in Nat /\ Cardinality(S) >= 1
  BY <1>3, FS_EmptySet, FS_CardinalityType
<1>4. /\ IsFiniteSet(Minting) /\ Len(minted) + Cardinality(Minting) <= MaxTokens
      /\ IsFiniteSet(Storing) /\ Len(stored) + Cardinality(Storing) <= MaxStores
      /\ Len(minted) \in Nat /\ Len(stored) \in Nat /\ MaxTokens \in Nat /\ MaxStores \in Nat
  BY TypedRow, AccountsAssumption DEF TInv, Counts
<1>5. Mints(req[w]) = 1 => Cardinality(Minting) \in Nat /\ Cardinality(Minting) >= 1
  BY <1>1, <1>3, <1>4
<1>6. Stores(req[w]) = 1 => Cardinality(Storing) \in Nat /\ Cardinality(Storing) >= 1
  BY <1>2, <1>3, <1>4
<1>7. Mints(req[w]) = 1 => Len(minted) + 1 <= MaxTokens
  BY <1>4, <1>5
<1>8. Stores(req[w]) = 1 => Len(stored) + 1 <= MaxStores
  BY <1>4, <1>6
<1> QED
  BY <1>7, <1>8

LEMMA AppendTyped ==
    ASSUME NEW S, NEW s \in Seq(S), NEW e \in S
    PROVE  Append(s, e) \in Seq(S) /\ Len(Append(s, e)) = Len(s) + 1 /\ Len(s) \in Nat
BY AppendProperties, LenProperties

LEMMA LastTyped ==
    ASSUME NEW S, NEW s \in Seq(S), NEW n \in Nat
    PROVE  LastN(s, n) \in Seq(S) /\ Len(LastN(s, n)) <= Len(s)
<1> DEFINE a == IF Len(s) > n THEN Len(s) - n + 1 ELSE 1
<1>1. Len(s) \in Nat /\ a \in Nat /\ a >= 1 /\ a <= Len(s) + 1
  BY LenProperties
<1> HIDE DEF a
<1>2. /\ SubSeq(s, a, Len(s)) \in Seq(S)
      /\ Len(SubSeq(s, a, Len(s))) = IF a <= Len(s) THEN Len(s) - a + 1 ELSE 0
  BY <1>1, SubSeqProperties
<1>3. Len(SubSeq(s, a, Len(s))) <= Len(s)
  BY <1>1, <1>2
<1> QED
  BY <1>2, <1>3 DEF LastN, a

LEMMA TypedSave ==
    ASSUME TInv, NEW w \in Workers, UserSave(w)
    PROVE  TInv'
<1> DEFINE r == req[w]
<1>1. /\ r.pc = "us_save" /\ row' = Merge(r.patch, r.seen) /\ signedin' \in BOOLEAN
      /\ UNCHANGED <<exists, hist, minted, now, accepted, failures, lastFailure, disturbed>>
  BY DEF UserSave, At, onetime, TInv, TypedState
<1>2. row' \in Rows
  BY <1>1, TypedRow, MergeTyped
<1>3. CASE "password" \in DOMAIN r.patch
  <2> DEFINE q == [r EXCEPT !.pc = "ph_insert"]
  <2>1. stored' = Append(stored, r.patch.password) /\ req' = [req EXCEPT ![w] = q]
    BY <1>3 DEF UserSave, Goto, TInv, TypedRequests
  <2>2. r.patch["password"] \in Passwords /\ r.pw = r.patch["password"]
    <3>1. r.patch \in Patches /\ TypedRequest(r)
      BY TypedRow
    <3> QED
      BY <1>3, <3>1, PatchTyped DEF TypedRequest
  <2>3. r.pw # NoPassword
    BY <2>2, AccountsAssumption
  <2>4. TypedRequest(q) /\ Mints(q) = Mints(r) /\ q.pc = "ph_insert" /\ q.pw = r.pw
    BY <2>2, TypedRow, TypedGoto DEF Pcs
  <2>5. stored' \in Seq(Passwords) /\ Len(stored') = Len(stored) + 1
    BY <2>1, <2>2, AppendTyped DEF TInv, TypedState
  <2> HIDE DEF q
  <2>6. Stores(r) = 1 /\ Inserts(r) = 0 /\ Stores(q) = 0 /\ Inserts(q) = 1
    BY <1>1, <2>3, <2>4 DEF Stores, Inserts, Num
  <2>7. TypedState'
    BY <1>1, <1>2, <2>5 DEF TInv, TypedState
  <2>8. Mints(r) \in 0..1 /\ Len(minted) \in Nat /\ Len(hist) \in Nat /\ Len(stored) \in Nat
    BY TypedRow DEF Mints, Num
  <2>9. /\ Len(minted') + Mints(q) <= Len(minted) + Mints(r)
        /\ Len(stored') + Stores(q) <= Len(stored) + Stores(r)
        /\ Len(hist') + Inserts(q) + Len(stored) <= Len(hist) + Inserts(r) + Len(stored')
    BY <1>1, <2>4, <2>5, <2>6, <2>8
  <2> QED
    BY <2>1, <2>4, <2>7, <2>9, TypeStep
<1>4. CASE "password" \notin DOMAIN r.patch
  <2>1. stored' = stored /\ Finish(w)
    BY <1>4 DEF UserSave
  <2>2. TypedState' /\ Len(hist') <= Len(hist)
    BY <1>1, <1>2, <2>1, TypedRow DEF TInv, TypedState
  <2> QED
    BY <1>1, <2>1, <2>2, TypedFinish
<1> QED
  BY <1>3, <1>4

\* A request that goes on to generate a token, to take one or to read the row.
LEMMA TypedOn ==
    ASSUME TInv, TypedState', NEW w \in Workers, NEW l \in {"tk_set", "tk_take", "us_find"},
           Goto(w, l), UNCHANGED <<minted, stored>>, Len(hist') <= Len(hist),
           l = "tk_set" \/ req[w].pc \in {"pw_check", "tk_take"}
    PROVE  TInv'
<1> DEFINE r == req[w]
           q == [r EXCEPT !.pc = l]
<1>1. req' = [req EXCEPT ![w] = q]
  BY DEF Goto, TInv, TypedRequests
<1>2. TypedRequest(q) /\ Mints(q) = Mints(r) /\ q.pc = l /\ q.pw = r.pw
  <2>1. l \in Pcs /\ l \notin {"su_create", "pw_check", "ph_insert", "si_hash"}
    BY DEF Pcs
  <2> QED
    BY <2>1, TypedRow, TypedGoto
<1> HIDE DEF q
<1>3. Inserts(q) = 0 /\ Inserts(r) \in 0..1 /\ Mints(r) \in 0..1
  BY <1>2 DEF Inserts, Mints, Num
<1>4. Stores(q) = 0 \/ Stores(q) = Stores(r)
  BY <1>2 DEF Stores, Num
<1>5. Stores(r) \in 0..1
  BY DEF Stores, Num
<1>6. Stores(q) <= Stores(r) /\ Inserts(q) <= Inserts(r) /\ Mints(q) <= Mints(r)
  BY <1>2, <1>3, <1>4, <1>5
<1> QED
  BY <1>1, <1>2, <1>6, TypedMove

LEMMA TypedHistory ==
    ASSUME TInv, NEW w \in Workers, HistoryInsert(w) \/ HistoryPrune(w)
    PROVE  TInv'
<1> DEFINE r == req[w]
<1>1. UNCHANGED <<exists, row, signedin, minted, now, stored, accepted, failures, lastFailure,
                  disturbed>>
  BY DEF HistoryInsert, HistoryPrune, account, onetime, ghosts
<1>2. CASE HistoryInsert(w)
  <2> DEFINE q == [r EXCEPT !.pc = "ph_prune"]
  <2>1. r.pc = "ph_insert" /\ hist' = Append(hist, r.pw) /\ req' = [req EXCEPT ![w] = q]
    BY <1>2 DEF HistoryInsert, At, Goto, TInv, TypedRequests
  <2>2. TypedRequest(q) /\ Mints(q) = Mints(r) /\ q.pc = "ph_prune"
    BY TypedRow, TypedGoto DEF Pcs
  <2>3. r.pw \in Passwords
    BY <2>1, TypedRow DEF TypedRequest
  <2>4. hist' \in Seq(Passwords) /\ Len(hist') = Len(hist) + 1
    BY <2>1, <2>3, AppendTyped DEF TInv, TypedState
  <2> HIDE DEF q
  <2>5. Stores(r) = 0 /\ Inserts(r) = 1 /\ Stores(q) = 0 /\ Inserts(q) = 0
    BY <2>1, <2>2 DEF Stores, Inserts, Num
  <2>6. TypedState'
    BY <1>1, <2>4 DEF TInv, TypedState
  <2>7. Mints(r) \in 0..1 /\ Len(minted) \in Nat /\ Len(hist) \in Nat /\ Len(stored) \in Nat
    BY TypedRow DEF Mints, Num
  <2>8. /\ Len(minted') + Mints(q) <= Len(minted) + Mints(r)
        /\ Len(stored') + Stores(q) <= Len(stored) + Stores(r)
        /\ Len(hist') + Inserts(q) + Len(stored) <= Len(hist) + Inserts(r) + Len(stored')
    BY <1>1, <2>2, <2>4, <2>5, <2>7
  <2> QED
    BY <2>1, <2>2, <2>6, <2>8, TypeStep
<1>3. CASE HistoryPrune(w)
  <2>1. r.pc = "ph_prune" /\ hist' = LastN(hist, HistoryLimit)
    BY <1>3 DEF HistoryPrune, At
  <2>2. hist' \in Seq(Passwords) /\ Len(hist') <= Len(hist)
    BY <2>1, LastTyped, AccountsAssumption DEF TInv, TypedState
  <2>3. TypedState'
    BY <1>1, <2>2 DEF TInv, TypedState
  <2>4. CASE r.mint # "none"
    BY <1>1, <1>3, <2>2, <2>3, <2>4, TypedOn DEF HistoryPrune
  <2>5. CASE r.mint = "none"
    BY <1>1, <1>3, <2>2, <2>3, <2>5, TypedFinish DEF HistoryPrune
  <2> QED
    BY <2>4, <2>5
<1> QED
  BY <1>2, <1>3

LEMMA TypedTokens ==
    ASSUME IInv, TInv, NEW w \in Workers, TokenSet(w) \/ TokenMail(w) \/ TokenTake(w)
    PROVE  TInv'
<1> DEFINE r == req[w]
<1>1. UNCHANGED <<exists, row, signedin, hist, now, stored, failures, lastFailure, disturbed>>
  BY DEF TokenSet, TokenMail, TokenTake, account, ghosts
<1>2. Len(hist) \in Nat /\ Len(stored) \in Nat /\ Len(minted) \in Nat /\ hist' = hist
  BY <1>1, TypedRow
<1>3. CASE TokenSet(w)
  <2> DEFINE q == [r EXCEPT !.pc = "tk_mail", !.mint = "none", !.token = Len(minted) + 1]
  <2>1. /\ r.pc = "tk_set" /\ minted' = Append(minted, r.mint) /\ accepted' = accepted
        /\ req' = [req EXCEPT ![w] = q]
    BY <1>3 DEF TokenSet, At, ghosts, TInv, TypedRequests
  <2>2. r.mint \in TokenTypes
    BY <2>1, Typing DEF GoodRequest
  <2>3. minted' \in Seq(TokenTypes) /\ Len(minted') = Len(minted) + 1
    BY <2>1, <2>2, AppendTyped DEF TInv, TypedState
  <2>4. Mints(r) = 1
    BY <2>2 DEF Mints, Num, TokenTypes
  <2>5. Len(minted) + 1 \in 0..MaxTokens
    BY <1>2, <2>4, RoomLeft, AccountsAssumption
  <2>6. /\ q \in Requests /\ q.pc = "tk_mail" /\ q.pw = r.pw /\ q.patch = r.patch
        /\ q.mint = "none"
    BY <2>5, TypedRow DEF Requests, Pcs
  <2> HIDE DEF q
  <2>7. TypedRequest(q)
    BY <2>6, TypedRow DEF TypedRequest
  <2>8. /\ Mints(q) = 0 /\ Stores(q) = 0 /\ Inserts(q) = 0 /\ Stores(r) = 0 /\ Inserts(r) = 0
    BY <2>1, <2>6 DEF Mints, Stores, Inserts, Num
  <2>9. TypedState'
    BY <1>1, <1>2, <2>1, <2>3 DEF TInv, TypedState
  <2>10. /\ Len(minted') + Mints(q) <= Len(minted) + Mints(r)
         /\ Len(stored') + Stores(q) <= Len(stored) + Stores(r)
         /\ Len(hist') + Inserts(q) + Len(stored) <= Len(hist) + Inserts(r) + Len(stored')
    BY <1>1, <1>2, <2>3, <2>4, <2>8
  <2> QED
    BY <2>1, <2>7, <2>9, <2>10, TypeStep
<1>4. CASE TokenMail(w)
  <2>1. UNCHANGED <<minted, accepted>> /\ Finish(w)
    BY <1>4 DEF TokenMail, ghosts
  <2> QED
    BY <1>1, <2>1, StateStays, TypedFinish DEF TInv, TypedState
<1>5. CASE TokenTake(w)
  <2>1. r.pc = "tk_take" /\ minted' = minted
    BY <1>5 DEF TokenTake, At
  <2>2. CASE record[r.take] # 0 /\ record[r.take] = r.token
    <3>1. Goto(w, "us_find") /\ accepted' = accepted \cup {<<r.token, r.take>>}
      BY <1>5, <2>2 DEF TokenTake
    <3>2. r.take \in TokenTypes
      BY <2>1, Typing DEF GoodRequest
    <3>3. r.token \in 0..Len(minted)
      BY <2>2, <3>2 DEF IInv, TokensOK
    <3>4. TypedState'
      BY <1>1, <2>1, <3>1, <3>2, <3>3 DEF TInv, TypedState
    <3> QED
      BY <1>1, <1>2, <2>1, <3>1, <3>4, TypedOn
  <2>3. CASE ~(record[r.take] # 0 /\ record[r.take] = r.token)
    <3>1. Finish(w) /\ accepted' = accepted
      BY <1>5, <2>3 DEF TokenTake
    <3> QED
      BY <1>1, <2>1, <3>1, StateStays, TypedFinish DEF TInv, TypedState
  <2> QED
    BY <2>2, <2>3
<1> QED
  BY <1>3, <1>4, <1>5

LEMMA TypedCreate ==
    ASSUME TInv, NEW w \in Workers, SignupCreate(w) \/ GoogleCreate(w)
    PROVE  TInv'
<1> DEFINE r == req[w]
<1>1. UNCHANGED <<minted, hist, now, accepted, failures, lastFailure, disturbed>>
  BY DEF SignupCreate, GoogleCreate, onetime, ghosts
<1>2. Len(hist) \in Nat /\ Len(stored) \in Nat /\ Len(minted) \in Nat
  BY TypedRow
<1>3. /\ NoRow.password = NoPassword /\ DOMAIN NoRow = Cols /\ NoRow \in Rows
  BY NoneTyped, NoRowShape DEF NoRow
<1>4. CASE SignupCreate(w)
  <2>1. CASE exists
    <3>1. Finish(w) /\ UNCHANGED <<exists, row, signedin, stored>>
      BY <1>4, <2>1 DEF SignupCreate, account
    <3> QED
      BY <1>1, <3>1, StateStays, TypedFinish DEF TInv, TypedState
  <2>2. CASE ~exists
    <3> DEFINE q == [r EXCEPT !.pc = "ph_insert"]
    <3>1. /\ r.pc = "su_create" /\ exists' = TRUE /\ UNCHANGED signedin
          /\ row' = [NoRow EXCEPT !.password = r.pw, !.active = TRUE]
          /\ stored' = Append(stored, r.pw) /\ req' = [req EXCEPT ![w] = q]
      BY <1>4, <2>2 DEF SignupCreate, At, Goto, TInv, TypedRequests
    <3>2. r.pw \in Passwords
      BY <3>1, TypedRow DEF TypedRequest
    <3>3. r.pw # NoPassword
      BY <3>2, AccountsAssumption
    <3>4. row' \in Rows
      BY <1>3, <3>1, <3>2 DEF Rows
    <3>5. stored' \in Seq(Passwords) /\ Len(stored') = Len(stored) + 1
      BY <3>1, <3>2, AppendTyped DEF TInv, TypedState
    <3>6. TypedRequest(q) /\ Mints(q) = Mints(r) /\ q.pc = "ph_insert" /\ q.pw = r.pw
      BY <3>2, TypedRow, TypedGoto DEF Pcs
    <3> HIDE DEF q
    <3>7. Stores(r) = 1 /\ Inserts(r) = 0 /\ Stores(q) = 0 /\ Inserts(q) = 1
      BY <3>1, <3>3, <3>6 DEF Stores, Inserts, Num
    <3>8. TypedState'
      BY <1>1, <3>1, <3>4, <3>5 DEF TInv, TypedState
    <3>9. Mints(r) \in 0..1
      BY DEF Mints, Num
    <3>10. /\ Len(minted') + Mints(q) <= Len(minted) + Mints(r)
           /\ Len(stored') + Stores(q) <= Len(stored) + Stores(r)
           /\ Len(hist') + Inserts(q) + Len(stored) <= Len(hist) + Inserts(r) + Len(stored')
      BY <1>1, <1>2, <3>5, <3>6, <3>7, <3>9
    <3> QED
      BY <3>1, <3>6, <3>8, <3>10, TypeStep
  <2> QED
    BY <2>1, <2>2
<1>5. CASE GoogleCreate(w)
  <2>1. Finish(w) /\ UNCHANGED stored
    BY <1>5 DEF GoogleCreate, ghosts
  <2>2. \/ UNCHANGED <<exists, row, signedin>>
        \/ /\ exists' = TRUE /\ signedin' = TRUE
           /\ row' = [NoRow EXCEPT !.verified = TRUE, !.active = TRUE, !.google = TRUE]
    BY <1>5 DEF GoogleCreate, account
  <2>3. [NoRow EXCEPT !.verified = TRUE, !.active = TRUE, !.google = TRUE] \in Rows
    BY <1>3 DEF Rows
  <2>4. TypedState'
    BY <1>1, <2>1, <2>2, <2>3 DEF TInv, TypedState
  <2> QED
    BY <1>1, <1>2, <2>1, <2>4, TypedFinish
<1> QED
  BY <1>4, <1>5

LEMMA TypedSignin ==
    ASSUME TInv, NEW w \in Workers,
           SigninRefuse(w) \/ SigninFail(w) \/ SigninUnverified(w) \/ SigninPass(w)
    PROVE  TInv'
<1> DEFINE r == req[w]
<1>1. UNCHANGED <<exists, row, signedin, minted, hist, now, stored, accepted, disturbed>>
  BY DEF SigninRefuse, SigninFail, SigninUnverified, SigninPass, account, onetime, ghosts
<1>2. Len(hist) \in Nat
  BY TypedRow
<1>3. r.pc = "si_hash"
  BY DEF SigninRefuse, SigninFail, SigninUnverified, SigninPass, At
<1>4. CASE SigninRefuse(w) \/ SigninUnverified(w)
  <2>1. Finish(w) /\ UNCHANGED <<failures, lastFailure>>
    BY <1>4 DEF SigninRefuse, SigninUnverified, ghosts
  <2> QED
    BY <1>1, <2>1, StateStays, TypedFinish DEF TInv, TypedState
<1>5. ASSUME NEW pt \in Patches, "password" \notin DOMAIN pt,
             req' = [req EXCEPT ![w] = [NoRequest EXCEPT !.pc = "us_find", !.patch = pt]],
             failures' \in 0..MaxFailures, lastFailure' \in 0..now
      PROVE  TInv'
  <2> DEFINE q == [NoRequest EXCEPT !.pc = "us_find", !.patch = pt]
  <2>1. q \in Requests /\ q.pc = "us_find" /\ q.pw = NoPassword /\ q.patch = pt /\ q.mint = "none"
    BY NoneTyped DEF Requests, Pcs, NoRequest
  <2>2. req' = [req EXCEPT ![w] = q]
    BY <1>5
  <2> HIDE DEF q
  <2>3. TypedRequest(q) /\ Stores(q) = 0 /\ Inserts(q) = 0 /\ Mints(q) = 0
    BY <1>5, <2>1, TypedStarts
  <2>4. 0 <= Mints(r) /\ 0 <= Stores(r) /\ 0 <= Inserts(r)
    BY DEF Mints, Stores, Inserts, Num
  <2>5. TypedState'
    BY <1>1, <1>5 DEF TInv, TypedState
  <2>6. Mints(q) <= Mints(r) /\ Stores(q) <= Stores(r) /\ Inserts(q) <= Inserts(r)
    BY <2>3, <2>4
  <2>7. Len(hist') <= Len(hist) /\ UNCHANGED <<minted, stored>>
    BY <1>1, <1>2
  <2> QED
    BY <2>2, <2>3, <2>5, <2>6, <2>7, TypedMove
<1>6. CASE SigninFail(w)
  <2>1. /\ req' = [req EXCEPT ![w] = [NoRequest EXCEPT !.pc = "us_find",
                                                       !.patch = FailedPatch(r.seen)]]
        /\ failures' = IF failures < MaxFailures THEN failures + 1 ELSE failures
        /\ lastFailure' = now /\ r.pw # r.seen.password
    BY <1>6 DEF SigninFail
  <2>2. r.seen.attempts < MaxFailures /\ r.seen \in Rows
    BY <1>3, <2>1, TypedRow DEF TypedRequest
  <2>3. now \in 0..MaxNow /\ MaxNow \in Nat /\ LockFor \in Nat /\ MaxFailures \in Nat
        /\ failures \in 0..MaxFailures
    BY AccountsAssumption DEF TInv, TypedState
  <2>4. /\ r.seen.attempts + 1 \in 0..MaxFailures /\ now + LockFor \in 0..(MaxNow + LockFor)
        /\ r.seen.until \in 0..(MaxNow + LockFor)
    BY <2>2, <2>3 DEF Rows
  <2>5. FailedPatch(r.seen) \in [attempts : 0..MaxFailures, until : 0..(MaxNow + LockFor)]
    BY <2>4 DEF FailedPatch
  <2>6. FailedPatch(r.seen) \in Patches /\ "password" \notin DOMAIN FailedPatch(r.seen)
    BY <2>5 DEF Patches
  <2>7. failures' \in 0..MaxFailures /\ lastFailure' \in 0..now
    BY <2>1, <2>3
  <2> QED
    BY <1>5, <2>1, <2>6, <2>7
<1>7. CASE SigninPass(w)
  <2>1. /\ req' = [req EXCEPT ![w] = [NoRequest EXCEPT !.pc = "us_find", !.patch = ClearedPatch]]
        /\ failures' = 0 /\ lastFailure' = lastFailure
    BY <1>7 DEF SigninPass
  <2>2. ClearedPatch \in Patches /\ "password" \notin DOMAIN ClearedPatch
    BY NoneTyped DEF ClearedPatch
  <2>3. failures' \in 0..MaxFailures /\ lastFailure' \in 0..now
    BY <2>1, AccountsAssumption DEF TInv, TypedState
  <2> QED
    BY <1>5, <2>1, <2>2, <2>3
<1> QED
  BY <1>4, <1>6, <1>7

LEMMA TypedContinue ==
    ASSUME IInv, TInv, NEW w \in Workers, Continue(w)
    PROVE  TInv'
<1> DEFINE r == req[w]
<1>1. CASE UserFind(w)
  <2> DEFINE q == [r EXCEPT !.pc = "us_save", !.seen = row]
  <2>1. /\ r.pc = "us_find" /\ req' = [req EXCEPT ![w] = q]
        /\ UNCHANGED <<exists, row, signedin, minted, hist, stored, accepted, now, failures,
                       lastFailure, disturbed>>
    BY <1>1 DEF UserFind, At, account, onetime, ghosts
  <2>2. /\ q \in Requests /\ q.pc = "us_save" /\ q.pw = r.pw /\ q.patch = r.patch
        /\ q.mint = r.mint
    BY TypedRow DEF Requests, Pcs
  <2> HIDE DEF q
  <2>3. TypedRequest(q)
    BY <2>2, TypedRow DEF TypedRequest
  <2>4. Mints(q) = Mints(r) /\ Stores(q) = Stores(r) /\ Inserts(q) = Inserts(r)
    BY <2>1, <2>2 DEF Mints, Stores, Inserts, Num
  <2>5. Mints(r) \in 0..1 /\ Stores(r) \in 0..1 /\ Inserts(r) \in 0..1
    BY DEF Mints, Stores, Inserts, Num
  <2>6. Mints(q) <= Mints(r) /\ Stores(q) <= Stores(r) /\ Inserts(q) <= Inserts(r)
    BY <2>4, <2>5
  <2> QED
    BY <2>1, <2>3, <2>6, StateStays, TypedMove DEF TInv, TypedState
<1>2. CASE PasswordCheck(w)
  <2>1. /\ r.pc = "pw_check"
        /\ UNCHANGED <<exists, row, signedin, minted, hist, stored, accepted, now, failures,
                       lastFailure, disturbed>>
    BY <1>2 DEF PasswordCheck, At, account, onetime, ghosts
  <2>2. Finish(w) \/ Goto(w, "us_find") \/ Goto(w, "tk_take")
    BY <1>2 DEF PasswordCheck
  <2>3. TypedState' /\ Len(hist') <= Len(hist)
    BY <2>1, StateStays DEF TInv, TypedState
  <2> QED
    BY <2>1, <2>2, <2>3, TypedFinish, TypedOn
<1> QED
  BY <1>1, <1>2, TypedSave, TypedHistory, TypedTokens, TypedCreate, TypedSignin DEF Continue

LEMMA TypedInit == Init => TInv
<1> SUFFICES ASSUME Init PROVE TInv
  OBVIOUS
<1>1. <<>> \in Seq(Passwords) /\ <<>> \in Seq(TokenTypes) /\ Len(<<>>) = 0
  BY EmptySeq
<1>2. TypedState
  <2>1. 0 \in 0..MaxNow /\ 0 \in 0..MaxFailures /\ 0 \in 0..0
    BY AccountsAssumption
  <2>2. /\ exists = FALSE /\ row = NoRow /\ signedin = FALSE /\ hist = <<>> /\ minted = <<>>
        /\ stored = <<>> /\ accepted = {} /\ now = 0 /\ failures = 0 /\ lastFailure = 0
        /\ disturbed = FALSE
    BY DEF Init
  <2> QED
    BY <1>1, <2>1, <2>2, NoneTyped DEF TypedState
<1>3. TypedRequests
  BY NoneTyped DEF Init, TypedRequests
<1>4. \A w \in Workers : req[w] = NoRequest
  BY DEF Init
<1>5. Minting = {} /\ Storing = {} /\ Inserting = {}
  BY <1>4, NoneTyped DEF Minting, Storing, Inserting
<1>6. IsFiniteSet({}) /\ Cardinality({}) = 0
  BY FS_EmptySet
<1>7. Len(minted) = 0 /\ Len(stored) = 0 /\ Len(hist) = 0
  BY <1>1 DEF Init
<1>8. Counts
  BY <1>5, <1>6, <1>7, AccountsAssumption DEF Counts
<1> QED
  BY <1>2, <1>3, <1>8 DEF TInv

LEMMA TypedNext == IInv /\ TInv /\ [Next]_vars => TInv'
<1> SUFFICES ASSUME IInv, TInv, [Next]_vars PROVE TInv'
  OBVIOUS
<1>1. ASSUME NEW w \in Workers, Abort(w) PROVE TInv'
  <2>1. /\ Finish(w) /\ disturbed' = TRUE
        /\ UNCHANGED <<exists, row, signedin, minted, hist, stored, accepted, now, failures,
                       lastFailure>>
    BY <1>1 DEF Abort, account, onetime
  <2> QED
    BY <2>1, StateStays, TypedFinish
<1>2. ASSUME UNCHANGED <<exists, row, signedin, minted, hist, stored, accepted, failures,
                         lastFailure, disturbed, req>>,
             now' = now \/ (now < MaxNow /\ now' = now + 1)
      PROVE  TInv'
  <2>1. now' \in 0..MaxNow /\ lastFailure \in 0..now'
    BY <1>2, AccountsAssumption DEF TInv, TypedState
  <2>2. TypedState'
    BY <1>2, <2>1 DEF TInv, TypedState
  <2>3. TypedRequests' /\ Counts'
    BY <1>2 DEF TInv, TypedRequests, Counts, Minting, Storing, Inserting
  <2> QED
    BY <2>2, <2>3 DEF TInv
<1>3. ASSUME NEW y \in TokenTypes, TokenExpires(y) PROVE TInv'
  <2>1. UNCHANGED <<exists, row, signedin, minted, hist, stored, accepted, failures,
                    lastFailure, disturbed, req, now>>
    BY <1>3 DEF TokenExpires, account, ghosts
  <2> QED
    BY <1>2, <2>1
<1>4. CASE Tick
  <2>1. /\ UNCHANGED <<exists, row, signedin, minted, hist, stored, accepted, failures,
                       lastFailure, disturbed, req>>
        /\ now < MaxNow /\ now' = now + 1
    BY <1>4 DEF Tick, account, onetime, ghosts
  <2> QED
    BY <1>2, <2>1
<1>5. CASE UNCHANGED vars
  BY <1>2, <1>5 DEF vars, account, onetime, ghosts
<1> QED
  BY <1>1, <1>3, <1>4, <1>5, TypedStart, TypedContinue DEF Next

LEMMA TypedInvariant == Spec => []TInv
BY TypedInit, TypedNext, AccountsInvariant, PTL DEF Spec

\* The row, its tokens and its history, and every request keep their types and
\* their bounds: in particular the failed attempts of the row.
THEOREM TypeOKHolds == Spec => []TypeOK
<1>1. IInv /\ TInv => TypeOK
  <2> SUFFICES ASSUME IInv, TInv PROVE TypeOK
    OBVIOUS
  <2>1. \A S : IsFiniteSet(S) => Cardinality(S) \in Nat
    BY FS_CardinalityType
  <2>2. /\ Len(minted) \in Nat /\ Len(stored) \in Nat /\ Len(hist) \in Nat
        /\ MaxTokens \in Nat /\ MaxStores \in Nat
    BY LenProperties, AccountsAssumption DEF TInv, TypedState
  <2>3. Len(minted) <= MaxTokens
    BY <2>1, <2>2 DEF TInv, Counts
  <2>4. Len(stored) <= MaxStores
    BY <2>1, <2>2 DEF TInv, Counts
  <2>5. Len(hist) <= Len(stored)
    BY <2>1, <2>2 DEF TInv, Counts
  <2>6. Len(hist) <= MaxStores
    BY <2>2, <2>4, <2>5
  <2> QED
    BY <2>3, <2>4, <2>6 DEF IInv, TokensOK, TInv, TypedState, TypedRequests, TypeOK
<1> QED
  BY <1>1, AccountsInvariant, TypedInvariant, PTL

=============================================================================
