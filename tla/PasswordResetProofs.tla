------------------------ MODULE PasswordResetProofs ------------------------
(* Theorems about PasswordReset, for any number of users, requests and links. *)
EXTENDS PasswordReset, FiniteSetTheorems, TLAPS

-----------------------------------------------------------------------------
(* Types *)

\* The request at a statement has the fields that statement uses.
LEMMA RequestFields ==
  ASSUME TypeOK, NEW w \in Workers, request[w] # Idle
  PROVE  /\ request[w].pc \in {"invalidate", "create"} => request[w] \in Asking
         /\ request[w].pc = "mail" => request[w] \in Mailing
         /\ request[w].pc \in {"load", "write", "mark", "clear"} => request[w] \in Resetting
         /\ request[w].pc \in {"invalidate", "create", "mail", "load", "write", "mark", "clear"}
         /\ request[w].uid \in Users
  BY DEF TypeOK, Request, Idle, Asking, Mailing, Resetting

\* Where a request goes on, it stays of its kind.
LEMMA GotoType ==
  ASSUME TypeOK, NEW w \in Workers, NEW pc, Goto(w, pc),
         \/ request[w] \in Asking /\ pc \in {"invalidate", "create"}
         \/ request[w] \in Resetting /\ pc \in {"load", "write", "mark", "clear"}
  PROVE  request' \in [Workers -> Request]
  BY DEF TypeOK, Request, Goto, Asking, Resetting

LEMMA FinishType ==
  ASSUME TypeOK, NEW w \in Workers, Finish(w)
  PROVE  request' \in [Workers -> Request]
  BY DEF TypeOK, Request, Finish

LEMMA TokenFields ==
  ASSUME NEW t \in Token
  PROVE  /\ t.id \in TokenIds /\ t.uid \in Users /\ t.used \in BOOLEAN
         /\ [t EXCEPT !.used = TRUE] \in Token
         /\ [t EXCEPT !.used = TRUE].id = t.id
         /\ [t EXCEPT !.used = TRUE].uid = t.uid
         /\ [t EXCEPT !.used = TRUE].used
         /\ [t EXCEPT !.expired = TRUE] \in Token
         /\ [t EXCEPT !.expired = TRUE].id = t.id
         /\ [t EXCEPT !.expired = TRUE].uid = t.uid
         /\ [t EXCEPT !.expired = TRUE].used = t.used
<1>1. [t EXCEPT !.used = TRUE] \in Token /\ [t EXCEPT !.expired = TRUE] \in Token
  BY Zenon DEF Token
<1>2. /\ [t EXCEPT !.used = TRUE].id = t.id
      /\ [t EXCEPT !.used = TRUE].uid = t.uid
      /\ [t EXCEPT !.used = TRUE].used
  BY Zenon DEF Token
<1>3. /\ [t EXCEPT !.expired = TRUE].id = t.id
      /\ [t EXCEPT !.expired = TRUE].uid = t.uid
      /\ [t EXCEPT !.expired = TRUE].used = t.used
  BY Zenon DEF Token
<1> QED
  BY <1>1, <1>2, <1>3, Zenon DEF Token

LEMMA TokensOfType ==
  ASSUME TypeOK, NEW u
  PROVE  TokensOf(u) \subseteq TokenIds
<1>1. \A t \in tokens : t.id \in TokenIds
  BY TokenFields DEF TypeOK
<1> QED
  BY <1>1, Zenon DEF TokensOf

\* Marking tokens used keeps them tokens, one for each id.
LEMMA UsedType ==
  ASSUME TypeOK, NEW ids
  PROVE  /\ Used(ids) \subseteq Token
         /\ \A s, t \in Used(ids) : s.id = t.id => s = t
<1> DEFINE m(t) == IF t.id \in ids THEN [t EXCEPT !.used = TRUE] ELSE t
<1>1. \A t \in tokens : m(t) \in Token /\ m(t).id = t.id
  BY TokenFields DEF TypeOK
<1>2. Used(ids) = {m(t) : t \in tokens}
  BY DEF Used
<1>3. \A s, t \in tokens : s.id = t.id => s = t
  BY DEF TypeOK
<1> HIDE DEF m
<1> QED
  BY <1>1, <1>2, <1>3

LEMMA InvalidateType ==
  ASSUME TypeOK, NEW u, InvalidatePasswordResetTokens(u)
  PROVE  /\ tokens' \subseteq Token
         /\ \A s, t \in tokens' : s.id = t.id => s = t
         /\ retired' \subseteq TokenIds
         /\ excused' \subseteq Excuses
  BY UsedType, TokensOfType DEF TypeOK, Excuses, InvalidatePasswordResetTokens

LEMMA BeginType ==
  ASSUME TypeOK, NEW w \in Workers, NEW r \in Asking \cup Resetting, NEW pcs,
         NEW overlap \in {"two requests", "two resets"}, Begin(w, r, pcs, overlap)
  PROVE  /\ request' \in [Workers -> Request]
         /\ excused' \subseteq Excuses
  BY DEF TypeOK, Request, Excuses, Begin

LEMMA TypeKept ==
  ASSUME TypeOK, UNCHANGED created,
         accounts' \in [Users -> {"active", "inactive", "deleted"}],
         tokens' \subseteq Token, \A s, t \in tokens' : s.id = t.id => s = t,
         request' \in [Workers -> Request],
         mailed' \cup spent' \cup retired' \subseteq TokenIds, again' \subseteq spent',
         excused' \subseteq Excuses
  PROVE  TypeOK'
<1>1. TokenIds' = TokenIds
  BY DEF TokenIds
<1>2. Token' = Token /\ Mailing' = Mailing /\ Resetting' = Resetting /\ Asking' = Asking
  BY <1>1 DEF Token, Mailing, Resetting, Asking
<1>3. Request' = Request
  BY <1>2 DEF Request
<1> QED
  BY <1>1, <1>2, <1>3 DEF TypeOK

LEMMA TypeInit == Init => TypeOK
  BY PasswordResetAssumption DEF PasswordResetAssumption, Init, TypeOK, Request, Idle

LEMMA CreateType ==
  ASSUME TypeOK, NEW w \in Workers, CreatePasswordResetToken(w)
  PROVE  TypeOK'
<1> DEFINE u == request[w].uid
<1>1. request[w] \in Asking
  BY RequestFields DEF CreatePasswordResetToken, Idle
<1>2. CASE accounts[u] = "deleted"
  <2>1. Finish(w) /\ UNCHANGED <<accounts, tokens, mailed, created, spent, again, retired, excused>>
    BY <1>2 DEF CreatePasswordResetToken
  <2>2. request' \in [Workers -> Request]
    BY <2>1, FinishType
  <2> QED
    BY <2>1, <2>2, TypeKept DEF TypeOK
<1>3. CASE accounts[u] # "deleted"
  <2> DEFINE new == [id |-> created + 1, uid |-> u, used |-> FALSE, expired |-> FALSE]
             mail == [pc |-> "mail", uid |-> u, token |-> created + 1]
  <2>1. /\ tokens' = tokens \cup {new} /\ created' = created + 1
        /\ request' = [request EXCEPT ![w] = mail] /\ created < MaxTokens
        /\ UNCHANGED <<accounts, mailed, spent, again, retired, excused>>
    BY <1>3 DEF CreatePasswordResetToken
  <2>2. created \in Nat /\ created' \in 0..MaxTokens /\ MaxTokens \in Nat
    BY <2>1, PasswordResetAssumption DEF TypeOK, PasswordResetAssumption
  <2>3. TokenIds \subseteq TokenIds' /\ created + 1 \in TokenIds' /\ created + 1 \notin TokenIds
    BY <2>1, <2>2 DEF TokenIds
  <2>4. Token \subseteq Token' /\ Mailing \subseteq Mailing' /\ Resetting \subseteq Resetting'
        /\ Asking' = Asking
    BY <2>3 DEF Token, Mailing, Resetting, Asking
  <2>5. new \in Token'
    BY <1>1, <2>3 DEF Token, Asking
  <2>6. mail \in Mailing'
    BY <1>1, <2>3 DEF Mailing, Asking
  <2>7. \A t \in tokens : t.id # new.id
    <3>1. \A t \in tokens : t.id \in TokenIds
      BY TokenFields DEF TypeOK
    <3> QED
      BY <2>3, <3>1
  <2>8. \A s, t \in tokens' : s.id = t.id => s = t
    BY <2>1, <2>7 DEF TypeOK
  <2>9. request' \in [Workers -> Request']
    BY <2>1, <2>4, <2>6 DEF TypeOK, Request, Idle
  <2>10. tokens' \subseteq Token'
    BY <2>1, <2>4, <2>5 DEF TypeOK
  <2> QED
    BY <2>1, <2>2, <2>3, <2>8, <2>9, <2>10 DEF TypeOK, Idle
<1> QED
  BY <1>2, <1>3

LEMMA TypeStep == TypeOK /\ [Next]_vars => TypeOK'
<1> SUFFICES ASSUME TypeOK, [Next]_vars PROVE TypeOK'
  OBVIOUS
<1>0. /\ accounts \in [Users -> {"active", "inactive", "deleted"}]
      /\ tokens \subseteq Token /\ \A s, t \in tokens : s.id = t.id => s = t
      /\ request \in [Workers -> Request]
      /\ mailed \cup spent \cup retired \subseteq TokenIds /\ again \subseteq spent
      /\ excused \subseteq Excuses
  BY DEF TypeOK
<1>1. ASSUME NEW w \in Workers, NEW u \in Users, ForgotPasswordPost(w, u) PROVE TypeOK'
  <2>1. [pc |-> "invalidate", uid |-> u] \in Asking
    BY DEF Asking
  <2>2. request' \in [Workers -> Request] /\ excused' \subseteq Excuses
    BY <1>1, <2>1, BeginType DEF ForgotPasswordPost
  <2> QED
    BY <1>0, <1>1, <2>2, TypeKept DEF ForgotPasswordPost
<1>2. ASSUME NEW w \in Workers, InvalidateOlder(w) PROVE TypeOK'
  <2>1. request[w] \in Asking
    BY <1>2, RequestFields DEF InvalidateOlder, Idle
  <2>2. request' \in [Workers -> Request]
    BY <1>2, <2>1, GotoType DEF InvalidateOlder
  <2> QED
    BY <1>0, <1>2, <2>2, InvalidateType, TypeKept DEF InvalidateOlder
<1>3. ASSUME NEW w \in Workers, CreatePasswordResetToken(w) PROVE TypeOK'
  BY <1>3, CreateType
<1>4. ASSUME NEW w \in Workers, SendMail(w) PROVE TypeOK'
  <2>1. request[w] \in Mailing
    BY <1>4, RequestFields DEF SendMail, Idle
  <2>2. request[w].token \in TokenIds
    BY <2>1 DEF Mailing
  <2>3. request' \in [Workers -> Request]
    BY <1>4, FinishType DEF SendMail
  <2> QED
    BY <1>0, <1>4, <2>2, <2>3, TypeKept DEF SendMail
<1>5. ASSUME NEW w \in Workers, NEW t \in tokens, ResetPasswordPost(w, t) PROVE TypeOK'
  <2>1. [pc |-> "load", uid |-> t.uid, token |-> t.id] \in Resetting
    BY <1>0, TokenFields DEF Resetting
  <2>2. request' \in [Workers -> Request] /\ excused' \subseteq Excuses
    BY <1>5, <2>1, BeginType DEF ResetPasswordPost
  <2> QED
    BY <1>0, <1>5, <2>2, TypeKept DEF ResetPasswordPost
<1>6. ASSUME NEW w \in Workers, GetUserByID(w) PROVE TypeOK'
  <2>1. request[w] \in Resetting
    BY <1>6, RequestFields DEF GetUserByID, Idle
  <2>2. request' \in [Workers -> Request]
    BY <1>6, <2>1, FinishType, GotoType DEF GetUserByID
  <2> QED
    BY <1>0, <1>6, <2>2, TypeKept DEF GetUserByID
<1>7. ASSUME NEW w \in Workers, UpdateUserPassword(w) PROVE TypeOK'
  <2>1. request[w] \in Resetting
    BY <1>7, RequestFields DEF UpdateUserPassword, Idle
  <2>2. request[w].token \in TokenIds
    BY <2>1 DEF Resetting
  <2>3. request' \in [Workers -> Request]
    BY <1>7, <2>1, GotoType DEF UpdateUserPassword
  <2> QED
    BY <1>0, <1>7, <2>2, <2>3, TypeKept DEF UpdateUserPassword
<1>8. ASSUME NEW w \in Workers, MarkPasswordResetTokenUsed(w) PROVE TypeOK'
  <2>1. request[w] \in Resetting
    BY <1>8, RequestFields DEF MarkPasswordResetTokenUsed, Idle
  <2>2. request' \in [Workers -> Request]
    BY <1>8, <2>1, GotoType DEF MarkPasswordResetTokenUsed
  <2>3. excused' \subseteq Excuses
    BY <1>0, <1>8 DEF MarkPasswordResetTokenUsed, Excuses
  <2>4. tokens' \subseteq Token /\ \A s, t \in tokens' : s.id = t.id => s = t
    BY <1>0, <1>8, UsedType DEF MarkPasswordResetTokenUsed
  <2> QED
    BY <1>0, <1>8, <2>2, <2>3, <2>4, TypeKept DEF MarkPasswordResetTokenUsed
<1>9. ASSUME NEW w \in Workers, InvalidateOthers(w) PROVE TypeOK'
  <2>1. request' \in [Workers -> Request]
    BY <1>9, FinishType DEF InvalidateOthers
  <2> QED
    BY <1>0, <1>9, <2>1, InvalidateType, TypeKept DEF InvalidateOthers
<1>10. ASSUME NEW w \in Workers, CutOff(w) PROVE TypeOK'
  <2>1. request' \in [Workers -> Request] /\ excused' \subseteq Excuses
    BY <1>0, <1>10, FinishType DEF CutOff, Excuses
  <2> QED
    BY <1>0, <1>10, <2>1, TypeKept DEF CutOff
<1>11. ASSUME NEW u \in Users, UpdateUserActive(u) \/ DeleteUser(u) PROVE TypeOK'
  <2>1. accounts' \in [Users -> {"active", "inactive", "deleted"}]
    BY <1>0, <1>11 DEF UpdateUserActive, DeleteUser
  <2> QED
    BY <1>0, <1>11, <2>1, TypeKept DEF UpdateUserActive, DeleteUser
<1>12. ASSUME NEW t \in tokens, Expire(t) PROVE TypeOK'
  <2>1. [t EXCEPT !.expired = TRUE] \in Token /\ [t EXCEPT !.expired = TRUE].id = t.id
    BY <1>0, TokenFields
  <2>2. tokens' \subseteq Token /\ \A r, s \in tokens' : r.id = s.id => r = s
    BY <1>0, <1>12, <2>1 DEF Expire
  <2> QED
    BY <1>0, <1>12, <2>2, TypeKept DEF Expire
<1>13. CASE UNCHANGED vars
  BY <1>0, <1>13, TypeKept DEF vars
<1> QED
  BY <1>1, <1>2, <1>3, <1>4, <1>5, <1>6, <1>7, <1>8, <1>9, <1>10, <1>11, <1>12, <1>13
  DEF Next, Ask, Reset

\* Every state has the shape the code gives it, one token for each id and none
\* that was not inserted, whatever the number of users, requests and links.
THEOREM TypeCorrect == Spec => []TypeOK
  BY TypeInit, TypeStep, PTL DEF Spec

-----------------------------------------------------------------------------
(* What one step may do to the tokens and to the requests for a link *)

\* No token is made and none becomes unused.
OnlyUsed == \A t \in tokens' : \E s \in tokens : s.id = t.id /\ s.uid = t.uid /\ (s.used => t.used)

\* No request for a link begins, and none comes to its insertion.
NoneAsks ==
  \A w \in Workers : request'[w].pc \in {"invalidate", "create"} => request'[w] = request[w]

\* Two of the tokens after such a step that are unused come from two unused ones.
LEMMA OnlyUsedKeeps ==
  ASSUME TypeOK, TypeOK', OnlyUsed, RetiredAreUsed, retired' = retired
  PROVE  /\ RetiredAreUsed'
         /\ OneUnused => OneUnused'
<1>1. RetiredAreUsed'
  BY DEF OnlyUsed, RetiredAreUsed
<1>2. ASSUME OneUnused, NEW s \in tokens', NEW t \in tokens', s.uid = t.uid, ~s.used, ~t.used
      PROVE  s = t
  <2>1. PICK a \in tokens : a.id = s.id /\ a.uid = s.uid /\ (a.used => s.used)
    BY DEF OnlyUsed
  <2>2. PICK b \in tokens : b.id = t.id /\ b.uid = t.uid /\ (b.used => t.used)
    BY DEF OnlyUsed
  <2>3. a = b
    BY <1>2, <2>1, <2>2 DEF OneUnused
  <2> QED
    BY <2>1, <2>2, <2>3 DEF TypeOK
<1> QED
  BY <1>1, <1>2 DEF OneUnused

\* A step that does neither, and that nothing new is excused in, keeps all of it.
LEMMA QuietStep ==
  ASSUME TypeOK, TypeOK', LinkInv, OnlyUsed, NoneAsks, retired' = retired,
         Quiet' => Quiet
  PROVE  LinkInv'
<1>1. RetiredAreUsed' /\ (OneUnused => OneUnused')
  BY OnlyUsedKeeps DEF LinkInv
<1>2. OneAsks => OneAsks'
  BY DEF OneAsks, Asks, NoneAsks
<1>3. UsedBeforeInsert => UsedBeforeInsert'
  BY DEF UsedBeforeInsert, NoneAsks, OnlyUsed
<1> QED
  BY <1>1, <1>2, <1>3 DEF LinkInv

\* What a mark leaves of the tokens.
LEMMA MarkedTokens ==
  ASSUME TypeOK, NEW ids, NEW t \in Used(ids)
  PROVE  /\ \E s \in tokens : s.id = t.id /\ s.uid = t.uid /\ (s.used => t.used)
         /\ t.id \in ids => t.used
<1>1. PICK s \in tokens : t = IF s.id \in ids THEN [s EXCEPT !.used = TRUE] ELSE s
  BY DEF Used
<1>2. s \in Token
  BY DEF TypeOK
<1>3. CASE s.id \in ids
  <2>1. t = [s EXCEPT !.used = TRUE]
    BY <1>1, <1>3
  <2>2. t.id = s.id /\ t.uid = s.uid /\ t.used
    BY <1>2, <2>1, TokenFields
  <2> QED
    BY <2>2
<1>4. CASE s.id \notin ids
  BY <1>1, <1>4
<1> QED
  BY <1>3, <1>4

\* An invalidation that works leaves no unused token of its user.
LEMMA Invalidated ==
  ASSUME TypeOK, NEW u, tokens' = Used(TokensOf(u))
  PROVE  /\ OnlyUsed
         /\ \A t \in tokens' : t.id \in TokensOf(u) \/ t.uid = u => t.used
<1>1. OnlyUsed
  BY MarkedTokens DEF OnlyUsed
<1>2. ASSUME NEW t \in tokens', t.id \in TokensOf(u) \/ t.uid = u PROVE t.used
  <2>1. PICK s \in tokens : s.id = t.id /\ s.uid = t.uid
    BY MarkedTokens
  <2>2. t.id \in TokensOf(u)
    BY <1>2, <2>1 DEF TokensOf
  <2> QED
    BY <2>2, MarkedTokens
<1> QED
  BY <1>1, <1>2

LEMMA LinkInit == Init => LinkInv
  BY DEF Init, LinkInv, RetiredAreUsed, OneAsks, Asks, UsedBeforeInsert, OneUnused, Idle

LEMMA LinkStep == TypeOK /\ TypeOK' /\ LinkInv /\ [Next]_vars => LinkInv'
<1> SUFFICES ASSUME TypeOK, TypeOK', LinkInv, [Next]_vars PROVE LinkInv'
  OBVIOUS
<1>0. request \in [Workers -> Request]
  BY DEF TypeOK
<1>1. ASSUME NEW w \in Workers, NEW u \in Users, ForgotPasswordPost(w, u) PROVE LinkInv'
  <2>1. RetiredAreUsed' /\ (OneUnused => OneUnused')
    BY <1>1, OnlyUsedKeeps DEF ForgotPasswordPost, OnlyUsed, LinkInv
  <2>2. request' = [request EXCEPT ![w] = [pc |-> "invalidate", uid |-> u]]
    BY <1>1 DEF ForgotPasswordPost, Begin
  <2>3. ASSUME Quiet' PROVE Quiet /\ \A v \in Workers : ~Asks(v, u)
    BY <1>1, <2>3 DEF ForgotPasswordPost, Begin, Quiet, Asks
  <2>4. ASSUME Quiet' PROVE OneAsks'
    BY <1>0, <2>2, <2>3, <2>4 DEF OneAsks, Asks, LinkInv
  <2>5. ASSUME Quiet' PROVE UsedBeforeInsert'
    BY <1>0, <1>1, <2>2, <2>3, <2>5 DEF UsedBeforeInsert, ForgotPasswordPost, LinkInv
  <2> QED
    BY <2>1, <2>3, <2>4, <2>5 DEF LinkInv
<1>2. ASSUME NEW w \in Workers, InvalidateOlder(w) PROVE LinkInv'
  <2> PICK u : u = request[w].uid
    OBVIOUS
  <2>1. request' = [request EXCEPT ![w].pc = "create"] /\ InvalidatePasswordResetTokens(u)
    BY <1>2 DEF InvalidateOlder, Goto
  <2>2. CASE tokens' = Used(TokensOf(u)) /\ retired' = retired \cup TokensOf(u)
             /\ UNCHANGED excused
    <3>1. OnlyUsed /\ \A t \in tokens' : t.id \in TokensOf(u) \/ t.uid = u => t.used
      BY <2>2, Invalidated
    <3>2. RetiredAreUsed'
      BY <2>2, <3>1 DEF RetiredAreUsed, OnlyUsed, LinkInv
    <3>3. OneAsks => OneAsks'
      BY <1>0, <1>2, <2>1 DEF OneAsks, Asks, InvalidateOlder
    <3>4. UsedBeforeInsert => UsedBeforeInsert'
      BY <1>0, <2>1, <3>1 DEF UsedBeforeInsert, OnlyUsed
    <3>5. OneUnused => OneUnused'
      BY <3>1 DEF OneUnused, OnlyUsed, TypeOK
    <3> QED
      BY <2>2, <3>2, <3>3, <3>4, <3>5 DEF LinkInv, Quiet
  <2>3. CASE UNCHANGED <<tokens, retired>> /\ excused' = excused \cup {"database"}
    BY <2>3 DEF LinkInv, RetiredAreUsed, Quiet
  <2> QED
    BY <2>1, <2>2, <2>3 DEF InvalidatePasswordResetTokens
<1>3. ASSUME NEW w \in Workers, CreatePasswordResetToken(w) PROVE LinkInv'
  <2> PICK u : u = request[w].uid
    OBVIOUS
  <2>1. CASE accounts[u] = "deleted"
    <3>1. Finish(w) /\ UNCHANGED <<tokens, retired, excused>>
      BY <1>3, <2>1 DEF CreatePasswordResetToken
    <3> QED
      BY <1>0, <3>1, QuietStep DEF Finish, Idle, OnlyUsed, NoneAsks, Quiet
  <2>2. CASE accounts[u] # "deleted"
    <3> PICK new : new = [id |-> created + 1, uid |-> u, used |-> FALSE, expired |-> FALSE]
      OBVIOUS
    <3>1. /\ tokens' = tokens \cup {new} /\ new.id = created + 1 /\ new.uid = u
          /\ request' = [request EXCEPT ![w] = [pc |-> "mail", uid |-> u, token |-> created + 1]]
          /\ UNCHANGED <<retired, excused>> /\ request[w].pc = "create"
      BY <1>3, <2>2 DEF CreatePasswordResetToken
    <3>2. new.id \notin retired
      BY <3>1 DEF TypeOK, TokenIds
    <3>3. RetiredAreUsed'
      BY <3>1, <3>2 DEF RetiredAreUsed, LinkInv
    <3>4. OneAsks => OneAsks'
      BY <1>0, <3>1 DEF OneAsks, Asks
    <3>5. OneAsks /\ UsedBeforeInsert => UsedBeforeInsert'
      <4> SUFFICES ASSUME OneAsks, UsedBeforeInsert, NEW v \in Workers, NEW t \in tokens',
                          request'[v].pc = "create", t.uid = request'[v].uid
                   PROVE  t.used
        BY DEF UsedBeforeInsert
      <4>1. v # w /\ request'[v] = request[v]
        BY <1>0, <3>1
      <4>2. t # new
        <5>1. request[v] # Idle
          BY <4>1 DEF Idle
        <5>2. request[v].uid \in Users
          BY <5>1, RequestFields
        <5> QED
          BY <3>1, <4>1, <5>2 DEF OneAsks, Asks
      <4> QED
        BY <3>1, <4>1, <4>2 DEF UsedBeforeInsert
    <3>6. UsedBeforeInsert /\ OneUnused => OneUnused'
      <4> SUFFICES ASSUME UsedBeforeInsert, OneUnused, NEW s \in tokens', NEW t \in tokens',
                          s.uid = t.uid, ~s.used, ~t.used
                   PROVE  s = t
        BY DEF OneUnused
      <4>1. \A r \in tokens : r.uid = u => r.used
        BY <3>1 DEF UsedBeforeInsert
      <4>2. CASE s = new \/ t = new
        BY <3>1, <4>1, <4>2
      <4>3. CASE s # new /\ t # new
        BY <3>1, <4>3 DEF OneUnused
      <4> QED
        BY <4>2, <4>3
    <3> QED
      BY <3>1, <3>3, <3>4, <3>5, <3>6 DEF LinkInv, Quiet
  <2> QED
    BY <2>1, <2>2
<1>4. ASSUME NEW w \in Workers, SendMail(w) PROVE LinkInv'
  BY <1>0, <1>4, QuietStep DEF SendMail, Finish, Idle, OnlyUsed, NoneAsks, Quiet
<1>5. ASSUME NEW w \in Workers, NEW t \in tokens, ResetPasswordPost(w, t) PROVE LinkInv'
  <2>1. /\ request' = [request EXCEPT ![w] = [pc |-> "load", uid |-> t.uid, token |-> t.id]]
        /\ excused \subseteq excused' /\ UNCHANGED <<tokens, retired>>
    BY <1>5 DEF ResetPasswordPost, Begin
  <2>2. NoneAsks
    BY <1>0, <2>1 DEF NoneAsks
  <2>3. OnlyUsed /\ (Quiet' => Quiet)
    BY <2>1 DEF OnlyUsed, Quiet
  <2> QED
    BY <2>1, <2>2, <2>3, QuietStep
<1>6. ASSUME NEW w \in Workers, GetUserByID(w) PROVE LinkInv'
  <2>1. \/ request' = [request EXCEPT ![w].pc = "write"]
        \/ request' = [request EXCEPT ![w] = Idle]
    BY <1>6 DEF GetUserByID, Goto, Finish
  <2>2. request[w] \in Resetting
    BY <1>6, RequestFields DEF GetUserByID, Idle
  <2>3. NoneAsks
    BY <1>0, <2>1, <2>2 DEF NoneAsks, Idle, Resetting
  <2>4. UNCHANGED <<tokens, retired, excused>>
    BY <1>6 DEF GetUserByID
  <2> QED
    BY <2>3, <2>4, QuietStep DEF OnlyUsed, Quiet
<1>7. ASSUME NEW w \in Workers, UpdateUserPassword(w) PROVE LinkInv'
  <2>1. request' = [request EXCEPT ![w].pc = "mark"]
    BY <1>7 DEF UpdateUserPassword, Goto
  <2>2. request[w] \in Resetting
    BY <1>7, RequestFields DEF UpdateUserPassword, Idle
  <2>3. NoneAsks
    BY <1>0, <2>1, <2>2 DEF NoneAsks, Resetting
  <2>4. UNCHANGED <<tokens, retired, excused>>
    BY <1>7 DEF UpdateUserPassword
  <2> QED
    BY <2>3, <2>4, QuietStep DEF OnlyUsed, Quiet
<1>8. ASSUME NEW w \in Workers, MarkPasswordResetTokenUsed(w) PROVE LinkInv'
  <2>1. OnlyUsed
    BY <1>8, MarkedTokens DEF MarkPasswordResetTokenUsed, OnlyUsed
  <2>2. NoneAsks
    BY <1>0, <1>8, RequestFields DEF MarkPasswordResetTokenUsed, Goto, Idle, NoneAsks, Resetting
  <2> QED
    BY <1>8, <2>1, <2>2, QuietStep DEF MarkPasswordResetTokenUsed, Quiet
<1>9. ASSUME NEW w \in Workers, InvalidateOthers(w) PROVE LinkInv'
  <2> PICK u : u = request[w].uid
    OBVIOUS
  <2>1. InvalidatePasswordResetTokens(u)
    BY <1>9 DEF InvalidateOthers
  <2>2. NoneAsks
    BY <1>0, <1>9 DEF InvalidateOthers, Finish, Idle, NoneAsks
  <2>3. OnlyUsed
    BY <2>1, Invalidated DEF InvalidatePasswordResetTokens, OnlyUsed
  <2>4. Quiet' => Quiet
    BY <2>1 DEF InvalidatePasswordResetTokens, Quiet
  <2>5. RetiredAreUsed'
    BY <2>1, <2>3, Invalidated
    DEF InvalidatePasswordResetTokens, RetiredAreUsed, OnlyUsed, LinkInv
  <2>6. OneUnused => OneUnused'
    BY <2>3 DEF OneUnused, OnlyUsed, TypeOK
  <2>7. OneAsks => OneAsks'
    BY <2>2 DEF OneAsks, Asks, NoneAsks
  <2>8. UsedBeforeInsert => UsedBeforeInsert'
    BY <2>2, <2>3 DEF UsedBeforeInsert, NoneAsks, OnlyUsed
  <2> QED
    BY <2>4, <2>5, <2>6, <2>7, <2>8 DEF LinkInv
<1>10. ASSUME NEW w \in Workers, CutOff(w) PROVE LinkInv'
  BY <1>0, <1>10, QuietStep DEF CutOff, Finish, Idle, OnlyUsed, NoneAsks, Quiet
<1>11. ASSUME NEW u \in Users, UpdateUserActive(u) \/ DeleteUser(u) PROVE LinkInv'
  BY <1>11, QuietStep DEF UpdateUserActive, DeleteUser, OnlyUsed, NoneAsks, Quiet
<1>12. ASSUME NEW t \in tokens, Expire(t) PROVE LinkInv'
  <2>1. /\ [t EXCEPT !.expired = TRUE].id = t.id
        /\ [t EXCEPT !.expired = TRUE].uid = t.uid
        /\ [t EXCEPT !.expired = TRUE].used = t.used
    BY TokenFields DEF TypeOK
  <2> QED
    BY <1>12, <2>1, QuietStep DEF Expire, OnlyUsed, NoneAsks, Quiet
<1>13. CASE UNCHANGED vars
  BY <1>13, QuietStep DEF vars, OnlyUsed, NoneAsks, Quiet
<1> QED
  BY <1>1, <1>2, <1>3, <1>4, <1>5, <1>6, <1>7, <1>8, <1>9, <1>10, <1>11, <1>12, <1>13
  DEF Next, Ask, Reset

-----------------------------------------------------------------------------
(* One reset for a link *)

\* No reset begins, none changes hands, and none goes back to where it sets a
\* password.
NoneResets ==
  \A w \in Workers : Resets(w)' =>
    /\ Resets(w)
    /\ request'[w].token = request[w].token /\ request'[w].uid = request[w].uid
    /\ request'[w].pc \in {"load", "write"} => request[w].pc \in {"load", "write"}

\* A reset that was to mark a token still is, or the token is used.
MarksStay ==
  \A w \in Workers, t \in tokens' :
    request[w].pc = "mark" /\ request[w].token = t.id => t.used \/ request'[w] = request[w]

LEMMA QuietReset ==
  ASSUME TypeOK, SpendInv, OnlyUsed, NoneResets, spent' = spent, again' = again,
         NothingExcused' => NothingExcused /\ MarksStay
  PROVE  SpendInv'
<1>1. OwnToken'
  <2> SUFFICES ASSUME NEW w \in Workers, Resets(w)'
               PROVE  /\ \A t \in tokens' : t.id = request'[w].token => t.uid = request'[w].uid
                      /\ \A v \in Workers :
                           Resets(v)' /\ request'[v].token = request'[w].token
                             => request'[v].uid = request'[w].uid
    BY DEF OwnToken
  <2>1. Resets(w) /\ request'[w].token = request[w].token /\ request'[w].uid = request[w].uid
    BY DEF NoneResets
  <2>2. ASSUME NEW t \in tokens', t.id = request[w].token PROVE t.uid = request[w].uid
    <3>1. PICK s \in tokens : s.id = t.id /\ s.uid = t.uid
      BY DEF OnlyUsed
    <3> QED
      BY <2>1, <2>2, <3>1 DEF OwnToken, SpendInv
  <2>3. ASSUME NEW v \in Workers, Resets(v)', request'[v].token = request[w].token
        PROVE  request'[v].uid = request[w].uid
    BY <2>1, <2>3 DEF OwnToken, SpendInv, NoneResets
  <2> QED
    BY <2>1, <2>2, <2>3
<1> SUFFICES ASSUME NothingExcused'
             PROVE  again' = {} /\ OneResets' /\ SpentIsMarked' /\ UnspentInHand'
  BY <1>1 DEF SpendInv
<1>2. NothingExcused /\ MarksStay /\ again = {} /\ OneResets /\ SpentIsMarked /\ UnspentInHand
  BY DEF SpendInv
<1>3. OneResets'
  BY <1>2 DEF OneResets, NoneResets
<1>4. SpentIsMarked'
  <2> SUFFICES ASSUME NEW t \in tokens', t.id \in spent, ~t.used
               PROVE  \E w \in Workers : request'[w].pc = "mark" /\ request'[w].token = t.id
    BY DEF SpentIsMarked
  <2>1. PICK s \in tokens : s.id = t.id /\ (s.used => t.used)
    BY DEF OnlyUsed
  <2>2. PICK w \in Workers : request[w].pc = "mark" /\ request[w].token = t.id
    BY <1>2, <2>1 DEF SpentIsMarked
  <2> QED
    BY <1>2, <2>2 DEF MarksStay
<1>5. UnspentInHand'
  BY <1>2 DEF UnspentInHand, NoneResets, Resets
<1> QED
  BY <1>2, <1>3, <1>4, <1>5

LEMMA SpendInit == Init => SpendInv
  BY DEF Init, SpendInv, OwnToken, OneResets, SpentIsMarked, UnspentInHand, Resets, Idle

\* The INSERT: its token is in nobody's hand, and has set no password.
LEMMA CreateSpends ==
  ASSUME TypeOK, SpendInv, NEW w \in Workers, CreatePasswordResetToken(w)
  PROVE  SpendInv'
<1> DEFINE u == request[w].uid
<1>1. CASE accounts[u] = "deleted"
  <2>1. /\ request' = [request EXCEPT ![w] = Idle] /\ request[w].pc = "create"
        /\ UNCHANGED <<tokens, spent, again, excused>>
    BY <1>1 DEF CreatePasswordResetToken, Finish
  <2>2. NoneResets /\ MarksStay
    BY <2>1 DEF TypeOK, NoneResets, MarksStay, Resets, Idle
  <2> QED
    BY <2>1, <2>2, QuietReset DEF OnlyUsed, NothingExcused
<1>2. CASE accounts[u] # "deleted"
  <2> DEFINE new == [id |-> created + 1, uid |-> u, used |-> FALSE, expired |-> FALSE]
             mail == [pc |-> "mail", uid |-> u, token |-> created + 1]
  <2>1. /\ tokens' = tokens \cup {new} /\ request' = [request EXCEPT ![w] = mail]
        /\ UNCHANGED <<spent, again, excused>>
    BY <1>2 DEF CreatePasswordResetToken
  <2>2. new.id \notin spent /\ new.id \notin TokenIds /\ mail.pc = "mail" /\ new.id = created + 1
    BY DEF TypeOK, TokenIds
  <2>3. \A v \in Workers : request'[v] = IF v = w THEN mail ELSE request[v]
    BY <2>1 DEF TypeOK
  <2>4. \A v \in Workers : Resets(v)' => v # w /\ Resets(v) /\ request'[v] = request[v]
    BY <2>2, <2>3 DEF Resets
  <2>5. \A v \in Workers : Resets(v) => request[v].token # new.id
    <3> SUFFICES ASSUME NEW v \in Workers, Resets(v) PROVE request[v].token \in TokenIds
      BY <2>2
    <3>1. request[v] \in Resetting
      BY RequestFields DEF Resets, Idle
    <3> QED
      BY <3>1 DEF Resetting
  <2>6. request[w].pc = "create"
    BY DEF CreatePasswordResetToken
  <2> HIDE DEF new, mail
  <2>7. OwnToken'
    BY <2>1, <2>4, <2>5 DEF OwnToken, SpendInv
  <2>8. OneResets => OneResets'
    BY <2>4 DEF OneResets
  <2>9. SpentIsMarked => SpentIsMarked'
    BY <2>1, <2>2, <2>3, <2>6 DEF SpentIsMarked
  <2>10. UnspentInHand => UnspentInHand'
    BY <2>1, <2>4 DEF UnspentInHand, Resets
  <2> QED
    BY <2>1, <2>7, <2>8, <2>9, <2>10 DEF SpendInv, NothingExcused
<1> QED
  BY <1>1, <1>2

\* A reset that begins, unless it overlaps with another one of its user: what is
\* valid has set no password.
LEMMA PostSpends ==
  ASSUME TypeOK, SpendInv, NEW w \in Workers, NEW t \in tokens, ResetPasswordPost(w, t)
  PROVE  SpendInv'
<1> DEFINE r == [pc |-> "load", uid |-> t.uid, token |-> t.id]
<1>1. /\ request' = [request EXCEPT ![w] = r] /\ request[w] = Idle /\ ~t.used
      /\ UNCHANGED <<tokens, spent, again>>
  BY DEF ResetPasswordPost, Begin, Valid
<1>2. r.pc = "load" /\ r.uid = t.uid /\ r.token = t.id
  OBVIOUS
<1>3. NothingExcused' => NothingExcused /\ \A v \in Workers : Resets(v) => request[v].uid # t.uid
  BY DEF ResetPasswordPost, Begin, NothingExcused, Resets
<1>4. \A v \in Workers : request'[v] = IF v = w THEN r ELSE request[v]
  BY <1>1 DEF TypeOK
<1>5. \A a, b \in tokens : a.id = b.id => a = b
  BY DEF TypeOK
<1>6. ~Resets(w)
  BY <1>1 DEF Resets, Idle
<1> HIDE DEF r
<1>7. OwnToken'
  BY <1>1, <1>2, <1>4, <1>5 DEF OwnToken, SpendInv, Resets
<1> SUFFICES ASSUME NothingExcused'
             PROVE  again' = {} /\ OneResets' /\ SpentIsMarked' /\ UnspentInHand'
  BY <1>7 DEF SpendInv
<1>8. again = {} /\ OneResets /\ SpentIsMarked /\ UnspentInHand
  BY <1>3 DEF SpendInv
<1>9. OneResets'
  BY <1>2, <1>3, <1>4, <1>8 DEF OneResets, Resets
<1>10. SpentIsMarked'
  BY <1>1, <1>4, <1>6, <1>8 DEF SpentIsMarked, Resets
<1>11. t.id \notin spent
  <2>1. ASSUME NEW v \in Workers, request[v].pc = "mark", request[v].token = t.id
        PROVE  request[v].uid = t.uid /\ Resets(v)
    BY <2>1 DEF OwnToken, SpendInv, Resets
  <2> QED
    BY <1>1, <1>3, <1>8, <2>1 DEF SpentIsMarked
<1>12. UnspentInHand'
  BY <1>1, <1>2, <1>4, <1>8, <1>11 DEF UnspentInHand
<1> QED
  BY <1>1, <1>8, <1>9, <1>10, <1>12

\* The UPDATE of the password: the one who makes it is the only reset of the user.
LEMMA UpdateSpends ==
  ASSUME TypeOK, SpendInv, NEW w \in Workers, UpdateUserPassword(w)
  PROVE  SpendInv'
<1>1. request[w] \in Resetting /\ request[w].pc = "write"
  BY RequestFields DEF UpdateUserPassword, Idle
<1>2. \A v \in Workers : /\ v # w => request'[v] = request[v]
                         /\ v = w => request'[v] = [request[w] EXCEPT !.pc = "mark"]
  BY DEF UpdateUserPassword, Goto, TypeOK
<1>3. \A v \in Workers : /\ Resets(v)' <=> Resets(v)
                         /\ Resets(v) => /\ request'[v].token = request[v].token
                                         /\ request'[v].uid = request[v].uid
  BY <1>1, <1>2 DEF Resets, Resetting
<1>4. request'[w].pc = "mark" /\ request'[w].token = request[w].token
  BY <1>1, <1>2 DEF Resetting
<1>5. UNCHANGED <<tokens, excused>>
  BY DEF UpdateUserPassword
<1>6. OwnToken'
  BY <1>3, <1>5 DEF OwnToken, SpendInv
<1> SUFFICES ASSUME NothingExcused
             PROVE  again' = {} /\ OneResets' /\ SpentIsMarked' /\ UnspentInHand'
  BY <1>5, <1>6 DEF SpendInv, NothingExcused
<1>7. again = {} /\ OneResets /\ SpentIsMarked /\ UnspentInHand
  BY DEF SpendInv
<1>8. OneResets'
  BY <1>3, <1>7 DEF OneResets
<1>9. request[w].token \notin spent
  BY <1>1, <1>7 DEF UnspentInHand
<1>10. again' = {}
  BY <1>7, <1>9 DEF UpdateUserPassword
<1>11. spent \subseteq spent' /\ spent' \subseteq spent \cup {request[w].token}
  BY DEF UpdateUserPassword
<1>12. SpentIsMarked'
  BY <1>2, <1>4, <1>5, <1>7, <1>11 DEF SpentIsMarked
<1>13. \A v \in Workers : v # w /\ Resets(v) => request[v].token # request[w].token
  BY <1>1, <1>7 DEF OwnToken, SpendInv, OneResets, Resets
<1>14. UnspentInHand'
  BY <1>2, <1>4, <1>7, <1>11, <1>13 DEF UnspentInHand, Resets
<1> QED
  BY <1>8, <1>10, <1>12, <1>14

LEMMA SpendStep == TypeOK /\ SpendInv /\ [Next]_vars => SpendInv'
<1> SUFFICES ASSUME TypeOK, SpendInv, [Next]_vars PROVE SpendInv'
  OBVIOUS
<1>0. request \in [Workers -> Request]
  BY DEF TypeOK
<1>1. ASSUME NEW w \in Workers, NEW u \in Users, ForgotPasswordPost(w, u) PROVE SpendInv'
  <2>1. /\ request' = [request EXCEPT ![w] = [pc |-> "invalidate", uid |-> u]]
        /\ request[w] = Idle /\ UNCHANGED <<tokens, spent, again>> /\ excused \subseteq excused'
    BY <1>1 DEF ForgotPasswordPost, Begin
  <2>2. NoneResets /\ MarksStay
    BY <1>0, <2>1 DEF NoneResets, MarksStay, Resets, Idle
  <2> QED
    BY <2>1, <2>2, QuietReset DEF OnlyUsed, NothingExcused
<1>2. ASSUME NEW w \in Workers, InvalidateOlder(w) \/ InvalidateOthers(w) PROVE SpendInv'
  <2> PICK u : u = request[w].uid
    OBVIOUS
  <2>1. InvalidatePasswordResetTokens(u) /\ UNCHANGED <<spent, again>>
    BY <1>2 DEF InvalidateOlder, InvalidateOthers
  <2>2. request[w].pc \in {"invalidate", "clear"} /\ request'[w].pc \in {"create", "idle"}
    BY <1>0, <1>2, RequestFields
    DEF InvalidateOlder, InvalidateOthers, Goto, Finish, Idle, Asking
  <2>3. \A v \in Workers : v # w => request'[v] = request[v]
    BY <1>0, <1>2 DEF InvalidateOlder, InvalidateOthers, Goto, Finish
  <2>4. NoneResets /\ MarksStay
    BY <2>2, <2>3 DEF NoneResets, MarksStay, Resets
  <2>5. OnlyUsed
    BY <2>1, Invalidated DEF InvalidatePasswordResetTokens, OnlyUsed
  <2>6. NothingExcused' => NothingExcused
    BY <2>1 DEF InvalidatePasswordResetTokens, NothingExcused
  <2> QED
    BY <2>1, <2>4, <2>5, <2>6, QuietReset
<1>3. ASSUME NEW w \in Workers, CreatePasswordResetToken(w) PROVE SpendInv'
  BY <1>3, CreateSpends
<1>4. ASSUME NEW w \in Workers, SendMail(w) \/ CutOff(w) PROVE SpendInv'
  <2>1. request' = [request EXCEPT ![w] = Idle] /\ UNCHANGED <<tokens, spent, again>>
    BY <1>4 DEF SendMail, CutOff, Finish
  <2>2. NoneResets
    BY <1>0, <2>1 DEF NoneResets, Resets, Idle
  <2>3. NothingExcused' => NothingExcused /\ MarksStay
    BY <1>0, <1>4, <2>1 DEF SendMail, CutOff, NothingExcused, MarksStay
  <2> QED
    BY <2>1, <2>2, <2>3, QuietReset DEF OnlyUsed
<1>5. ASSUME NEW w \in Workers, NEW t \in tokens, ResetPasswordPost(w, t) PROVE SpendInv'
  BY <1>5, PostSpends
<1>6. ASSUME NEW w \in Workers, GetUserByID(w) PROVE SpendInv'
  <2>1. request[w] \in Resetting /\ request[w].pc = "load"
    BY <1>6, RequestFields DEF GetUserByID, Idle
  <2>2. \/ request' = [request EXCEPT ![w] = [request[w] EXCEPT !.pc = "write"]]
        \/ request' = [request EXCEPT ![w] = Idle]
    BY <1>6 DEF GetUserByID, Goto, Finish
  <2>3. UNCHANGED <<tokens, spent, again, excused>>
    BY <1>6 DEF GetUserByID
  <2>4. NoneResets /\ MarksStay
    BY <1>0, <2>1, <2>2 DEF NoneResets, MarksStay, Resets, Resetting, Idle
  <2> QED
    BY <2>3, <2>4, QuietReset DEF OnlyUsed, NothingExcused
<1>7. ASSUME NEW w \in Workers, UpdateUserPassword(w) PROVE SpendInv'
  BY <1>7, UpdateSpends
<1>8. ASSUME NEW w \in Workers, MarkPasswordResetTokenUsed(w) PROVE SpendInv'
  <2>1. request[w] \in Resetting /\ request[w].pc = "mark"
    BY <1>8, RequestFields DEF MarkPasswordResetTokenUsed, Idle
  <2>2. request' = [request EXCEPT ![w] = [request[w] EXCEPT !.pc = "clear"]]
        /\ UNCHANGED <<spent, again>>
    BY <1>8 DEF MarkPasswordResetTokenUsed, Goto
  <2>3. NoneResets
    BY <1>0, <2>1, <2>2 DEF NoneResets, Resets, Resetting
  <2>4. OnlyUsed
    BY <1>8, MarkedTokens DEF MarkPasswordResetTokenUsed, OnlyUsed
  <2>5. ASSUME NothingExcused' PROVE NothingExcused /\ MarksStay
    <3>1. tokens' = Used({request[w].token}) /\ UNCHANGED excused
      BY <1>8, <2>5 DEF MarkPasswordResetTokenUsed, NothingExcused
    <3>2. \A t \in tokens' : t.id = request[w].token => t.used
      BY <3>1, MarkedTokens
    <3> QED
      BY <1>0, <2>2, <2>5, <3>1, <3>2 DEF MarksStay, NothingExcused
  <2> QED
    BY <2>2, <2>3, <2>4, <2>5, QuietReset
<1>9. ASSUME NEW u \in Users, UpdateUserActive(u) \/ DeleteUser(u) PROVE SpendInv'
  <2>1. tokens' \subseteq tokens /\ UNCHANGED <<request, spent, again, excused>>
    BY <1>9 DEF UpdateUserActive, DeleteUser
  <2> QED
    BY <2>1, QuietReset DEF OnlyUsed, NoneResets, MarksStay, NothingExcused, Resets
<1>10. ASSUME NEW t \in tokens, Expire(t) PROVE SpendInv'
  <2>1. /\ [t EXCEPT !.expired = TRUE].id = t.id
        /\ [t EXCEPT !.expired = TRUE].uid = t.uid
        /\ [t EXCEPT !.expired = TRUE].used = t.used
    BY TokenFields DEF TypeOK
  <2>2. OnlyUsed
    BY <1>10, <2>1 DEF Expire, OnlyUsed
  <2> QED
    BY <1>10, <2>2, QuietReset DEF Expire, NoneResets, MarksStay, NothingExcused, Resets
<1>11. CASE UNCHANGED vars
  BY <1>11, QuietReset DEF vars, OnlyUsed, NoneResets, MarksStay, NothingExcused, Resets
<1> QED
  BY <1>1, <1>2, <1>3, <1>4, <1>5, <1>6, <1>7, <1>8, <1>9, <1>10, <1>11
  DEF Next, Ask, Reset

-----------------------------------------------------------------------------
(* The theorems *)

\* The inductive invariant of ForgotPasswordPost and ResetPasswordPost on the table
\* of tokens, whatever the number of users, requests and links.
THEOREM LinkInvariant == Spec => []LinkInv
  BY TypeInit, TypeStep, LinkInit, LinkStep, PTL DEF Spec

\* A user has one working link at most, unless two were asked for at a time or the
\* database failed: the UPDATE before the INSERT of ForgotPasswordPost is enough.
THEOREM OneLinkWorks == Spec => []OneValidLink
<1>1. TypeOK /\ LinkInv => OneValidLink
  <2> SUFFICES ASSUME TypeOK, LinkInv, Quiet, NEW u \in Users
               PROVE  Cardinality(ValidTokens(u)) <= 1
    BY DEF OneValidLink
  <2>1. \A s, t \in ValidTokens(u) : s = t
    BY DEF LinkInv, OneUnused, ValidTokens, Valid
  <2>2. CASE ValidTokens(u) = {}
    BY <2>2, FS_EmptySet
  <2>3. CASE ValidTokens(u) # {}
    <3>1. PICK t \in ValidTokens(u) : TRUE
      BY <2>3
    <3>2. ValidTokens(u) = {t}
      BY <2>1, <3>1
    <3> QED
      BY <3>2, FS_Singleton
  <2> QED
    BY <2>2, <2>3
<1> QED
  BY <1>1, TypeCorrect, LinkInvariant, PTL

\* A link that an invalidation has passed over starts no reset any more: what
\* GetValidPasswordResetToken finds valid was never retired, in any interleaving.
THEOREM RetiredLinksAreDead == Spec => RetiredLinksStayRetired
<1>1. LinkInv => [\A w \in Workers, t \in tokens : ResetPasswordPost(w, t) => t.id \notin retired]_vars
  BY Zenon DEF LinkInv, RetiredAreUsed, ResetPasswordPost, Valid
<1> QED
  BY <1>1, LinkInvariant, PTL DEF RetiredLinksStayRetired

\* The inductive invariant of the five statements of a reset on the table of tokens.
THEOREM SpendInvariant == Spec => []SpendInv
  BY TypeCorrect, SpendInit, SpendStep, PTL DEF Spec

\* A link sets a password once, although its token is marked only after the password
\* is written, unless two resets of a user overlap, the one that used it is cut off,
\* or the database fails before the mark: requests for other links, a deactivation, a
\* deletion and expiry in between do not matter.
THEOREM OneResetOnly == Spec => []OneResetPerLink
<1>1. SpendInv => OneResetPerLink
  BY DEF SpendInv, OneResetPerLink, NothingExcused
<1> QED
  BY <1>1, SpendInvariant, PTL

=============================================================================
