------------------------------ MODULE Admission ------------------------------
(***************************************************************************)
(* Who may use a server and who decides: web/domain/src/service/           *)
(* admission.rs, identity.rs, sessions.rs and the account half of          *)
(* users.rs, over their models, as the API's routes call them; and the     *)
(* part of server/src/main.rs that runs them at boot.                      *)
(*                                                                         *)
(* A request first finds out who is asking (a provider's word or a session *)
(* of ours) and then does one thing.  Neither half is in a transaction, so *)
(* a request is a plan: a sequence of steps with other requests between    *)
(* any two.  A step is one statement, but for what an owner's request      *)
(* reads to learn whether it may, which is one step.  Whether somebody is  *)
(* let in is read in up to four statements, and what one has read stands   *)
(* until the next.  A dropped connection cancels a plan; the process may   *)
(* stop at any moment, in the middle of its boot too, and starts again     *)
(* with whatever ALLOWED_EMAILS says then.                                 *)
(*                                                                         *)
(* Modelled: users with the row ids SQLite gives them, identities,         *)
(* admitted addresses and whom they are bound to, the server row, owners,  *)
(* sessions and their idle limit, the claim code, the seed.                *)
(* Left out: checking a provider's signature (a request carries what the   *)
(* provider vouched for), names and notes, how an address is typed (an     *)
(* address stands for all its spellings), the browser's cookie, the lists  *)
(* of a closed account (module Membership).                                *)
(***************************************************************************)
EXTENDS Integers, Sequences, FiniteSets

CONSTANTS
    Callers,     \* requests that may be under way at once
    Identities,  \* (provider, subject) pairs
    Addresses,   \* email addresses, as admission::key leaves them
    Requests,    \* what callers may ask
    Configs,     \* what ALLOWED_EMAILS may say at a boot
    Stored,      \* databases a server may be started on, with no sessions
    MaxUsers,    \* bound on the row ids in use
    MaxTokens,   \* bound on the sessions ever issued
    MaxBoots,    \* bound on how often the process starts
    MaxTime,     \* bound on the clock
    Idle,        \* IDLE_DAYS, in units of the clock
    None

UserIds == 1..MaxUsers
Tokens == 1..MaxTokens
Unbound == 0          \* admitted_emails.user_id IS NULL
NoCode == 0           \* the process offers no claim code

Maybe(S) == S \cup {None}

(* How a request says who it is, what it asks, and the arguments. An owner *)
(* names an address; `yes` is promote or demote, open or close; a claim    *)
(* carries a code, which is the number of the boot that logged it.         *)
Deeds == {"use", "sign_in", "admit", "withdraw", "own", "set_open", "close",
          "claim", "end"}

Asked == [via: {"claims", "session"}, identity: Identities,
          email: Maybe(Addresses), token: Tokens, deed: Deeds,
          address: Addresses, yes: BOOLEAN, code: Nat]

Users == [sub: Maybe(Identities), email: Maybe(Addresses), owner: BOOLEAN]

Sessions == [user: UserIds, used: 0..MaxTime]

Ties == [address: Addresses, user: UserIds]

VARIABLES
    users,     \* the users table; None: no such row.  A sub of None is one
               \* of the raw subjects older accounts keep, which no sign-in asks for
    identity,  \* user_identities: whose a provider's identity is
    admitted,  \* admitted_emails: bound to whom, Unbound, or None: not admitted
    sessions,  \* app_sessions
    issued,    \* how many sessions have been issued: a token is never minted twice
    open,      \* server.admits_anyone
    claimed,   \* server.claimed_at IS NOT NULL
    now,       \* the clock
    boots,     \* how often the process has started
    boot,      \* what is left of this boot, as steps; <<>> when up or stopped
    up,        \* serving requests
    code,      \* Ctx.claim_code
    work       \* work[c]: the request c has under way

tables == <<users, identity, admitted, sessions, issued, open, claimed>>
process == <<boots, boot, up, code>>
vars == <<users, identity, admitted, sessions, issued, open, claimed,
          now, boots, boot, up, code, work>>

AdmissionAssumption ==
    /\ Requests \subseteq Asked
    /\ Configs \subseteq [anyone: BOOLEAN, these: Seq(Addresses)]
    /\ Stored \subseteq
         [users: [UserIds -> Maybe(Users)], identity: [Identities -> Maybe(UserIds)],
          admitted: [Addresses -> Maybe(UserIds \cup {Unbound})],
          open: BOOLEAN, claimed: BOOLEAN]
    /\ \A db \in Stored :     \* foreign keys
         /\ \A i \in Identities : db.identity[i] # None => db.users[db.identity[i]] # None
         /\ \A a \in Addresses :
              db.admitted[a] \in UserIds => db.users[db.admitted[a]] # None
    /\ MaxUsers \in Nat /\ MaxTokens \in Nat /\ MaxBoots \in Nat
    /\ MaxTime \in Nat /\ Idle \in Nat \ {0}
    /\ None \notin Identities /\ None \notin Addresses /\ None \notin Nat
    /\ None \notin Users /\ None \notin Sessions /\ None \notin Ties
ASSUME AdmissionAssumption

----------------------------------------------------------------------------
(* The users and their standing.                                           *)

Present(u) == users[u] # None

(* INTEGER PRIMARY KEY without AUTOINCREMENT: one more than the greatest.  *)
NextUser(u) ==
    /\ \A v \in UserIds : v >= u => ~Present(v)
    /\ u > 1 => Present(u - 1)

(* admission::owners, read by is_owner, owner_only and owner_count.        *)
Owners == {u \in UserIds : Present(u) /\ users[u].owner}

IsOwner(u) == u \in Owners

LastOwner == Cardinality(Owners) <= 1

(* User::earliest: a row's id is above every earlier row's, so the order   *)
(* by created_at and id is the order of the ids.                           *)
Earliest(u) == Present(u) /\ \A v \in UserIds : Present(v) => u <= v

WithEmail(a) == {u \in UserIds : Present(u) /\ users[u].email = a}

(* A provider that sends no address has not said it is gone.               *)
Coalesce(new, old) == IF new = None THEN old ELSE new

----------------------------------------------------------------------------
(* Admission: Admitted and Server.                                         *)

BoundTo(u) == {a \in Addresses : admitted[a] = u}

(* Admitted::bind: only a row nobody is behind yet; without a row it does  *)
(* nothing, and a row cannot be tied to somebody who is not there.         *)
CanBindAnybody(tie) == TRUE

CanBind(tie) == admitted[tie.address] = Unbound => Present(tie.user)

BoundAnyway(tie) ==
    IF admitted[tie.address] = None THEN admitted
    ELSE [admitted EXCEPT ![tie.address] = tie.user]

Bound(tie) ==
    IF admitted[tie.address] # Unbound THEN admitted
    ELSE [admitted EXCEPT ![tie.address] = tie.user]

Seeded(a) == IF admitted[a] = None THEN [admitted EXCEPT ![a] = Unbound]
             ELSE admitted

----------------------------------------------------------------------------
(* Requests.                                                               *)

NoPlan == [asked |-> None, plan |-> <<>>, who |-> Unbound,
           subject |-> Unbound, tie |-> None]

Steps == {"identify", "resume", "there",                        \* who is asking
          "vet", "bound", "stored", "listed",
          "newcomer", "invited", "recognise",
          "bind", "refresh", "create", "attach",
          "use", "issue", "may_admit", "admit", "may_withdraw", \* what they ask
          "withdraw", "may_own", "set_owner", "may_open", "set_open",
          "may_close", "forget", "delete",
          "may_claim", "win", "seed", "end"}

Busy(c) == work[c].plan # <<>>
At(c, step) == Busy(c) /\ Head(work[c].plan) = step
Ask(c) == work[c].asked
Who(c) == work[c].who
Rest(c) == Tail(work[c].plan)

(* The steps of what was asked, once it is known who asks.  An owner has   *)
(* to be somebody who can sign in: a promotion vets its subject.           *)
DeedPlan(asked) ==
    CASE asked.deed = "sign_in"  -> <<"issue">>
      [] asked.deed = "admit"    -> <<"may_admit", "admit">>
      [] asked.deed = "withdraw" -> <<"may_withdraw", "withdraw">>
      [] asked.deed = "own"      -> IF asked.yes
                                    THEN <<"may_own", "vet", "set_owner">>
                                    ELSE <<"may_own", "set_owner">>
      [] asked.deed = "set_open" -> <<"may_open", "set_open">>
      [] asked.deed = "close"    -> <<"may_close", "forget", "delete">>
      [] OTHER                   -> <<"use">>

(* A claim asks nothing about admission, and signing out nothing about who *)
(* is asking; everything else finds that out first.                        *)
SeedBeforeTheWin == <<"may_claim", "create", "attach", "seed", "bind", "win", "issue">>

ClaimPlan == <<"may_claim", "create", "attach", "win", "seed", "bind", "issue">>

OpeningPlan(asked) ==
    IF asked.deed = "claim" THEN ClaimPlan
    ELSE IF asked.deed = "end" THEN <<"end">>
    ELSE (IF asked.via = "session" THEN <<"resume", "there", "vet">> ELSE <<"identify">>)
         \o DeedPlan(asked)

DeedSteps == {"use", "issue", "may_admit", "may_withdraw", "may_own",
              "may_open", "may_close"}

(* It is settled who c is, and what was asked is about to be done.         *)
Acting(c) == Busy(c) /\ Head(work[c].plan) \in DeedSteps /\ Ask(c).deed # "claim"

Becomes(c, w) == work' = [work EXCEPT ![c] = w]
Continue(c) == Becomes(c, [work[c] EXCEPT !.plan = Rest(c)])
GoTo(c, step) == Becomes(c, [work[c] EXCEPT !.plan = <<step>> \o Rest(c)])
Refuse(c) == Becomes(c, NoPlan)

(* A step that looks whether the request may go on.                        *)
May(c, step, allowed) ==
    /\ At(c, step)
    /\ IF allowed THEN Continue(c) ELSE Refuse(c)
    /\ UNCHANGED <<tables, now, process>>

Arrive(c) ==
    /\ up /\ ~Busy(c)
    /\ \E asked \in Requests :
        /\ asked.via = "session" \/ asked.deed = "end" => asked.token <= issued
        /\ asked.deed = "claim" => asked.via = "claims" /\ asked.code <= boots
        /\ Becomes(c, [NoPlan EXCEPT !.asked = asked, !.plan = OpeningPlan(asked)])
    /\ UNCHANGED <<tables, now, process>>

----------------------------------------------------------------------------
(* Finding out who is asking: identity::from_claims, sessions::resolve.    *)

(* User::by_identity.  What the provider sent this time is written to the  *)
(* row of somebody already known; a token may carry nothing to write.      *)
Identify(c) ==
    LET u == identity[Ask(c).identity] IN
    /\ At(c, "identify")
    /\ IF u = None
       THEN Becomes(c, [work[c] EXCEPT !.plan = <<"newcomer">> \o Rest(c)])
       ELSE \E more \in {<<"vet", "refresh">>, <<"vet">>} :
              /\ Ask(c).email # None => "refresh" \in {more[k] : k \in DOMAIN more}
              /\ Becomes(c, [work[c] EXCEPT !.who = u, !.plan = more \o Rest(c)])
    /\ UNCHANGED <<tables, now, process>>

(* admits_user, a statement at a time, asked about whoever asks or about   *)
(* the person they would promote.  Is the server open to anyone?           *)
Vetted(c) == IF work[c].subject = Unbound THEN Who(c) ELSE work[c].subject

Vet(c) ==
    /\ At(c, "vet")
    /\ IF open THEN Continue(c) ELSE GoTo(c, "bound")
    /\ UNCHANGED <<tables, now, process>>

(* Admitted::admits_user: is an address bound to them?                     *)
LookForBinding(c) ==
    /\ At(c, "bound")
    /\ IF BoundTo(Vetted(c)) # {} THEN Continue(c) ELSE GoTo(c, "stored")
    /\ UNCHANGED <<tables, now, process>>

(* Their address, as this server last heard it.                            *)
ReadStored(c) ==
    LET u == Vetted(c) IN
    /\ At(c, "stored")
    /\ IF Present(u) /\ users[u].email # None
       THEN Becomes(c, [work[c] EXCEPT
                !.tie = [address |-> users[u].email, user |-> u],
                !.plan = <<"listed">> \o Rest(c)])
       ELSE Refuse(c)
    /\ UNCHANGED <<tables, now, process>>

(* Is the address just read admitted?  Then it is tied to them, which is   *)
(* silent when its row has gone by then.                                   *)
BindUnasked(c) ==
    /\ At(c, "listed") /\ GoTo(c, "bind")
    /\ UNCHANGED <<tables, now, process>>

LookForListing(c) ==
    /\ At(c, "listed")
    /\ IF admitted[work[c].tie.address] # None THEN GoTo(c, "bind") ELSE Refuse(c)
    /\ UNCHANGED <<tables, now, process>>

(* admits_email, for a new identity.                                       *)
Newcomer(c) ==
    /\ At(c, "newcomer")
    /\ IF open THEN GoTo(c, "recognise")
       ELSE IF Ask(c).email # None THEN GoTo(c, "invited") ELSE Refuse(c)
    /\ UNCHANGED <<tables, now, process>>

LookForInvitation(c) ==
    /\ At(c, "invited")
    /\ IF admitted[Ask(c).email] # None THEN GoTo(c, "recognise") ELSE Refuse(c)
    /\ UNCHANGED <<tables, now, process>>

(* The same person as whoever has that address, or somebody new.           *)
Recognise(c) ==
    LET email == Ask(c).email
        same == {u \in WithEmail(email) : email # None}
        somebody == IF email = None THEN <<"create", "attach">>
                    ELSE <<"create", "attach", "bind">>
    IN
    /\ At(c, "recognise")
    /\ \/ \E u \in same :
              Becomes(c, [work[c] EXCEPT
                  !.who = u, !.tie = [address |-> email, user |-> u],
                  !.plan = <<"attach", "refresh", "bind">> \o Rest(c)])
       \/ /\ same = {}
          /\ Becomes(c, [work[c] EXCEPT !.plan = somebody \o Rest(c)])
    /\ UNCHANGED <<tables, now, process>>

(* User::find_or_create, by the qualified subject.                         *)
Create(c) ==
    LET i == Ask(c).identity
        email == Ask(c).email
        same == {u \in UserIds : Present(u) /\ users[u].sub = i}
        tie(u) == IF email = None THEN None ELSE [address |-> email, user |-> u]
        found(u, row) ==
            /\ users' = [users EXCEPT ![u] = row]
            /\ Becomes(c, [work[c] EXCEPT !.who = u, !.tie = tie(u), !.plan = Rest(c)])
    IN
    /\ At(c, "create")
    /\ \/ \E u \in same :
            found(u, [users[u] EXCEPT !.email = Coalesce(email, users[u].email)])
       \/ /\ same = {}
          /\ \E u \in UserIds :
                NextUser(u) /\ found(u, [sub |-> i, email |-> email, owner |-> FALSE])
    /\ UNCHANGED <<identity, admitted, sessions, issued, open, claimed, now, process>>

(* User::attach_identity: an identity that is somebody's stays theirs.     *)
Attach(c) ==
    LET i == Ask(c).identity IN
    /\ At(c, "attach")
    /\ IF identity[i] # None \/ Present(Who(c))
       THEN /\ identity' = [identity EXCEPT ![i] = IF @ = None THEN Who(c) ELSE @]
            /\ Continue(c)
       ELSE UNCHANGED identity /\ Refuse(c)
    /\ UNCHANGED <<users, admitted, sessions, issued, open, claimed, now, process>>

(* User::refresh.                                                          *)
Refresh(c) ==
    /\ At(c, "refresh")
    /\ IF Present(Who(c))
       THEN /\ users' = [users EXCEPT ![Who(c)].email = Coalesce(Ask(c).email, @)]
            /\ Continue(c)
       ELSE UNCHANGED users /\ Refuse(c)
    /\ UNCHANGED <<identity, admitted, sessions, issued, open, claimed, now, process>>

Bind(c) ==
    /\ At(c, "bind")
    /\ IF CanBind(work[c].tie)
       THEN admitted' = Bound(work[c].tie) /\ Continue(c)
       ELSE UNCHANGED admitted /\ Refuse(c)
    /\ UNCHANGED <<users, identity, sessions, issued, open, claimed, now, process>>

(* Session::claim: finding a session and keeping it alive is one statement. *)
LiveWhenPresent(t) == sessions[t] # None

Live(t) == sessions[t] # None /\ sessions[t].used > now - Idle

Resume(c) ==
    LET t == Ask(c).token IN
    /\ At(c, "resume")
    /\ IF Live(t)
       THEN /\ sessions' = [sessions EXCEPT ![t].used = now]
            /\ Becomes(c, [work[c] EXCEPT !.who = sessions[t].user, !.plan = Rest(c)])
       ELSE UNCHANGED sessions /\ Refuse(c)
    /\ UNCHANGED <<users, identity, admitted, issued, open, claimed, now, process>>

(* from_session: its user has to be there still.                           *)
StillThere(c) == May(c, "there", Present(Who(c)))

----------------------------------------------------------------------------
(* What is asked: sessions.                                                *)

(* Any request that changes nothing here.                                  *)
Use(c) ==
    /\ At(c, "use") /\ Refuse(c)
    /\ UNCHANGED <<tables, now, process>>

(* sessions::issue.                                                        *)
Issue(c) ==
    /\ At(c, "issue") /\ Refuse(c)
    /\ IF Present(Who(c))
       THEN /\ issued < MaxTokens
            /\ issued' = issued + 1
            /\ sessions' = [sessions EXCEPT ![issued + 1] =
                               [user |-> Who(c), used |-> now]]
       ELSE UNCHANGED <<issued, sessions>>
    /\ UNCHANGED <<users, identity, admitted, open, claimed, now, process>>

(* sessions::end.                                                          *)
End(c) ==
    /\ At(c, "end") /\ Refuse(c)
    /\ sessions' = [sessions EXCEPT ![Ask(c).token] = None]
    /\ UNCHANGED <<users, identity, admitted, issued, open, claimed, now, process>>

(* sessions::sweep, at boot and on a timer.                                *)
Sweep ==
    /\ up
    /\ sessions' = [t \in Tokens |-> IF Live(t) THEN sessions[t] ELSE None]
    /\ UNCHANGED <<users, identity, admitted, issued, open, claimed, now, process, work>>

----------------------------------------------------------------------------
(* What is asked: the owners' requests.  Each first reads whether it may,  *)
(* and writes in a later statement.                                        *)

MayAdmit(c) == May(c, "may_admit", IsOwner(Who(c)))

(* Admitted::add names who added it, who must be there for a new row.      *)
Admit(c) ==
    LET a == Ask(c).address IN
    /\ At(c, "admit") /\ Refuse(c)
    /\ admitted' = IF Present(Who(c)) THEN Seeded(a) ELSE admitted
    /\ UNCHANGED <<users, identity, sessions, issued, open, claimed, now, process>>

(* The last owner may not withdraw their own address.                      *)
MayWithdraw(c) ==
    May(c, "may_withdraw",
        IsOwner(Who(c)) /\ ~(admitted[Ask(c).address] = Who(c) /\ LastOwner))

Withdraw(c) ==
    /\ At(c, "withdraw") /\ Refuse(c)
    /\ admitted' = [admitted EXCEPT ![Ask(c).address] = None]
    /\ UNCHANGED <<users, identity, sessions, issued, open, claimed, now, process>>

(* set_ownership_of and the refusals of set_ownership: by the address the  *)
(* subject is behind, and never the last owner down.                       *)
MayOwn(c) ==
    LET subject == admitted[Ask(c).address] IN
    /\ At(c, "may_own")
    /\ IF /\ IsOwner(Who(c))
          /\ subject \in UserIds
          /\ ~(~Ask(c).yes /\ LastOwner /\ IsOwner(subject))
       THEN Becomes(c, [work[c] EXCEPT !.subject = subject, !.plan = Rest(c)])
       ELSE Refuse(c)
    /\ UNCHANGED <<tables, now, process>>

SetOwner(c) ==
    LET u == work[c].subject IN
    /\ At(c, "set_owner") /\ Refuse(c)
    /\ users' = IF Present(u) THEN [users EXCEPT ![u].owner = Ask(c).yes] ELSE users
    /\ UNCHANGED <<identity, admitted, sessions, issued, open, claimed, now, process>>

MayOpen(c) == May(c, "may_open", IsOwner(Who(c)))

SetOpen(c) ==
    /\ At(c, "set_open") /\ Refuse(c)
    /\ open' = Ask(c).yes
    /\ UNCHANGED <<users, identity, admitted, sessions, issued, claimed, now, process>>

----------------------------------------------------------------------------
(* What is asked: closing an account (users::close_account).               *)

(* The last owner of the server may not.                                   *)
MayClose(c) == May(c, "may_close", ~(IsOwner(Who(c)) /\ LastOwner))

(* Admitted::forget_user.                                                  *)
Forget(c) ==
    /\ At(c, "forget") /\ Continue(c)
    /\ admitted' = [a \in Addresses |-> IF a \in BoundTo(Who(c)) THEN None ELSE admitted[a]]
    /\ UNCHANGED <<users, identity, sessions, issued, open, claimed, now, process>>

(* User::delete: identities and sessions go with the row, and an address   *)
(* bound since is nobody's again.                                          *)
Delete(c) ==
    LET u == Who(c) IN
    /\ At(c, "delete") /\ Refuse(c)
    /\ users' = [users EXCEPT ![u] = None]
    /\ identity' = [i \in Identities |-> IF identity[i] = u THEN None ELSE identity[i]]
    /\ sessions' = [t \in Tokens |-> IF sessions[t] # None /\ sessions[t].user = u
                                     THEN None ELSE sessions[t]]
    /\ admitted' = [a \in Addresses |-> IF a \in BoundTo(u) THEN Unbound ELSE admitted[a]]
    /\ UNCHANGED <<issued, open, claimed, now, process>>

----------------------------------------------------------------------------
(* What is asked: claiming a server nobody owns (admission::claim).        *)

MayClaim(c) ==
    May(c, "may_claim", ~claimed /\ code # NoCode /\ Ask(c).code = code)

(* Server::claim_for: the claim and the owner in one transaction, for the  *)
(* first to get there.  Without an address the request fails only now.     *)
Anyone == TRUE

FirstToClaim == ~claimed

Win(c) ==
    /\ At(c, "win")
    /\ IF FirstToClaim
       THEN /\ claimed' = TRUE
            /\ users' = IF Present(Who(c)) THEN [users EXCEPT ![Who(c)].owner = TRUE]
                        ELSE users
            /\ IF Ask(c).email = None THEN Refuse(c) ELSE Continue(c)
       ELSE Refuse(c) /\ UNCHANGED <<users, claimed>>
    /\ UNCHANGED <<identity, admitted, sessions, issued, open, now, process>>

(* Admitted::seed, for the address of whoever claimed.                     *)
Seed(c) ==
    LET a == Ask(c).email IN
    /\ At(c, "seed")
    /\ IF admitted[a] # None \/ Present(Who(c))
       THEN admitted' = Seeded(a) /\ Continue(c)
       ELSE UNCHANGED admitted /\ Refuse(c)
    /\ UNCHANGED <<users, identity, sessions, issued, open, claimed, now, process>>

(* A connection may drop between any two steps.                            *)
Cut(c) ==
    /\ Busy(c) /\ Refuse(c)
    /\ UNCHANGED <<tables, now, process>>

Step(c) ==
    \/ Identify(c) \/ Resume(c) \/ StillThere(c)
    \/ Vet(c) \/ LookForBinding(c) \/ ReadStored(c) \/ LookForListing(c)
    \/ Newcomer(c) \/ LookForInvitation(c) \/ Recognise(c)
    \/ Create(c) \/ Attach(c) \/ Refresh(c) \/ Bind(c)
    \/ Use(c) \/ Issue(c) \/ End(c)
    \/ MayAdmit(c) \/ Admit(c) \/ MayWithdraw(c) \/ Withdraw(c)
    \/ MayOwn(c) \/ SetOwner(c) \/ MayOpen(c) \/ SetOpen(c)
    \/ MayClose(c) \/ Forget(c) \/ Delete(c)
    \/ MayClaim(c) \/ Win(c) \/ Seed(c)

----------------------------------------------------------------------------
(* The process: main, admission::seed, offer_claim.  Nothing is served     *)
(* until a boot is through.                                                *)

BootSteps == [do: {"open", "seed", "tie", "own", "claim", "offer"},
              address: Maybe(Addresses)]

Plain(do) == [do |-> do, address |-> None]

(* One address of ALLOWED_EMAILS after another, in the order of a sorted   *)
(* set: its row, then the tie to whoever has that address already.         *)
SeedRows(these) ==
    [k \in 1..(2 * Len(these)) |->
        [do |-> IF k % 2 = 1 THEN "seed" ELSE "tie", address |-> these[(k + 1) \div 2]]]

SomethingStored == Owners # {} \/ \E a \in Addresses : admitted[a] # None

ClaimFirst(somebody) ==
    IF somebody THEN <<Plain("claim"), Plain("own")>> ELSE <<>>

(* The earliest user becomes the owner of a server that already has users. *)
Inherit(somebody) ==
    IF somebody THEN <<Plain("own"), Plain("claim")>> ELSE <<>>

(* The seed applies to a server with nothing stored, and to no other.      *)
BootPlan(config) ==
    LET configured == config.anyone \/ config.these # <<>>
        seed == (IF config.anyone THEN <<Plain("open")>> ELSE SeedRows(config.these))
                \o Inherit(\E u \in UserIds : Present(u))
    IN (IF configured /\ ~SomethingStored THEN seed ELSE <<>>) \o <<Plain("offer")>>

Start ==
    /\ ~up /\ boot = <<>> /\ boots < MaxBoots
    /\ boots' = boots + 1
    /\ \E config \in Configs : boot' = BootPlan(config)
    /\ UNCHANGED <<tables, now, up, code, work>>

Booting(do) == boot # <<>> /\ Head(boot).do = do

BootOpen ==
    /\ Booting("open")
    /\ open' = TRUE /\ boot' = Tail(boot)
    /\ UNCHANGED <<users, identity, admitted, sessions, issued, claimed, now, boots, up, code, work>>

BootSeed ==
    /\ Booting("seed")
    /\ admitted' = Seeded(Head(boot).address) /\ boot' = Tail(boot)
    /\ UNCHANGED <<users, identity, sessions, issued, open, claimed, now, boots, up, code, work>>

BootTie ==
    LET a == Head(boot).address IN
    /\ Booting("tie")
    /\ \/ WithEmail(a) = {} /\ UNCHANGED admitted
       \/ \E u \in WithEmail(a) : admitted' = Bound([address |-> a, user |-> u])
    /\ boot' = Tail(boot)
    /\ UNCHANGED <<users, identity, sessions, issued, open, claimed, now, boots, up, code, work>>

BootOwn ==
    /\ Booting("own")
    /\ \E u \in UserIds : Earliest(u) /\ users' = [users EXCEPT ![u].owner = TRUE]
    /\ boot' = Tail(boot)
    /\ UNCHANGED <<identity, admitted, sessions, issued, open, claimed, now, boots, up, code, work>>

BootClaim ==
    /\ Booting("claim")
    /\ claimed' = TRUE /\ boot' = Tail(boot)
    /\ UNCHANGED <<users, identity, admitted, sessions, issued, open, now, boots, up, code, work>>

(* offer_claim: a new code at every start of an unclaimed server, and then *)
(* the port is opened.                                                     *)
OfferClaim ==
    /\ Booting("offer")
    /\ code' = IF claimed THEN NoCode ELSE boots
    /\ up' = TRUE /\ boot' = Tail(boot)
    /\ UNCHANGED <<tables, now, boots, work>>

Boot == BootOpen \/ BootSeed \/ BootTie \/ BootOwn \/ BootClaim \/ OfferClaim

(* The process ends, serving or in the middle of its boot.                 *)
Crash ==
    /\ up \/ boot # <<>>
    /\ up' = FALSE /\ boot' = <<>> /\ code' = NoCode
    /\ work' = [c \in Callers |-> NoPlan]
    /\ UNCHANGED <<tables, now, boots>>

Tick ==
    /\ now < MaxTime /\ now' = now + 1
    /\ UNCHANGED <<tables, process, work>>

Init ==
    /\ \E db \in Stored :
        /\ users = db.users /\ identity = db.identity /\ admitted = db.admitted
        /\ open = db.open /\ claimed = db.claimed
    /\ sessions = [t \in Tokens |-> None]
    /\ issued = 0 /\ now = 0 /\ boots = 0
    /\ boot = <<>> /\ up = FALSE /\ code = NoCode
    /\ work = [c \in Callers |-> NoPlan]

Next ==
    \/ \E c \in Callers : Arrive(c) \/ Step(c) \/ Cut(c)
    \/ Start \/ Boot \/ Crash \/ Tick \/ Sweep

Spec == Init /\ [][Next]_vars

----------------------------------------------------------------------------
(* What must hold.                                                         *)

(* Type correctness: the tables hold rows and nothing else, an id in one   *)
(* table names a row of another however accounts are closed meanwhile, and *)
(* a request under way is a plan of steps the handlers really take.        *)
AdmissionTypeOK ==
    /\ \A i \in Identities : identity[i] # None => Present(identity[i])
    /\ \A a \in Addresses : admitted[a] \in UserIds => Present(admitted[a])
    /\ \A t \in Tokens : sessions[t] # None => Present(sessions[t].user)
    /\ users \in [UserIds -> Maybe(Users)]
    /\ identity \in [Identities -> Maybe(UserIds)]
    /\ admitted \in [Addresses -> Maybe(UserIds \cup {Unbound})]
    /\ sessions \in [Tokens -> Maybe(Sessions)]
    /\ issued \in 0..MaxTokens
    /\ open \in BOOLEAN /\ claimed \in BOOLEAN /\ up \in BOOLEAN
    /\ now \in 0..MaxTime /\ boots \in 0..MaxBoots /\ code \in 0..boots
    /\ boot \in Seq(BootSteps)
    /\ work \in [Callers -> [asked: Maybe(Requests), plan: Seq(Steps),
                             who: UserIds \cup {Unbound},
                             subject: UserIds \cup {Unbound}, tie: Maybe(Ties)]]

(* A server is marked claimed only along with somebody owning it           *)
(* (Server::claim_for: "or does neither"; admission::seed): whatever races *)
(* for the claim, and wherever a boot is interrupted.  The exception: a    *)
(* claimant whose own account is closed by another of their devices        *)
(* between being created and winning.                                      *)
ClaimedWithAnOwner ==
    [][claimed' /\ ~claimed =>
         Owners' # {} \/ \E c \in Callers : At(c, "win") /\ ~Present(Who(c))]_vars

(* An address stays with the person it was bound to as long as it is       *)
(* admitted and they are there (Admitted::bind), whoever signs in with it  *)
(* at the same time, and through a boot.                                   *)
BindingStays ==
    [][\A a \in Addresses :
         admitted[a] \in UserIds /\ admitted'[a] \in UserIds \cup {Unbound}
           => admitted'[a] = admitted[a] \/ users'[admitted[a]] = None]_vars

Over(t) == sessions[t] = None \/ now - sessions[t].used >= Idle

(* A session that is over, signed out, idle too long or gone with its      *)
(* account, never lets anybody in again (Session::claim): a request that   *)
(* arrives late cannot renew what has lapsed.                              *)
EndedStaysEnded ==
    [][\A t \in 1..issued : Over(t) => Over(t)']_vars

(* Who could sign in, were everything admits_user reads as it is now.      *)
AdmitsUser(u) ==
    \/ open \/ BoundTo(u) # {}
    \/ Present(u) /\ users[u].email # None /\ admitted[users[u].email] # None

(* Once a server is claimed, and nothing is under way, there is somebody   *)
(* who can sign in and administer it (models/admission.rs: "never zero";   *)
(* admission.rs: "an owner who cannot sign in is the same problem as no    *)
(* owner").                                                                *)
SomebodyCanAdminister ==
    claimed /\ up /\ (\A c \in Callers : ~Busy(c)) => \E u \in Owners : AdmitsUser(u)

============================================================================
