-------------------------- MODULE AccountsPromise --------------------------
(***************************************************************************)
(* What the server promises about accounts, without its database, its      *)
(* codes or its requests, to clients that ask to delete only passkeys of   *)
(* their own account: the server does not check that (RemovePasskey below  *)
(* needs OwnPasskeysOnly of PasskeyDeletion.tla).                          *)
(*                                                                         *)
(* An account is an address, passkeys and live auth sessions.  A grant is  *)
(* a session of a verifying action whose user proved who they are.  Each   *)
(* step does one thing: it opens or closes auth sessions, gives or drops   *)
(* a grant, or uses up one grant to change the account of its auth session *)
(* in the one way the grant is for.                                        *)
(***************************************************************************)
EXTENDS Integers, FiniteSets

CONSTANT maxPasskeyCountLimit

VARIABLES
  accounts,  \* [id, email_address]
  keys,      \* passkeys: [id, user_id, webauthn_credential_id]
  sessions,  \* auth sessions: [id, user_id]
  grants     \* [action, id, session, passkey]: passkey is 0 but for deletions

promise == <<accounts, keys, sessions, grants>>

IdsIn(S) == {x.id : x \in S}

KeysOf(u) == {k \in keys : k.user_id = u}

GrantsOf(S) == {g \in grants : g.session \in S}

\* Grant g is for action and given to an auth session of account u.
GrantedTo(g, action, u) ==
  /\ g.action = action
  /\ \E s \in sessions : s.id = g.session /\ s.user_id = u.id

FreeAddress(e) == \A u \in accounts : u.email_address # e

FreeCredential(c) == \A k \in keys : k.webauthn_credential_id # c

\* A new account, with at most one passkey, signed in.
SignUp ==
  \E u \in accounts', s \in sessions' :
    /\ u.id \notin IdsIn(accounts)
    /\ FreeAddress(u.email_address)
    /\ accounts' = accounts \union {u}
    /\ s.id \notin IdsIn(sessions)
    /\ s.user_id = u.id
    /\ sessions' = sessions \union {s}
    /\ \/ keys' = keys
       \/ \E k \in keys' : /\ k.id \notin IdsIn(keys)
                           /\ k.user_id = u.id
                           /\ FreeCredential(k.webauthn_credential_id)
                           /\ keys' = keys \union {k}
    /\ UNCHANGED grants

SignIn ==
  /\ \E s \in sessions' : /\ s.id \notin IdsIn(sessions)
                          /\ s.user_id \in IdsIn(accounts)
                          /\ sessions' = sessions \union {s}
  /\ UNCHANGED <<accounts, keys, grants>>

\* Auth sessions end, and the grants they hold with them.
SignOut ==
  /\ sessions' \subseteq sessions
  /\ grants' = grants \ GrantsOf(IdsIn(sessions \ sessions'))
  /\ UNCHANGED <<accounts, keys>>

Grant ==
  /\ \E g \in grants' : /\ g.session \in IdsIn(sessions)
                        /\ grants' = grants \union {g}
  /\ UNCHANGED <<accounts, keys, sessions>>

Cancel ==
  /\ \E g \in grants : grants' = grants \ {g}
  /\ UNCHANGED <<accounts, keys, sessions>>

ChangeAddress ==
  /\ \E g \in grants, u \in accounts, v \in accounts' :
       /\ GrantedTo(g, "email_address_update", u)
       /\ v = [u EXCEPT !.email_address = v.email_address]
       /\ FreeAddress(v.email_address)
       /\ accounts' = (accounts \ {u}) \union {v}
       /\ grants' = grants \ {g}
  /\ UNCHANGED <<keys, sessions>>

AddPasskey ==
  /\ \E g \in grants, u \in accounts, k \in keys' :
       /\ GrantedTo(g, "passkey_registration", u)
       /\ k.id \notin IdsIn(keys)
       /\ k.user_id = u.id
       /\ FreeCredential(k.webauthn_credential_id)
       /\ Cardinality(KeysOf(u.id)) < maxPasskeyCountLimit
       /\ keys' = keys \union {k}
       /\ grants' = grants \ {g}
  /\ UNCHANGED <<accounts, sessions>>

\* A passkey of the account of the grant's auth session.  Every grant to delete
\* the passkey goes with it.
RemovePasskey ==
  /\ \E g \in grants, u \in accounts : \E k \in KeysOf(u.id) :
       /\ GrantedTo(g, "passkey_deletion", u)
       /\ g.passkey = k.id
       /\ keys' = keys \ {k}
       /\ grants' = {h \in grants : h.passkey # k.id}
  /\ UNCHANGED <<accounts, sessions>>

\* Accounts U disappear with everything they own.
Remove(U) ==
  /\ accounts' = accounts \ U
  /\ keys' = {k \in keys : k.user_id \notin IdsIn(U)}
  /\ sessions' = {s \in sessions : s.user_id \notin IdsIn(U)}
  /\ grants' = {g \in grants : /\ g.session \in IdsIn(sessions')
                               /\ g.passkey \in {0} \union IdsIn(keys')}

DeleteAccount ==
  \E g \in grants, u \in accounts :
    GrantedTo(g, "account_deletion", u) /\ Remove({u})

\* The nightly clean-up needs no grant.
CleanUp == Remove(accounts \ accounts')

PromiseNext ==
  \/ SignUp
  \/ SignIn
  \/ SignOut
  \/ Grant
  \/ Cancel
  \/ ChangeAddress
  \/ AddPasskey
  \/ RemovePasskey
  \/ DeleteAccount
  \/ CleanUp

PromiseInit == grants = {}

PromiseSpec == PromiseInit /\ [][PromiseNext]_promise
=============================================================================
