-------------------------------- MODULE Oidc --------------------------------
(***************************************************************************)
(* Login with OpenID Connect.  A login leaves the server with a flow (the  *)
(* row behind the state parameter) and comes back in a callback that       *)
(* consumes the flow, asks the provider who it was, links or creates the   *)
(* user, and opens a session: five steps, with administrators changing and *)
(* deleting providers and users in between, and other callbacks that may   *)
(* carry the same state.                                                   *)
(*                                                                         *)
(* PKCE, nonces, codes and tokens are what makes the provider's answer     *)
(* genuine and are abstracted to it: Exchange yields the claims of some    *)
(* subject.                                                                *)
(***************************************************************************)
EXTENDS Naturals, FiniteSets

CONSTANTS
    Provider,     \* oidc_providers.id
    Flow,         \* oidc_auth_flows.state_hash
    Callback,     \* callback requests, each at most once at a time
    Subject,      \* the "sub" claims of the providers' users
    Email,        \* normalized addresses
    Member,       \* users.id
    MaxEdits      \* bound on the administrators' changes in a behaviour

ASSUME OidcAssumption ==
    /\ "none" \notin Provider \cup Flow \cup Subject \cup Member \cup Email
    /\ MaxEdits \in Nat

VARIABLES
    provider,     \* the rows of oidc_providers
    flow,         \* the rows of oidc_auth_flows
    identity,     \* external_identities: who a provider's subject is
    account,      \* users: "none", "active" or "disabled"
    address,      \* users.email_normalized
    starting,     \* Start: the provider it has read
    call,         \* the callbacks
    removing,     \* deleteOIDC has seen this provider disabled
    opened,       \* sessions opened with a flow, up to 2
    edits

directory == <<provider, identity, account, address>>
oidcVars == <<directory, flow, starting, call, removing, opened, edits>>

Row == [exists : BOOLEAN, enabled : BOOLEAN, create : BOOLEAN, link : BOOLEAN]
NoRow == [exists |-> FALSE, enabled |-> FALSE, create |-> FALSE, link |-> FALSE]
NoFlow == [status |-> "none", provider |-> "none"]
NoCall == [phase |-> "idle", flow |-> "none", provider |-> "none", row |-> NoRow,
           sub |-> "none", mail |-> "none", user |-> "none"]

OidcInit ==
    /\ provider = [p \in Provider |-> NoRow]
    /\ flow = [f \in Flow |-> NoFlow]
    /\ identity = [p \in Provider |-> [x \in Subject |-> "none"]]
    /\ account = [m \in Member |-> "none"]
    /\ address = [m \in Member |-> "none"]
    /\ starting = [f \in Flow |-> "none"]
    /\ call = [c \in Callback |-> NoCall]
    /\ removing = {}
    /\ opened = [f \in Flow |-> 0]
    /\ edits = 0

-----------------------------------------------------------------------------
(* STARTING A LOGIN.  The provider is read, asked for its endpoints over   *)
(* the network, and then the flow is inserted: a foreign key, not another  *)
(* look, sees to it that the provider still exists.  Each state is fresh.  *)
Start(f, p) ==
    /\ flow[f] = NoFlow /\ starting[f] = "none"
    /\ provider[p].exists /\ provider[p].enabled
    /\ starting' = [starting EXCEPT ![f] = p]
    /\ UNCHANGED <<directory, flow, call, removing, opened, edits>>

CreateFlow(f) ==
    /\ starting[f] # "none"
    /\ provider[starting[f]].exists
    /\ flow' = [flow EXCEPT ![f] = [status |-> "open", provider |-> starting[f]]]
    /\ starting' = [starting EXCEPT ![f] = "none"]
    /\ UNCHANGED <<directory, call, removing, opened, edits>>

StartFails(f) ==
    /\ starting[f] # "none"
    /\ starting' = [starting EXCEPT ![f] = "none"]
    /\ UNCHANGED <<directory, flow, call, removing, opened, edits>>

Expires(f) ==
    /\ flow[f].status = "open"
    /\ flow' = [flow EXCEPT ![f].status = "expired"]
    /\ UNCHANGED <<directory, starting, call, removing, opened, edits>>

Gone(f) == [flow[f] EXCEPT !.status = "gone"]

(* The worker's sweep.                                                     *)
PurgeExpiredOIDCFlows ==
    /\ flow' = [f \in Flow |->
                  IF flow[f].status = "expired" THEN Gone(f) ELSE flow[f]]
    /\ UNCHANGED <<directory, starting, call, removing, opened, edits>>

-----------------------------------------------------------------------------
(* THE CALLBACK                                                            *)
(* Mutant: the flow is looked up, and left where it is.                    *)
ReadFlow(c, f, p) ==
    /\ call[c].phase = "idle"
    /\ flow[f].status \in {"open", "expired"}
    /\ call' = [call EXCEPT ![c] =
                  IF flow[f] = [status |-> "open", provider |-> p]
                  THEN [NoCall EXCEPT !.phase = "consumed", !.flow = f, !.provider = p]
                  ELSE NoCall]
    /\ UNCHANGED <<directory, flow, starting, removing, opened, edits>>

(* One transaction reads and deletes the row; whether it had expired and   *)
(* whether the callback came to its provider's address is looked at after. *)
ConsumeOIDCFlow(c, f, p) ==
    /\ call[c].phase = "idle"
    /\ flow[f].status \in {"open", "expired"}
    /\ flow' = [flow EXCEPT ![f] = Gone(f)]
    /\ call' = [call EXCEPT ![c] =
                  IF flow[f] = [status |-> "open", provider |-> p]
                  THEN [NoCall EXCEPT !.phase = "consumed", !.flow = f, !.provider = p]
                  ELSE NoCall]
    /\ UNCHANGED <<directory, starting, removing, opened, edits>>

OIDCProviderByID(c) ==
    /\ call[c].phase = "consumed"
    /\ provider[call[c].provider].exists
    /\ provider[call[c].provider].enabled
    /\ call' = [call EXCEPT ![c].phase = "known", ![c].row = provider[call[c].provider]]
    /\ UNCHANGED <<directory, flow, starting, removing, opened, edits>>

(* The claims; an address that is missing or unverified is "none" here,    *)
(* and links and creates nobody.  One of a domain that is not allowed ends *)
(* the callback (CallbackFails).                                           *)
Exchange(c, x, e) ==
    /\ call[c].phase = "known"
    /\ call' = [call EXCEPT ![c].phase = "claimed", ![c].sub = x, ![c].mail = e]
    /\ UNCHANGED <<directory, flow, starting, removing, opened, edits>>

Linked(c) == identity[call[c].provider][call[c].sub]

(* The users the callback's address leads to, if its provider links.       *)
Linkable(c) ==
    {m \in Member : /\ call[c].row.link /\ call[c].mail # "none"
                    /\ account[m] = "active" /\ address[m] = call[c].mail}

Resolved(c, m) == call' = [call EXCEPT ![c].phase = "resolved", ![c].user = m]

ResolveKnown(c) ==
    /\ call[c].phase = "claimed"
    /\ Linked(c) # "none"
    /\ account[Linked(c)] = "active"
    /\ Resolved(c, Linked(c))
    /\ UNCHANGED <<directory, flow, starting, removing, opened, edits>>

(* Mutant: the identity is inserted with foreign keys switched off.        *)
InsertIdentityUnchecked(c, m) ==
    identity' = [identity EXCEPT ![call[c].provider][call[c].sub] = m]

(* The identity refers to its provider; one of a subject is the only one.  *)
InsertIdentity(c, m) ==
    /\ provider[call[c].provider].exists
    /\ Linked(c) = "none"
    /\ identity' = [identity EXCEPT ![call[c].provider][call[c].sub] = m]

(* Mutant: an identity that is known is linked again by its address.       *)
ResolveLinkAnew(c, m) ==
    /\ call[c].phase = "claimed"
    /\ m \in Linkable(c)
    /\ provider[call[c].provider].exists
    /\ InsertIdentityUnchecked(c, m)
    /\ Resolved(c, m)
    /\ UNCHANGED <<provider, account, address, flow, starting, removing, opened, edits>>

ResolveLink(c, m) ==
    /\ call[c].phase = "claimed"
    /\ Linked(c) = "none"
    /\ m \in Linkable(c)
    /\ InsertIdentity(c, m)
    /\ Resolved(c, m)
    /\ UNCHANGED <<provider, account, address, flow, starting, removing, opened, edits>>

(* email_normalized is unique, also among disabled users.                  *)
AddressFree(e) == \A m \in Member : address[m] # e

ResolveCreate(c, m) ==
    /\ call[c].phase = "claimed"
    /\ Linked(c) = "none" /\ Linkable(c) = {}
    /\ call[c].row.create /\ call[c].mail # "none"
    /\ account[m] = "none" /\ AddressFree(call[c].mail)
    /\ account' = [account EXCEPT ![m] = "active"]
    /\ address' = [address EXCEPT ![m] = call[c].mail]
    /\ InsertIdentity(c, m)
    /\ Resolved(c, m)
    /\ UNCHANGED <<provider, flow, starting, removing, opened, edits>>

(* The session is opened in a statement of its own, which looks at nothing.*)
EstablishSession(c) ==
    /\ call[c].phase = "resolved"
    /\ opened' = [opened EXCEPT ![call[c].flow] = IF @ < 2 THEN @ + 1 ELSE @]
    /\ call' = [call EXCEPT ![c] = NoCall]
    /\ UNCHANGED <<directory, flow, starting, removing, edits>>

(* A check fails, the provider does not answer, the browser goes away.     *)
CallbackFails(c) ==
    /\ call[c].phase # "idle"
    /\ call' = [call EXCEPT ![c] = NoCall]
    /\ UNCHANGED <<directory, flow, starting, removing, opened, edits>>

-----------------------------------------------------------------------------
(* ADMINISTRATION                                                          *)
Edit ==
    /\ edits < MaxEdits
    /\ edits' = edits + 1
    /\ UNCHANGED <<flow, starting, call, opened>>

(* Provider ids are fresh: a deleted one, whose flows are gone, does not   *)
(* come back.                                                              *)
CreateOIDCProvider(p, row) ==
    /\ Edit
    /\ ~provider[p].exists /\ row.exists
    /\ \A f \in Flow : flow[f].provider # p /\ starting[f] # p
    /\ provider' = [provider EXCEPT ![p] = row]
    /\ UNCHANGED <<identity, account, address, removing>>

(* The whole row is replaced by the one sent.                              *)
UpdateOIDCProvider(p, row) ==
    /\ Edit
    /\ provider[p].exists /\ row.exists
    /\ provider' = [provider EXCEPT ![p] = row]
    /\ UNCHANGED <<identity, account, address, removing>>

(* deleteOIDC looks whether the provider is enabled, and deletes it in a   *)
(* transaction that does not look again.                                   *)
DeleteChecks(p) ==
    /\ provider[p].exists /\ ~provider[p].enabled
    /\ p \notin removing
    /\ removing' = removing \cup {p}
    /\ UNCHANGED <<directory, flow, starting, call, opened, edits>>

DeleteOIDCProvider(p) ==
    /\ p \in removing
    /\ removing' = removing \ {p}
    /\ provider' = [provider EXCEPT ![p] = NoRow]
    /\ identity' = [identity EXCEPT ![p] = [x \in Subject |-> "none"]]
    /\ flow' = [f \in Flow |->
                  IF flow[f].status # "none" /\ flow[f].provider = p
                  THEN Gone(f) ELSE flow[f]]
    /\ UNCHANGED <<account, address, starting, call, opened, edits>>

CreateUser(m, e) ==
    /\ Edit
    /\ account[m] = "none" /\ AddressFree(e)
    /\ account' = [account EXCEPT ![m] = "active"]
    /\ address' = [address EXCEPT ![m] = e]
    /\ UNCHANGED <<provider, identity, removing>>

UpdateUser(m, e, status) ==
    /\ Edit
    /\ account[m] # "none"
    /\ AddressFree(e) \/ address[m] = e
    /\ account' = [account EXCEPT ![m] = status]
    /\ address' = [address EXCEPT ![m] = e]
    /\ UNCHANGED <<provider, identity, removing>>

-----------------------------------------------------------------------------
Login(f) ==
    \/ \E p \in Provider : Start(f, p)
    \/ CreateFlow(f) \/ StartFails(f) \/ Expires(f)

CallbackStep(c) ==
    \/ \E f \in Flow, p \in Provider : ConsumeOIDCFlow(c, f, p)
    \/ OIDCProviderByID(c)
    \/ \E x \in Subject, e \in Email \cup {"none"} : Exchange(c, x, e)
    \/ ResolveKnown(c)
    \/ \E m \in Member : ResolveLink(c, m) \/ ResolveCreate(c, m)
    \/ EstablishSession(c) \/ CallbackFails(c)

Administration ==
    \/ \E p \in Provider, row \in Row :
          CreateOIDCProvider(p, row) \/ UpdateOIDCProvider(p, row)
    \/ \E p \in Provider : DeleteChecks(p) \/ DeleteOIDCProvider(p)
    \/ \E m \in Member, e \in Email :
          \/ CreateUser(m, e)
          \/ \E status \in {"active", "disabled"} : UpdateUser(m, e, status)

OidcNext ==
    \/ \E f \in Flow : Login(f)
    \/ PurgeExpiredOIDCFlows
    \/ \E c \in Callback : CallbackStep(c)
    \/ Administration

OidcSpec == OidcInit /\ [][OidcNext]_oidcVars

-----------------------------------------------------------------------------
(* SAFETY                                                                  *)

(* docs/architecture.md:71, a state is used once: a flow lets in one       *)
(* login, however often its callback is sent and at whatever time.         *)
Held(f) == {c \in Callback : call[c].flow = f}
OneLoginPerFlow == \A f \in Flow : opened[f] + Cardinality(Held(f)) <= 1

(* Callbacks of one person, also of a first login sent from two windows,   *)
(* end in the same account: resolving never makes a second user of a       *)
(* subject, whatever happened to the provider's row and to the addresses.  *)
SameSubjectSameUser ==
    \A c, d \in Callback :
        /\ call[c].phase = "resolved" /\ call[d].phase = "resolved"
        /\ call[c].provider = call[d].provider /\ call[c].sub = call[d].sub
        => call[c].user = call[d].user

(* Nothing refers to a provider that was deleted, although starts and      *)
(* callbacks go on with the row they have read.                            *)
NothingOfDeletedProviders ==
    \A p \in Provider : ~provider[p].exists =>
        /\ \A x \in Subject : identity[p][x] = "none"
        /\ \A f \in Flow :
              flow[f].status \in {"open", "expired"} => flow[f].provider # p
=============================================================================
