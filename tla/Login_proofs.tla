---------------------------- MODULE Login_proofs ----------------------------
(***************************************************************************)
(* Proofs about getting in: logins through providers, for any number of    *)
(* providers, flows, callbacks and users, and guesses against the rate     *)
(* limit, for any limits, clients, scopes and requests at a time.          *)
(***************************************************************************)
EXTENDS Oidc, RateLimit, FiniteSetTheorems, TLAPS

-----------------------------------------------------------------------------
(* LOGINS THROUGH PROVIDERS                                                *)

FlowRows == [status : {"none", "open", "expired", "gone"}, provider : Provider \cup {"none"}]
Calls == [phase : {"idle", "consumed", "known", "claimed", "resolved"},
          flow : Flow \cup {"none"}, provider : Provider \cup {"none"}, row : Row,
          sub : Subject \cup {"none"}, mail : Email \cup {"none"},
          user : Member \cup {"none"}]

OidcTypeOK ==
    /\ provider \in [Provider -> Row]
    /\ flow \in [Flow -> FlowRows]
    /\ identity \in [Provider -> [Subject -> Member \cup {"none"}]]
    /\ starting \in [Flow -> Provider \cup {"none"}]
    /\ call \in [Callback -> Calls]
    /\ opened \in [Flow -> Nat]

(* A login that is being started has no flow yet; a flow has a provider.   *)
FlowsAreNew ==
    \A f \in Flow :
        /\ starting[f] # "none" => flow[f] = NoFlow
        /\ flow[f].status # "none" => flow[f].provider \in Provider

(* A callback under way has consumed a flow of its provider.               *)
CallsConsumed ==
    \A c \in Callback :
        /\ call[c].phase = "idle" => call[c].flow = "none"
        /\ call[c].phase # "idle" =>
            /\ call[c].flow \in Flow
            /\ flow[call[c].flow].status = "gone"
            /\ flow[call[c].flow].provider = call[c].provider
        /\ call[c].phase \in {"claimed", "resolved"} => call[c].sub \in Subject
        /\ call[c].phase = "resolved" => call[c].user \in Member

(* A flow has one callback under way, or has opened one session, or        *)
(* neither.                                                                *)
UsedOnce ==
    \A f \in Flow :
        /\ flow[f].status # "gone" => opened[f] = 0
        /\ opened[f] \in {0, 1}
        /\ opened[f] = 1 => \A c \in Callback : call[c].flow # f
        /\ \A c, d \in Callback : call[c].flow = f /\ call[d].flow = f => c = d

(* Whoever a callback resolved is whom the identity names, as long as      *)
(* there is the provider, which is not created again.                      *)
ResolvedAsLinked ==
    \A c \in Callback : call[c].phase = "resolved" =>
        \/ identity[call[c].provider][call[c].sub] = call[c].user
        \/ ~provider[call[c].provider].exists

OidcInv == /\ OidcTypeOK /\ FlowsAreNew /\ CallsConsumed /\ UsedOnce
           /\ ResolvedAsLinked /\ SameSubjectSameUser /\ NothingOfDeletedProviders
-----------------------------------------------------------------------------
LEMMA InitOidc == OidcInit => OidcInv
<1> SUFFICES ASSUME OidcInit PROVE OidcInv
  OBVIOUS
<1>1. OidcTypeOK
  BY DEF OidcInit, OidcTypeOK, NoRow, NoFlow, NoCall, Row, FlowRows, Calls
<1>2. FlowsAreNew /\ CallsConsumed /\ UsedOnce
  BY OidcAssumption DEF OidcInit, FlowsAreNew, CallsConsumed, UsedOnce, NoFlow, NoCall
<1>3. ResolvedAsLinked /\ SameSubjectSameUser /\ NothingOfDeletedProviders
  BY DEF OidcInit, ResolvedAsLinked, SameSubjectSameUser, NothingOfDeletedProviders, NoRow, NoFlow, NoCall
<1> QED
  BY <1>1, <1>2, <1>3 DEF OidcInv

LEMMA CallWritten ==
    ASSUME call \in [Callback -> Calls], NEW c \in Callback, NEW x \in Calls,
           call' = [call EXCEPT ![c] = x]
    PROVE  call' \in [Callback -> Calls]
OBVIOUS

(* A step writes only what the columns admit.                              *)
LEMMA StepTypes ==
    ASSUME OidcTypeOK, FlowsAreNew, CallsConsumed, [OidcNext]_oidcVars
    PROVE  OidcTypeOK'
<1>1. ASSUME NEW f \in Flow, NEW p \in Provider, Start(f, p)
      PROVE  OidcTypeOK'
  BY <1>1 DEF Start, OidcTypeOK, FlowRows, Calls, Row, NoFlow, NoCall, NoRow, directory
<1>2. ASSUME NEW f \in Flow, CreateFlow(f)
      PROVE  OidcTypeOK'
  BY <1>2 DEF CreateFlow, OidcTypeOK, FlowRows, Calls, Row, NoFlow, NoCall, NoRow, directory
<1>3. ASSUME NEW f \in Flow, StartFails(f)
      PROVE  OidcTypeOK'
  BY <1>3 DEF StartFails, OidcTypeOK, FlowRows, Calls, Row, NoFlow, NoCall, NoRow, directory
<1>4. ASSUME NEW f \in Flow, Expires(f)
      PROVE  OidcTypeOK'
  BY <1>4 DEF Expires, OidcTypeOK, FlowRows, Calls, Row, NoFlow, NoCall, NoRow, directory
<1>5. CASE PurgeExpiredOIDCFlows
  BY <1>5 DEF PurgeExpiredOIDCFlows, Gone, OidcTypeOK, FlowRows, Calls, Row, NoFlow, NoCall, NoRow, directory
<1>6. ASSUME NEW c \in Callback, NEW f \in Flow, NEW p \in Provider, ConsumeOIDCFlow(c, f, p)
      PROVE  OidcTypeOK'
  <2>c. call \in [Callback -> Calls]
    BY DEF OidcTypeOK
  <2>1. call' \in [Callback -> Calls]
    <3>1. NoCall \in Calls
      BY DEF Calls, NoCall, Row, NoRow
    <3>2. [NoCall EXCEPT !.phase = "consumed", !.flow = f, !.provider = p] \in Calls
      BY <3>1 DEF Calls
    <3> DEFINE new == IF flow[f] = [status |-> "open", provider |-> p]
                      THEN [NoCall EXCEPT !.phase = "consumed", !.flow = f, !.provider = p]
                      ELSE NoCall
    <3>3. new \in Calls
      BY <3>1, <3>2
    <3>4. call' = [call EXCEPT ![c] = new]
      BY <1>6 DEF ConsumeOIDCFlow
    <3> HIDE DEF new
    <3> QED
      BY <3>3, <3>4, <2>c, CallWritten
  <2>2. /\ provider' \in [Provider -> Row] /\ flow' \in [Flow -> FlowRows]
        /\ identity' \in [Provider -> [Subject -> Member \cup {"none"}]]
    BY <1>6 DEF ConsumeOIDCFlow, Gone, OidcTypeOK, FlowRows, directory
  <2>3. starting' \in [Flow -> Provider \cup {"none"}] /\ opened' \in [Flow -> Nat]
    BY <1>6 DEF ConsumeOIDCFlow, Gone, OidcTypeOK
  <2> QED
    BY <2>1, <2>2, <2>3 DEF OidcTypeOK
<1>7. ASSUME NEW c \in Callback, OIDCProviderByID(c)
      PROVE  OidcTypeOK'
  <2>c. call \in [Callback -> Calls]
    BY DEF OidcTypeOK
  <2>1. call' \in [Callback -> Calls]
    <3>1. call' = [call EXCEPT ![c] = [call[c] EXCEPT !.phase = "known", !.row = provider[call[c].provider]]]
      BY <1>7, <2>c, Zenon DEF OIDCProviderByID
    <3>2. provider[call[c].provider] \in Row
      BY <1>7 DEF OIDCProviderByID, OidcTypeOK, FlowsAreNew, CallsConsumed
    <3>3. [call[c] EXCEPT !.phase = "known", !.row = provider[call[c].provider]] \in Calls
      BY <2>c, <3>2 DEF Calls
    <3> QED
      BY <2>c, <3>1, <3>3, CallWritten
  <2>2. /\ provider' \in [Provider -> Row] /\ flow' \in [Flow -> FlowRows]
        /\ identity' \in [Provider -> [Subject -> Member \cup {"none"}]]
    BY <1>7 DEF OIDCProviderByID, OidcTypeOK, FlowRows, directory
  <2>3. starting' \in [Flow -> Provider \cup {"none"}] /\ opened' \in [Flow -> Nat]
    BY <1>7 DEF OIDCProviderByID, OidcTypeOK
  <2> QED
    BY <2>1, <2>2, <2>3 DEF OidcTypeOK
<1>8. ASSUME NEW c \in Callback, NEW x \in Subject, NEW e \in Email \cup {"none"}, Exchange(c, x, e)
      PROVE  OidcTypeOK'
  <2>c. call \in [Callback -> Calls]
    BY DEF OidcTypeOK
  <2>1. call' \in [Callback -> Calls]
    <3>1. call' = [call EXCEPT ![c] = [call[c] EXCEPT !.phase = "claimed", !.sub = x, !.mail = e]]
      BY <1>8, <2>c, Zenon DEF Exchange
    <3>2. [call[c] EXCEPT !.phase = "claimed", !.sub = x, !.mail = e] \in Calls
      BY <1>8, <2>c DEF OidcTypeOK, Calls
    <3> QED
      BY <2>c, <3>1, <3>2, CallWritten
  <2>2. /\ provider' \in [Provider -> Row] /\ flow' \in [Flow -> FlowRows]
        /\ identity' \in [Provider -> [Subject -> Member \cup {"none"}]]
    BY <1>8 DEF Exchange, OidcTypeOK, FlowRows, directory
  <2>3. starting' \in [Flow -> Provider \cup {"none"}] /\ opened' \in [Flow -> Nat]
    BY <1>8 DEF Exchange, OidcTypeOK
  <2> QED
    BY <2>1, <2>2, <2>3 DEF OidcTypeOK
<1>9. ASSUME NEW c \in Callback, ResolveKnown(c)
      PROVE  OidcTypeOK'
  <2>c. call \in [Callback -> Calls]
    BY DEF OidcTypeOK
  <2>1. call' \in [Callback -> Calls]
    <3>1. call' = [call EXCEPT ![c] = [call[c] EXCEPT !.phase = "resolved", !.user = Linked(c)]]
      BY <1>9, <2>c, Zenon DEF ResolveKnown, Resolved
    <3>2. Linked(c) \in Member \cup {"none"}
      BY <1>9 DEF ResolveKnown, Linked, OidcTypeOK, FlowsAreNew, CallsConsumed
    <3>3. [call[c] EXCEPT !.phase = "resolved", !.user = Linked(c)] \in Calls
      BY <2>c, <3>2 DEF Calls
    <3> QED
      BY <2>c, <3>1, <3>3, CallWritten
  <2>2. /\ provider' \in [Provider -> Row] /\ flow' \in [Flow -> FlowRows]
        /\ identity' \in [Provider -> [Subject -> Member \cup {"none"}]]
    BY <1>9 DEF ResolveKnown, Resolved, Linked, OidcTypeOK, FlowRows, directory
  <2>3. starting' \in [Flow -> Provider \cup {"none"}] /\ opened' \in [Flow -> Nat]
    BY <1>9 DEF ResolveKnown, Resolved, Linked, OidcTypeOK
  <2> QED
    BY <2>1, <2>2, <2>3 DEF OidcTypeOK
<1>10. ASSUME NEW c \in Callback, NEW m \in Member, ResolveLink(c, m)
      PROVE  OidcTypeOK'
  <2>c. call \in [Callback -> Calls]
    BY DEF OidcTypeOK
  <2>1. call' \in [Callback -> Calls]
    <3>1. call' = [call EXCEPT ![c] = [call[c] EXCEPT !.phase = "resolved", !.user = m]]
      BY <1>10, <2>c, Zenon DEF ResolveLink, Resolved
    <3>2. [call[c] EXCEPT !.phase = "resolved", !.user = m] \in Calls
      BY <1>10, <2>c DEF OidcTypeOK, Calls
    <3> QED
      BY <2>c, <3>1, <3>2, CallWritten
  <2>2. /\ provider' \in [Provider -> Row] /\ flow' \in [Flow -> FlowRows]
        /\ identity' \in [Provider -> [Subject -> Member \cup {"none"}]]
    BY <1>10 DEF ResolveLink, InsertIdentity, Resolved, Linked, OidcTypeOK, FlowRows, directory
  <2>3. starting' \in [Flow -> Provider \cup {"none"}] /\ opened' \in [Flow -> Nat]
    BY <1>10 DEF ResolveLink, InsertIdentity, Resolved, Linked, OidcTypeOK
  <2> QED
    BY <2>1, <2>2, <2>3 DEF OidcTypeOK
<1>11. ASSUME NEW c \in Callback, NEW m \in Member, ResolveCreate(c, m)
      PROVE  OidcTypeOK'
  <2>c. call \in [Callback -> Calls]
    BY DEF OidcTypeOK
  <2>1. call' \in [Callback -> Calls]
    <3>1. call' = [call EXCEPT ![c] = [call[c] EXCEPT !.phase = "resolved", !.user = m]]
      BY <1>11, <2>c, Zenon DEF ResolveCreate, Resolved
    <3>2. [call[c] EXCEPT !.phase = "resolved", !.user = m] \in Calls
      BY <1>11, <2>c DEF OidcTypeOK, Calls
    <3> QED
      BY <2>c, <3>1, <3>2, CallWritten
  <2>2. /\ provider' \in [Provider -> Row] /\ flow' \in [Flow -> FlowRows]
        /\ identity' \in [Provider -> [Subject -> Member \cup {"none"}]]
    BY <1>11 DEF ResolveCreate, InsertIdentity, Resolved, Linked, OidcTypeOK, FlowRows, directory
  <2>3. starting' \in [Flow -> Provider \cup {"none"}] /\ opened' \in [Flow -> Nat]
    BY <1>11 DEF ResolveCreate, InsertIdentity, Resolved, Linked, OidcTypeOK
  <2> QED
    BY <2>1, <2>2, <2>3 DEF OidcTypeOK
<1>12. ASSUME NEW c \in Callback, EstablishSession(c)
      PROVE  OidcTypeOK'
  <2>c. call \in [Callback -> Calls]
    BY DEF OidcTypeOK
  <2>1. call' \in [Callback -> Calls]
    <3>1. NoCall \in Calls
      BY DEF Calls, NoCall, Row, NoRow
    <3> QED
      BY <1>12, <2>c, <3>1, CallWritten DEF EstablishSession
  <2>2. /\ provider' \in [Provider -> Row] /\ flow' \in [Flow -> FlowRows]
        /\ identity' \in [Provider -> [Subject -> Member \cup {"none"}]]
    BY <1>12 DEF EstablishSession, OidcTypeOK, FlowRows, directory
  <2>3. starting' \in [Flow -> Provider \cup {"none"}] /\ opened' \in [Flow -> Nat]
    BY <1>12 DEF EstablishSession, OidcTypeOK, CallsConsumed
  <2> QED
    BY <2>1, <2>2, <2>3 DEF OidcTypeOK
<1>13. ASSUME NEW c \in Callback, CallbackFails(c)
      PROVE  OidcTypeOK'
  <2>c. call \in [Callback -> Calls]
    BY DEF OidcTypeOK
  <2>1. call' \in [Callback -> Calls]
    <3>1. NoCall \in Calls
      BY DEF Calls, NoCall, Row, NoRow
    <3> QED
      BY <1>13, <2>c, <3>1, CallWritten DEF CallbackFails
  <2>2. /\ provider' \in [Provider -> Row] /\ flow' \in [Flow -> FlowRows]
        /\ identity' \in [Provider -> [Subject -> Member \cup {"none"}]]
    BY <1>13 DEF CallbackFails, OidcTypeOK, FlowRows, directory
  <2>3. starting' \in [Flow -> Provider \cup {"none"}] /\ opened' \in [Flow -> Nat]
    BY <1>13 DEF CallbackFails, OidcTypeOK
  <2> QED
    BY <2>1, <2>2, <2>3 DEF OidcTypeOK
<1>14. ASSUME NEW p \in Provider, NEW saved \in Row, CreateOIDCProvider(p, saved)
      PROVE  OidcTypeOK'
  BY <1>14 DEF CreateOIDCProvider, Edit, OidcTypeOK, FlowRows, Calls, Row, NoFlow, NoCall, NoRow, directory
<1>15. ASSUME NEW p \in Provider, NEW saved \in Row, UpdateOIDCProvider(p, saved)
      PROVE  OidcTypeOK'
  BY <1>15 DEF UpdateOIDCProvider, Edit, OidcTypeOK, FlowRows, Calls, Row, NoFlow, NoCall, NoRow, directory
<1>16. ASSUME NEW p \in Provider, DeleteChecks(p)
      PROVE  OidcTypeOK'
  BY <1>16 DEF DeleteChecks, OidcTypeOK, FlowRows, Calls, Row, NoFlow, NoCall, NoRow, directory
<1>17. ASSUME NEW p \in Provider, DeleteOIDCProvider(p)
      PROVE  OidcTypeOK'
  <2>1. flow' \in [Flow -> FlowRows]
    BY <1>17 DEF DeleteOIDCProvider, Gone, OidcTypeOK, FlowRows
  <2>2. provider' \in [Provider -> Row]
    BY <1>17 DEF DeleteOIDCProvider, OidcTypeOK, Row, NoRow
  <2>3. identity' \in [Provider -> [Subject -> Member \cup {"none"}]]
    BY <1>17 DEF DeleteOIDCProvider, OidcTypeOK
  <2> QED
    BY <1>17, <2>1, <2>2, <2>3 DEF DeleteOIDCProvider, OidcTypeOK
<1>18. ASSUME NEW m \in Member, NEW e \in Email, CreateUser(m, e)
      PROVE  OidcTypeOK'
  BY <1>18 DEF CreateUser, Edit, OidcTypeOK, FlowRows, Calls, Row, NoFlow, NoCall, NoRow, directory
<1>19. ASSUME NEW m \in Member, NEW e \in Email, NEW status \in {"active", "disabled"}, UpdateUser(m, e, status)
      PROVE  OidcTypeOK'
  BY <1>19 DEF UpdateUser, Edit, OidcTypeOK, FlowRows, Calls, Row, NoFlow, NoCall, NoRow, directory
<1>20. CASE UNCHANGED oidcVars
  BY <1>20 DEF oidcVars, OidcTypeOK, FlowRows, Calls, Row, NoFlow, NoCall, NoRow, directory
<1> QED
  BY <1>1, <1>2, <1>3, <1>4, <1>5, <1>6, <1>7, <1>8, <1>9, <1>10, <1>11, <1>12, <1>13, <1>14, <1>15, <1>16, <1>17, <1>18, <1>19, <1>20 DEF OidcNext, Login, CallbackStep, Administration

(* Flows are inserted once, with a provider.                               *)
LEMMA StepFlows ==
    ASSUME OidcTypeOK, FlowsAreNew, [OidcNext]_oidcVars
    PROVE  FlowsAreNew'
<1>1. ASSUME NEW f \in Flow, NEW p \in Provider, Start(f, p)
      PROVE  FlowsAreNew'
  BY <1>1, OidcAssumption DEF Start, OidcTypeOK, FlowRows, NoFlow, FlowsAreNew, directory
<1>2. ASSUME NEW f \in Flow, CreateFlow(f)
      PROVE  FlowsAreNew'
  BY <1>2, OidcAssumption DEF CreateFlow, OidcTypeOK, FlowRows, NoFlow, FlowsAreNew, directory
<1>3. ASSUME NEW f \in Flow, StartFails(f)
      PROVE  FlowsAreNew'
  BY <1>3, OidcAssumption DEF StartFails, OidcTypeOK, FlowRows, NoFlow, FlowsAreNew, directory
<1>4. ASSUME NEW f \in Flow, Expires(f)
      PROVE  FlowsAreNew'
  BY <1>4, OidcAssumption DEF Expires, OidcTypeOK, FlowRows, NoFlow, FlowsAreNew, directory
<1>5. CASE PurgeExpiredOIDCFlows
  BY <1>5, OidcAssumption DEF PurgeExpiredOIDCFlows, Gone, OidcTypeOK, FlowRows, NoFlow, FlowsAreNew, directory
<1>6. ASSUME NEW c \in Callback, NEW f \in Flow, NEW p \in Provider, ConsumeOIDCFlow(c, f, p)
      PROVE  FlowsAreNew'
  BY <1>6, OidcAssumption DEF ConsumeOIDCFlow, Gone, OidcTypeOK, FlowRows, NoFlow, FlowsAreNew, directory
<1>7. ASSUME NEW c \in Callback, OIDCProviderByID(c)
      PROVE  FlowsAreNew'
  BY <1>7, OidcAssumption DEF OIDCProviderByID, OidcTypeOK, FlowRows, NoFlow, FlowsAreNew, directory
<1>8. ASSUME NEW c \in Callback, NEW x \in Subject, NEW e \in Email \cup {"none"}, Exchange(c, x, e)
      PROVE  FlowsAreNew'
  BY <1>8, OidcAssumption DEF Exchange, OidcTypeOK, FlowRows, NoFlow, FlowsAreNew, directory
<1>9. ASSUME NEW c \in Callback, ResolveKnown(c)
      PROVE  FlowsAreNew'
  BY <1>9, OidcAssumption DEF ResolveKnown, Resolved, Linked, OidcTypeOK, FlowRows, NoFlow, FlowsAreNew, directory
<1>10. ASSUME NEW c \in Callback, NEW m \in Member, ResolveLink(c, m)
      PROVE  FlowsAreNew'
  BY <1>10, OidcAssumption DEF ResolveLink, InsertIdentity, Resolved, Linked, OidcTypeOK, FlowRows, NoFlow, FlowsAreNew, directory
<1>11. ASSUME NEW c \in Callback, NEW m \in Member, ResolveCreate(c, m)
      PROVE  FlowsAreNew'
  BY <1>11, OidcAssumption DEF ResolveCreate, InsertIdentity, Resolved, Linked, OidcTypeOK, FlowRows, NoFlow, FlowsAreNew, directory
<1>12. ASSUME NEW c \in Callback, EstablishSession(c)
      PROVE  FlowsAreNew'
  BY <1>12, OidcAssumption DEF EstablishSession, OidcTypeOK, FlowRows, NoFlow, FlowsAreNew, directory
<1>13. ASSUME NEW c \in Callback, CallbackFails(c)
      PROVE  FlowsAreNew'
  BY <1>13, OidcAssumption DEF CallbackFails, OidcTypeOK, FlowRows, NoFlow, FlowsAreNew, directory
<1>14. ASSUME NEW p \in Provider, NEW saved \in Row, CreateOIDCProvider(p, saved)
      PROVE  FlowsAreNew'
  BY <1>14, OidcAssumption DEF CreateOIDCProvider, Edit, OidcTypeOK, FlowRows, NoFlow, FlowsAreNew, directory
<1>15. ASSUME NEW p \in Provider, NEW saved \in Row, UpdateOIDCProvider(p, saved)
      PROVE  FlowsAreNew'
  BY <1>15, OidcAssumption DEF UpdateOIDCProvider, Edit, OidcTypeOK, FlowRows, NoFlow, FlowsAreNew, directory
<1>16. ASSUME NEW p \in Provider, DeleteChecks(p)
      PROVE  FlowsAreNew'
  BY <1>16, OidcAssumption DEF DeleteChecks, OidcTypeOK, FlowRows, NoFlow, FlowsAreNew, directory
<1>17. ASSUME NEW p \in Provider, DeleteOIDCProvider(p)
      PROVE  FlowsAreNew'
  BY <1>17, OidcAssumption DEF DeleteOIDCProvider, Gone, OidcTypeOK, FlowRows, NoFlow, FlowsAreNew, directory
<1>18. ASSUME NEW m \in Member, NEW e \in Email, CreateUser(m, e)
      PROVE  FlowsAreNew'
  BY <1>18, OidcAssumption DEF CreateUser, Edit, OidcTypeOK, FlowRows, NoFlow, FlowsAreNew, directory
<1>19. ASSUME NEW m \in Member, NEW e \in Email, NEW status \in {"active", "disabled"}, UpdateUser(m, e, status)
      PROVE  FlowsAreNew'
  BY <1>19, OidcAssumption DEF UpdateUser, Edit, OidcTypeOK, FlowRows, NoFlow, FlowsAreNew, directory
<1>20. CASE UNCHANGED oidcVars
  BY <1>20, OidcAssumption DEF oidcVars, OidcTypeOK, FlowRows, NoFlow, FlowsAreNew, directory
<1> QED
  BY <1>1, <1>2, <1>3, <1>4, <1>5, <1>6, <1>7, <1>8, <1>9, <1>10, <1>11, <1>12, <1>13, <1>14, <1>15, <1>16, <1>17, <1>18, <1>19, <1>20 DEF OidcNext, Login, CallbackStep, Administration

(* Callbacks go on with a flow that is gone.                               *)
LEMMA StepCalls ==
    ASSUME OidcTypeOK, FlowsAreNew, CallsConsumed, [OidcNext]_oidcVars
    PROVE  CallsConsumed'
<1>1. ASSUME NEW f \in Flow, NEW p \in Provider, Start(f, p)
      PROVE  CallsConsumed'
  BY <1>1, OidcAssumption DEF Start, OidcTypeOK, FlowRows, Calls, FlowsAreNew, CallsConsumed, NoFlow, NoCall, directory
<1>2. ASSUME NEW f \in Flow, CreateFlow(f)
      PROVE  CallsConsumed'
  BY <1>2, OidcAssumption DEF CreateFlow, OidcTypeOK, FlowRows, Calls, FlowsAreNew, CallsConsumed, NoFlow, NoCall, directory
<1>3. ASSUME NEW f \in Flow, StartFails(f)
      PROVE  CallsConsumed'
  BY <1>3, OidcAssumption DEF StartFails, OidcTypeOK, FlowRows, Calls, FlowsAreNew, CallsConsumed, NoFlow, NoCall, directory
<1>4. ASSUME NEW f \in Flow, Expires(f)
      PROVE  CallsConsumed'
  BY <1>4, OidcAssumption DEF Expires, OidcTypeOK, FlowRows, Calls, FlowsAreNew, CallsConsumed, NoFlow, NoCall, directory
<1>5. CASE PurgeExpiredOIDCFlows
  BY <1>5, OidcAssumption DEF PurgeExpiredOIDCFlows, Gone, OidcTypeOK, FlowRows, Calls, FlowsAreNew, CallsConsumed, NoFlow, NoCall, directory
<1>6. ASSUME NEW c \in Callback, NEW f \in Flow, NEW p \in Provider, ConsumeOIDCFlow(c, f, p)
      PROVE  CallsConsumed'
  BY <1>6, OidcAssumption DEF ConsumeOIDCFlow, Gone, OidcTypeOK, FlowRows, Calls, FlowsAreNew, CallsConsumed, NoFlow, NoCall, directory
<1>7. ASSUME NEW c \in Callback, OIDCProviderByID(c)
      PROVE  CallsConsumed'
  BY <1>7, OidcAssumption DEF OIDCProviderByID, OidcTypeOK, FlowRows, Calls, FlowsAreNew, CallsConsumed, NoFlow, NoCall, directory
<1>8. ASSUME NEW c \in Callback, NEW x \in Subject, NEW e \in Email \cup {"none"}, Exchange(c, x, e)
      PROVE  CallsConsumed'
  BY <1>8, OidcAssumption DEF Exchange, OidcTypeOK, FlowRows, Calls, FlowsAreNew, CallsConsumed, NoFlow, NoCall, directory
<1>9. ASSUME NEW c \in Callback, ResolveKnown(c)
      PROVE  CallsConsumed'
  BY <1>9, OidcAssumption DEF ResolveKnown, Resolved, Linked, OidcTypeOK, FlowRows, Calls, FlowsAreNew, CallsConsumed, NoFlow, NoCall, directory
<1>10. ASSUME NEW c \in Callback, NEW m \in Member, ResolveLink(c, m)
      PROVE  CallsConsumed'
  BY <1>10, OidcAssumption DEF ResolveLink, InsertIdentity, Resolved, Linked, OidcTypeOK, FlowRows, Calls, FlowsAreNew, CallsConsumed, NoFlow, NoCall, directory
<1>11. ASSUME NEW c \in Callback, NEW m \in Member, ResolveCreate(c, m)
      PROVE  CallsConsumed'
  BY <1>11, OidcAssumption DEF ResolveCreate, InsertIdentity, Resolved, Linked, OidcTypeOK, FlowRows, Calls, FlowsAreNew, CallsConsumed, NoFlow, NoCall, directory
<1>12. ASSUME NEW c \in Callback, EstablishSession(c)
      PROVE  CallsConsumed'
  BY <1>12, OidcAssumption DEF EstablishSession, OidcTypeOK, FlowRows, Calls, FlowsAreNew, CallsConsumed, NoFlow, NoCall, directory
<1>13. ASSUME NEW c \in Callback, CallbackFails(c)
      PROVE  CallsConsumed'
  BY <1>13, OidcAssumption DEF CallbackFails, OidcTypeOK, FlowRows, Calls, FlowsAreNew, CallsConsumed, NoFlow, NoCall, directory
<1>14. ASSUME NEW p \in Provider, NEW saved \in Row, CreateOIDCProvider(p, saved)
      PROVE  CallsConsumed'
  BY <1>14, OidcAssumption DEF CreateOIDCProvider, Edit, OidcTypeOK, FlowRows, Calls, FlowsAreNew, CallsConsumed, NoFlow, NoCall, directory
<1>15. ASSUME NEW p \in Provider, NEW saved \in Row, UpdateOIDCProvider(p, saved)
      PROVE  CallsConsumed'
  BY <1>15, OidcAssumption DEF UpdateOIDCProvider, Edit, OidcTypeOK, FlowRows, Calls, FlowsAreNew, CallsConsumed, NoFlow, NoCall, directory
<1>16. ASSUME NEW p \in Provider, DeleteChecks(p)
      PROVE  CallsConsumed'
  BY <1>16, OidcAssumption DEF DeleteChecks, OidcTypeOK, FlowRows, Calls, FlowsAreNew, CallsConsumed, NoFlow, NoCall, directory
<1>17. ASSUME NEW p \in Provider, DeleteOIDCProvider(p)
      PROVE  CallsConsumed'
  BY <1>17, OidcAssumption DEF DeleteOIDCProvider, Gone, OidcTypeOK, FlowRows, Calls, FlowsAreNew, CallsConsumed, NoFlow, NoCall, directory
<1>18. ASSUME NEW m \in Member, NEW e \in Email, CreateUser(m, e)
      PROVE  CallsConsumed'
  BY <1>18, OidcAssumption DEF CreateUser, Edit, OidcTypeOK, FlowRows, Calls, FlowsAreNew, CallsConsumed, NoFlow, NoCall, directory
<1>19. ASSUME NEW m \in Member, NEW e \in Email, NEW status \in {"active", "disabled"}, UpdateUser(m, e, status)
      PROVE  CallsConsumed'
  BY <1>19, OidcAssumption DEF UpdateUser, Edit, OidcTypeOK, FlowRows, Calls, FlowsAreNew, CallsConsumed, NoFlow, NoCall, directory
<1>20. CASE UNCHANGED oidcVars
  BY <1>20, OidcAssumption DEF oidcVars, OidcTypeOK, FlowRows, Calls, FlowsAreNew, CallsConsumed, NoFlow, NoCall, directory
<1> QED
  BY <1>1, <1>2, <1>3, <1>4, <1>5, <1>6, <1>7, <1>8, <1>9, <1>10, <1>11, <1>12, <1>13, <1>14, <1>15, <1>16, <1>17, <1>18, <1>19, <1>20 DEF OidcNext, Login, CallbackStep, Administration

(* Consuming a flow is what lets a callback in.                            *)
LEMMA StepUsed ==
    ASSUME OidcTypeOK, FlowsAreNew, CallsConsumed, UsedOnce, [OidcNext]_oidcVars
    PROVE  UsedOnce'
<1>1. ASSUME NEW f \in Flow, NEW p \in Provider, Start(f, p)
      PROVE  UsedOnce'
  BY <1>1, OidcAssumption DEF Start, OidcTypeOK, FlowRows, Calls, FlowsAreNew, CallsConsumed, UsedOnce, NoFlow, NoCall, directory
<1>2. ASSUME NEW f \in Flow, CreateFlow(f)
      PROVE  UsedOnce'
  BY <1>2, OidcAssumption DEF CreateFlow, OidcTypeOK, FlowRows, Calls, FlowsAreNew, CallsConsumed, UsedOnce, NoFlow, NoCall, directory
<1>3. ASSUME NEW f \in Flow, StartFails(f)
      PROVE  UsedOnce'
  BY <1>3, OidcAssumption DEF StartFails, OidcTypeOK, FlowRows, Calls, FlowsAreNew, CallsConsumed, UsedOnce, NoFlow, NoCall, directory
<1>4. ASSUME NEW f \in Flow, Expires(f)
      PROVE  UsedOnce'
  BY <1>4, OidcAssumption DEF Expires, OidcTypeOK, FlowRows, Calls, FlowsAreNew, CallsConsumed, UsedOnce, NoFlow, NoCall, directory
<1>5. CASE PurgeExpiredOIDCFlows
  BY <1>5, OidcAssumption DEF PurgeExpiredOIDCFlows, Gone, OidcTypeOK, FlowRows, Calls, FlowsAreNew, CallsConsumed, UsedOnce, NoFlow, NoCall, directory
<1>6. ASSUME NEW c \in Callback, NEW f \in Flow, NEW p \in Provider, ConsumeOIDCFlow(c, f, p)
      PROVE  UsedOnce'
  BY <1>6, OidcAssumption DEF ConsumeOIDCFlow, Gone, OidcTypeOK, FlowRows, Calls, FlowsAreNew, CallsConsumed, UsedOnce, NoFlow, NoCall, directory
<1>7. ASSUME NEW c \in Callback, OIDCProviderByID(c)
      PROVE  UsedOnce'
  BY <1>7, OidcAssumption DEF OIDCProviderByID, OidcTypeOK, FlowRows, Calls, FlowsAreNew, CallsConsumed, UsedOnce, NoFlow, NoCall, directory
<1>8. ASSUME NEW c \in Callback, NEW x \in Subject, NEW e \in Email \cup {"none"}, Exchange(c, x, e)
      PROVE  UsedOnce'
  BY <1>8, OidcAssumption DEF Exchange, OidcTypeOK, FlowRows, Calls, FlowsAreNew, CallsConsumed, UsedOnce, NoFlow, NoCall, directory
<1>9. ASSUME NEW c \in Callback, ResolveKnown(c)
      PROVE  UsedOnce'
  BY <1>9, OidcAssumption DEF ResolveKnown, Resolved, Linked, OidcTypeOK, FlowRows, Calls, FlowsAreNew, CallsConsumed, UsedOnce, NoFlow, NoCall, directory
<1>10. ASSUME NEW c \in Callback, NEW m \in Member, ResolveLink(c, m)
      PROVE  UsedOnce'
  BY <1>10, OidcAssumption DEF ResolveLink, InsertIdentity, Resolved, Linked, OidcTypeOK, FlowRows, Calls, FlowsAreNew, CallsConsumed, UsedOnce, NoFlow, NoCall, directory
<1>11. ASSUME NEW c \in Callback, NEW m \in Member, ResolveCreate(c, m)
      PROVE  UsedOnce'
  BY <1>11, OidcAssumption DEF ResolveCreate, InsertIdentity, Resolved, Linked, OidcTypeOK, FlowRows, Calls, FlowsAreNew, CallsConsumed, UsedOnce, NoFlow, NoCall, directory
<1>12. ASSUME NEW c \in Callback, EstablishSession(c)
      PROVE  UsedOnce'
  BY <1>12, OidcAssumption DEF EstablishSession, OidcTypeOK, FlowRows, Calls, FlowsAreNew, CallsConsumed, UsedOnce, NoFlow, NoCall, directory
<1>13. ASSUME NEW c \in Callback, CallbackFails(c)
      PROVE  UsedOnce'
  BY <1>13, OidcAssumption DEF CallbackFails, OidcTypeOK, FlowRows, Calls, FlowsAreNew, CallsConsumed, UsedOnce, NoFlow, NoCall, directory
<1>14. ASSUME NEW p \in Provider, NEW saved \in Row, CreateOIDCProvider(p, saved)
      PROVE  UsedOnce'
  BY <1>14, OidcAssumption DEF CreateOIDCProvider, Edit, OidcTypeOK, FlowRows, Calls, FlowsAreNew, CallsConsumed, UsedOnce, NoFlow, NoCall, directory
<1>15. ASSUME NEW p \in Provider, NEW saved \in Row, UpdateOIDCProvider(p, saved)
      PROVE  UsedOnce'
  BY <1>15, OidcAssumption DEF UpdateOIDCProvider, Edit, OidcTypeOK, FlowRows, Calls, FlowsAreNew, CallsConsumed, UsedOnce, NoFlow, NoCall, directory
<1>16. ASSUME NEW p \in Provider, DeleteChecks(p)
      PROVE  UsedOnce'
  BY <1>16, OidcAssumption DEF DeleteChecks, OidcTypeOK, FlowRows, Calls, FlowsAreNew, CallsConsumed, UsedOnce, NoFlow, NoCall, directory
<1>17. ASSUME NEW p \in Provider, DeleteOIDCProvider(p)
      PROVE  UsedOnce'
  BY <1>17, OidcAssumption DEF DeleteOIDCProvider, Gone, OidcTypeOK, FlowRows, Calls, FlowsAreNew, CallsConsumed, UsedOnce, NoFlow, NoCall, directory
<1>18. ASSUME NEW m \in Member, NEW e \in Email, CreateUser(m, e)
      PROVE  UsedOnce'
  BY <1>18, OidcAssumption DEF CreateUser, Edit, OidcTypeOK, FlowRows, Calls, FlowsAreNew, CallsConsumed, UsedOnce, NoFlow, NoCall, directory
<1>19. ASSUME NEW m \in Member, NEW e \in Email, NEW status \in {"active", "disabled"}, UpdateUser(m, e, status)
      PROVE  UsedOnce'
  BY <1>19, OidcAssumption DEF UpdateUser, Edit, OidcTypeOK, FlowRows, Calls, FlowsAreNew, CallsConsumed, UsedOnce, NoFlow, NoCall, directory
<1>20. CASE UNCHANGED oidcVars
  BY <1>20, OidcAssumption DEF oidcVars, OidcTypeOK, FlowRows, Calls, FlowsAreNew, CallsConsumed, UsedOnce, NoFlow, NoCall, directory
<1> QED
  BY <1>1, <1>2, <1>3, <1>4, <1>5, <1>6, <1>7, <1>8, <1>9, <1>10, <1>11, <1>12, <1>13, <1>14, <1>15, <1>16, <1>17, <1>18, <1>19, <1>20 DEF OidcNext, Login, CallbackStep, Administration

(* Resolving does not change who others were resolved to.                  *)
LEMMA StepResolved ==
    ASSUME OidcInv, [OidcNext]_oidcVars
    PROVE  ResolvedAsLinked'
<1>1. ASSUME NEW f \in Flow, NEW p \in Provider, Start(f, p)
      PROVE  ResolvedAsLinked'
  BY <1>1, OidcAssumption DEF Start, OidcInv, OidcTypeOK, FlowRows, Calls, FlowsAreNew, CallsConsumed, ResolvedAsLinked, NoFlow, NoCall, directory
<1>2. ASSUME NEW f \in Flow, CreateFlow(f)
      PROVE  ResolvedAsLinked'
  BY <1>2, OidcAssumption DEF CreateFlow, OidcInv, OidcTypeOK, FlowRows, Calls, FlowsAreNew, CallsConsumed, ResolvedAsLinked, NoFlow, NoCall, directory
<1>3. ASSUME NEW f \in Flow, StartFails(f)
      PROVE  ResolvedAsLinked'
  BY <1>3, OidcAssumption DEF StartFails, OidcInv, OidcTypeOK, FlowRows, Calls, FlowsAreNew, CallsConsumed, ResolvedAsLinked, NoFlow, NoCall, directory
<1>4. ASSUME NEW f \in Flow, Expires(f)
      PROVE  ResolvedAsLinked'
  BY <1>4, OidcAssumption DEF Expires, OidcInv, OidcTypeOK, FlowRows, Calls, FlowsAreNew, CallsConsumed, ResolvedAsLinked, NoFlow, NoCall, directory
<1>5. CASE PurgeExpiredOIDCFlows
  BY <1>5, OidcAssumption DEF PurgeExpiredOIDCFlows, Gone, OidcInv, OidcTypeOK, FlowRows, Calls, FlowsAreNew, CallsConsumed, ResolvedAsLinked, NoFlow, NoCall, directory
<1>6. ASSUME NEW c \in Callback, NEW f \in Flow, NEW p \in Provider, ConsumeOIDCFlow(c, f, p)
      PROVE  ResolvedAsLinked'
  BY <1>6, OidcAssumption DEF ConsumeOIDCFlow, Gone, OidcInv, OidcTypeOK, FlowRows, Calls, FlowsAreNew, CallsConsumed, ResolvedAsLinked, NoFlow, NoCall, directory
<1>7. ASSUME NEW c \in Callback, OIDCProviderByID(c)
      PROVE  ResolvedAsLinked'
  BY <1>7, OidcAssumption DEF OIDCProviderByID, OidcInv, OidcTypeOK, FlowRows, Calls, FlowsAreNew, CallsConsumed, ResolvedAsLinked, NoFlow, NoCall, directory
<1>8. ASSUME NEW c \in Callback, NEW x \in Subject, NEW e \in Email \cup {"none"}, Exchange(c, x, e)
      PROVE  ResolvedAsLinked'
  BY <1>8, OidcAssumption DEF Exchange, OidcInv, OidcTypeOK, FlowRows, Calls, FlowsAreNew, CallsConsumed, ResolvedAsLinked, NoFlow, NoCall, directory
<1>9. ASSUME NEW c \in Callback, ResolveKnown(c)
      PROVE  ResolvedAsLinked'
  BY <1>9, OidcAssumption DEF ResolveKnown, Resolved, Linked, OidcInv, OidcTypeOK, FlowRows, Calls, FlowsAreNew, CallsConsumed, ResolvedAsLinked, NoFlow, NoCall, directory
<1>10. ASSUME NEW c \in Callback, NEW m \in Member, ResolveLink(c, m)
      PROVE  ResolvedAsLinked'
  BY <1>10, OidcAssumption DEF ResolveLink, InsertIdentity, Resolved, Linked, OidcInv, OidcTypeOK, FlowRows, Calls, FlowsAreNew, CallsConsumed, ResolvedAsLinked, NoFlow, NoCall, directory
<1>11. ASSUME NEW c \in Callback, NEW m \in Member, ResolveCreate(c, m)
      PROVE  ResolvedAsLinked'
  BY <1>11, OidcAssumption DEF ResolveCreate, InsertIdentity, Resolved, Linked, OidcInv, OidcTypeOK, FlowRows, Calls, FlowsAreNew, CallsConsumed, ResolvedAsLinked, NoFlow, NoCall, directory
<1>12. ASSUME NEW c \in Callback, EstablishSession(c)
      PROVE  ResolvedAsLinked'
  BY <1>12, OidcAssumption DEF EstablishSession, OidcInv, OidcTypeOK, FlowRows, Calls, FlowsAreNew, CallsConsumed, ResolvedAsLinked, NoFlow, NoCall, directory
<1>13. ASSUME NEW c \in Callback, CallbackFails(c)
      PROVE  ResolvedAsLinked'
  BY <1>13, OidcAssumption DEF CallbackFails, OidcInv, OidcTypeOK, FlowRows, Calls, FlowsAreNew, CallsConsumed, ResolvedAsLinked, NoFlow, NoCall, directory
<1>14. ASSUME NEW p \in Provider, NEW saved \in Row, CreateOIDCProvider(p, saved)
      PROVE  ResolvedAsLinked'
  BY <1>14, OidcAssumption DEF CreateOIDCProvider, Edit, OidcInv, OidcTypeOK, FlowRows, Calls, FlowsAreNew, CallsConsumed, ResolvedAsLinked, NoFlow, NoCall, directory
<1>15. ASSUME NEW p \in Provider, NEW saved \in Row, UpdateOIDCProvider(p, saved)
      PROVE  ResolvedAsLinked'
  BY <1>15, OidcAssumption DEF UpdateOIDCProvider, Edit, OidcInv, OidcTypeOK, FlowRows, Calls, FlowsAreNew, CallsConsumed, ResolvedAsLinked, NoFlow, NoCall, directory
<1>16. ASSUME NEW p \in Provider, DeleteChecks(p)
      PROVE  ResolvedAsLinked'
  BY <1>16, OidcAssumption DEF DeleteChecks, OidcInv, OidcTypeOK, FlowRows, Calls, FlowsAreNew, CallsConsumed, ResolvedAsLinked, NoFlow, NoCall, directory
<1>17. ASSUME NEW p \in Provider, DeleteOIDCProvider(p)
      PROVE  ResolvedAsLinked'
  BY <1>17, OidcAssumption DEF DeleteOIDCProvider, Gone, NoRow, OidcInv, OidcTypeOK, FlowRows, Calls, FlowsAreNew, CallsConsumed, ResolvedAsLinked, NoFlow, NoCall, directory
<1>18. ASSUME NEW m \in Member, NEW e \in Email, CreateUser(m, e)
      PROVE  ResolvedAsLinked'
  BY <1>18, OidcAssumption DEF CreateUser, Edit, OidcInv, OidcTypeOK, FlowRows, Calls, FlowsAreNew, CallsConsumed, ResolvedAsLinked, NoFlow, NoCall, directory
<1>19. ASSUME NEW m \in Member, NEW e \in Email, NEW status \in {"active", "disabled"}, UpdateUser(m, e, status)
      PROVE  ResolvedAsLinked'
  BY <1>19, OidcAssumption DEF UpdateUser, Edit, OidcInv, OidcTypeOK, FlowRows, Calls, FlowsAreNew, CallsConsumed, ResolvedAsLinked, NoFlow, NoCall, directory
<1>20. CASE UNCHANGED oidcVars
  BY <1>20, OidcAssumption DEF oidcVars, OidcInv, OidcTypeOK, FlowRows, Calls, FlowsAreNew, CallsConsumed, ResolvedAsLinked, NoFlow, NoCall, directory
<1> QED
  BY <1>1, <1>2, <1>3, <1>4, <1>5, <1>6, <1>7, <1>8, <1>9, <1>10, <1>11, <1>12, <1>13, <1>14, <1>15, <1>16, <1>17, <1>18, <1>19, <1>20 DEF OidcNext, Login, CallbackStep, Administration

(* Nor to whom two of them were resolved.                                  *)
LEMMA StepSame ==
    ASSUME OidcInv, [OidcNext]_oidcVars
    PROVE  SameSubjectSameUser'
<1>1. ASSUME NEW f \in Flow, NEW p \in Provider, Start(f, p)
      PROVE  SameSubjectSameUser'
  BY <1>1, OidcAssumption DEF Start, OidcInv, OidcTypeOK, Calls, FlowsAreNew, CallsConsumed, ResolvedAsLinked, SameSubjectSameUser, NothingOfDeletedProviders, NoCall, directory
<1>2. ASSUME NEW f \in Flow, CreateFlow(f)
      PROVE  SameSubjectSameUser'
  BY <1>2, OidcAssumption DEF CreateFlow, OidcInv, OidcTypeOK, Calls, FlowsAreNew, CallsConsumed, ResolvedAsLinked, SameSubjectSameUser, NothingOfDeletedProviders, NoCall, directory
<1>3. ASSUME NEW f \in Flow, StartFails(f)
      PROVE  SameSubjectSameUser'
  BY <1>3, OidcAssumption DEF StartFails, OidcInv, OidcTypeOK, Calls, FlowsAreNew, CallsConsumed, ResolvedAsLinked, SameSubjectSameUser, NothingOfDeletedProviders, NoCall, directory
<1>4. ASSUME NEW f \in Flow, Expires(f)
      PROVE  SameSubjectSameUser'
  BY <1>4, OidcAssumption DEF Expires, OidcInv, OidcTypeOK, Calls, FlowsAreNew, CallsConsumed, ResolvedAsLinked, SameSubjectSameUser, NothingOfDeletedProviders, NoCall, directory
<1>5. CASE PurgeExpiredOIDCFlows
  BY <1>5, OidcAssumption DEF PurgeExpiredOIDCFlows, Gone, OidcInv, OidcTypeOK, Calls, FlowsAreNew, CallsConsumed, ResolvedAsLinked, SameSubjectSameUser, NothingOfDeletedProviders, NoCall, directory
<1>6. ASSUME NEW c \in Callback, NEW f \in Flow, NEW p \in Provider, ConsumeOIDCFlow(c, f, p)
      PROVE  SameSubjectSameUser'
  BY <1>6, OidcAssumption DEF ConsumeOIDCFlow, Gone, OidcInv, OidcTypeOK, Calls, FlowsAreNew, CallsConsumed, ResolvedAsLinked, SameSubjectSameUser, NothingOfDeletedProviders, NoCall, directory
<1>7. ASSUME NEW c \in Callback, OIDCProviderByID(c)
      PROVE  SameSubjectSameUser'
  BY <1>7, OidcAssumption DEF OIDCProviderByID, OidcInv, OidcTypeOK, Calls, FlowsAreNew, CallsConsumed, ResolvedAsLinked, SameSubjectSameUser, NothingOfDeletedProviders, NoCall, directory
<1>8. ASSUME NEW c \in Callback, NEW x \in Subject, NEW e \in Email \cup {"none"}, Exchange(c, x, e)
      PROVE  SameSubjectSameUser'
  BY <1>8, OidcAssumption DEF Exchange, OidcInv, OidcTypeOK, Calls, FlowsAreNew, CallsConsumed, ResolvedAsLinked, SameSubjectSameUser, NothingOfDeletedProviders, NoCall, directory
<1>9. ASSUME NEW c \in Callback, ResolveKnown(c)
      PROVE  SameSubjectSameUser'
  BY <1>9, OidcAssumption DEF ResolveKnown, Resolved, Linked, OidcInv, OidcTypeOK, Calls, FlowsAreNew, CallsConsumed, ResolvedAsLinked, SameSubjectSameUser, NothingOfDeletedProviders, NoCall, directory
<1>10. ASSUME NEW c \in Callback, NEW m \in Member, ResolveLink(c, m)
      PROVE  SameSubjectSameUser'
  BY <1>10, OidcAssumption DEF ResolveLink, InsertIdentity, Resolved, Linked, OidcInv, OidcTypeOK, Calls, FlowsAreNew, CallsConsumed, ResolvedAsLinked, SameSubjectSameUser, NothingOfDeletedProviders, NoCall, directory
<1>11. ASSUME NEW c \in Callback, NEW m \in Member, ResolveCreate(c, m)
      PROVE  SameSubjectSameUser'
  BY <1>11, OidcAssumption DEF ResolveCreate, InsertIdentity, Resolved, Linked, OidcInv, OidcTypeOK, Calls, FlowsAreNew, CallsConsumed, ResolvedAsLinked, SameSubjectSameUser, NothingOfDeletedProviders, NoCall, directory
<1>12. ASSUME NEW c \in Callback, EstablishSession(c)
      PROVE  SameSubjectSameUser'
  BY <1>12, OidcAssumption DEF EstablishSession, OidcInv, OidcTypeOK, Calls, FlowsAreNew, CallsConsumed, ResolvedAsLinked, SameSubjectSameUser, NothingOfDeletedProviders, NoCall, directory
<1>13. ASSUME NEW c \in Callback, CallbackFails(c)
      PROVE  SameSubjectSameUser'
  BY <1>13, OidcAssumption DEF CallbackFails, OidcInv, OidcTypeOK, Calls, FlowsAreNew, CallsConsumed, ResolvedAsLinked, SameSubjectSameUser, NothingOfDeletedProviders, NoCall, directory
<1>14. ASSUME NEW p \in Provider, NEW saved \in Row, CreateOIDCProvider(p, saved)
      PROVE  SameSubjectSameUser'
  BY <1>14, OidcAssumption DEF CreateOIDCProvider, Edit, OidcInv, OidcTypeOK, Calls, FlowsAreNew, CallsConsumed, ResolvedAsLinked, SameSubjectSameUser, NothingOfDeletedProviders, NoCall, directory
<1>15. ASSUME NEW p \in Provider, NEW saved \in Row, UpdateOIDCProvider(p, saved)
      PROVE  SameSubjectSameUser'
  BY <1>15, OidcAssumption DEF UpdateOIDCProvider, Edit, OidcInv, OidcTypeOK, Calls, FlowsAreNew, CallsConsumed, ResolvedAsLinked, SameSubjectSameUser, NothingOfDeletedProviders, NoCall, directory
<1>16. ASSUME NEW p \in Provider, DeleteChecks(p)
      PROVE  SameSubjectSameUser'
  BY <1>16, OidcAssumption DEF DeleteChecks, OidcInv, OidcTypeOK, Calls, FlowsAreNew, CallsConsumed, ResolvedAsLinked, SameSubjectSameUser, NothingOfDeletedProviders, NoCall, directory
<1>17. ASSUME NEW p \in Provider, DeleteOIDCProvider(p)
      PROVE  SameSubjectSameUser'
  BY <1>17, OidcAssumption DEF DeleteOIDCProvider, Gone, OidcInv, OidcTypeOK, Calls, FlowsAreNew, CallsConsumed, ResolvedAsLinked, SameSubjectSameUser, NothingOfDeletedProviders, NoCall, directory
<1>18. ASSUME NEW m \in Member, NEW e \in Email, CreateUser(m, e)
      PROVE  SameSubjectSameUser'
  BY <1>18, OidcAssumption DEF CreateUser, Edit, OidcInv, OidcTypeOK, Calls, FlowsAreNew, CallsConsumed, ResolvedAsLinked, SameSubjectSameUser, NothingOfDeletedProviders, NoCall, directory
<1>19. ASSUME NEW m \in Member, NEW e \in Email, NEW status \in {"active", "disabled"}, UpdateUser(m, e, status)
      PROVE  SameSubjectSameUser'
  BY <1>19, OidcAssumption DEF UpdateUser, Edit, OidcInv, OidcTypeOK, Calls, FlowsAreNew, CallsConsumed, ResolvedAsLinked, SameSubjectSameUser, NothingOfDeletedProviders, NoCall, directory
<1>20. CASE UNCHANGED oidcVars
  BY <1>20, OidcAssumption DEF oidcVars, OidcInv, OidcTypeOK, Calls, FlowsAreNew, CallsConsumed, ResolvedAsLinked, SameSubjectSameUser, NothingOfDeletedProviders, NoCall, directory
<1> QED
  BY <1>1, <1>2, <1>3, <1>4, <1>5, <1>6, <1>7, <1>8, <1>9, <1>10, <1>11, <1>12, <1>13, <1>14, <1>15, <1>16, <1>17, <1>18, <1>19, <1>20 DEF OidcNext, Login, CallbackStep, Administration

(* What refers to a provider is inserted while it exists.                  *)
LEMMA StepDeleted ==
    ASSUME OidcTypeOK, FlowsAreNew, CallsConsumed, NothingOfDeletedProviders, [OidcNext]_oidcVars
    PROVE  NothingOfDeletedProviders'
<1>1. ASSUME NEW f \in Flow, NEW p \in Provider, Start(f, p)
      PROVE  NothingOfDeletedProviders'
  BY <1>1, OidcAssumption DEF Start, OidcTypeOK, FlowRows, Calls, Row, FlowsAreNew, CallsConsumed, NothingOfDeletedProviders, NoFlow, NoCall, NoRow, directory
<1>2. ASSUME NEW f \in Flow, CreateFlow(f)
      PROVE  NothingOfDeletedProviders'
  BY <1>2, OidcAssumption DEF CreateFlow, OidcTypeOK, FlowRows, Calls, Row, FlowsAreNew, CallsConsumed, NothingOfDeletedProviders, NoFlow, NoCall, NoRow, directory
<1>3. ASSUME NEW f \in Flow, StartFails(f)
      PROVE  NothingOfDeletedProviders'
  BY <1>3, OidcAssumption DEF StartFails, OidcTypeOK, FlowRows, Calls, Row, FlowsAreNew, CallsConsumed, NothingOfDeletedProviders, NoFlow, NoCall, NoRow, directory
<1>4. ASSUME NEW f \in Flow, Expires(f)
      PROVE  NothingOfDeletedProviders'
  BY <1>4, OidcAssumption DEF Expires, OidcTypeOK, FlowRows, Calls, Row, FlowsAreNew, CallsConsumed, NothingOfDeletedProviders, NoFlow, NoCall, NoRow, directory
<1>5. CASE PurgeExpiredOIDCFlows
  BY <1>5, OidcAssumption DEF PurgeExpiredOIDCFlows, Gone, OidcTypeOK, FlowRows, Calls, Row, FlowsAreNew, CallsConsumed, NothingOfDeletedProviders, NoFlow, NoCall, NoRow, directory
<1>6. ASSUME NEW c \in Callback, NEW f \in Flow, NEW p \in Provider, ConsumeOIDCFlow(c, f, p)
      PROVE  NothingOfDeletedProviders'
  BY <1>6, OidcAssumption DEF ConsumeOIDCFlow, Gone, OidcTypeOK, FlowRows, Calls, Row, FlowsAreNew, CallsConsumed, NothingOfDeletedProviders, NoFlow, NoCall, NoRow, directory
<1>7. ASSUME NEW c \in Callback, OIDCProviderByID(c)
      PROVE  NothingOfDeletedProviders'
  BY <1>7, OidcAssumption DEF OIDCProviderByID, OidcTypeOK, FlowRows, Calls, Row, FlowsAreNew, CallsConsumed, NothingOfDeletedProviders, NoFlow, NoCall, NoRow, directory
<1>8. ASSUME NEW c \in Callback, NEW x \in Subject, NEW e \in Email \cup {"none"}, Exchange(c, x, e)
      PROVE  NothingOfDeletedProviders'
  BY <1>8, OidcAssumption DEF Exchange, OidcTypeOK, FlowRows, Calls, Row, FlowsAreNew, CallsConsumed, NothingOfDeletedProviders, NoFlow, NoCall, NoRow, directory
<1>9. ASSUME NEW c \in Callback, ResolveKnown(c)
      PROVE  NothingOfDeletedProviders'
  BY <1>9, OidcAssumption DEF ResolveKnown, Resolved, Linked, OidcTypeOK, FlowRows, Calls, Row, FlowsAreNew, CallsConsumed, NothingOfDeletedProviders, NoFlow, NoCall, NoRow, directory
<1>10. ASSUME NEW c \in Callback, NEW m \in Member, ResolveLink(c, m)
      PROVE  NothingOfDeletedProviders'
  BY <1>10, OidcAssumption DEF ResolveLink, InsertIdentity, Resolved, Linked, OidcTypeOK, FlowRows, Calls, Row, FlowsAreNew, CallsConsumed, NothingOfDeletedProviders, NoFlow, NoCall, NoRow, directory
<1>11. ASSUME NEW c \in Callback, NEW m \in Member, ResolveCreate(c, m)
      PROVE  NothingOfDeletedProviders'
  BY <1>11, OidcAssumption DEF ResolveCreate, InsertIdentity, Resolved, Linked, OidcTypeOK, FlowRows, Calls, Row, FlowsAreNew, CallsConsumed, NothingOfDeletedProviders, NoFlow, NoCall, NoRow, directory
<1>12. ASSUME NEW c \in Callback, EstablishSession(c)
      PROVE  NothingOfDeletedProviders'
  BY <1>12, OidcAssumption DEF EstablishSession, OidcTypeOK, FlowRows, Calls, Row, FlowsAreNew, CallsConsumed, NothingOfDeletedProviders, NoFlow, NoCall, NoRow, directory
<1>13. ASSUME NEW c \in Callback, CallbackFails(c)
      PROVE  NothingOfDeletedProviders'
  BY <1>13, OidcAssumption DEF CallbackFails, OidcTypeOK, FlowRows, Calls, Row, FlowsAreNew, CallsConsumed, NothingOfDeletedProviders, NoFlow, NoCall, NoRow, directory
<1>14. ASSUME NEW p \in Provider, NEW saved \in Row, CreateOIDCProvider(p, saved)
      PROVE  NothingOfDeletedProviders'
  BY <1>14, OidcAssumption DEF CreateOIDCProvider, Edit, OidcTypeOK, FlowRows, Calls, Row, FlowsAreNew, CallsConsumed, NothingOfDeletedProviders, NoFlow, NoCall, NoRow, directory
<1>15. ASSUME NEW p \in Provider, NEW saved \in Row, UpdateOIDCProvider(p, saved)
      PROVE  NothingOfDeletedProviders'
  BY <1>15, OidcAssumption DEF UpdateOIDCProvider, Edit, OidcTypeOK, FlowRows, Calls, Row, FlowsAreNew, CallsConsumed, NothingOfDeletedProviders, NoFlow, NoCall, NoRow, directory
<1>16. ASSUME NEW p \in Provider, DeleteChecks(p)
      PROVE  NothingOfDeletedProviders'
  BY <1>16, OidcAssumption DEF DeleteChecks, OidcTypeOK, FlowRows, Calls, Row, FlowsAreNew, CallsConsumed, NothingOfDeletedProviders, NoFlow, NoCall, NoRow, directory
<1>17. ASSUME NEW p \in Provider, DeleteOIDCProvider(p)
      PROVE  NothingOfDeletedProviders'
  BY <1>17, OidcAssumption DEF DeleteOIDCProvider, Gone, OidcTypeOK, FlowRows, Calls, Row, FlowsAreNew, CallsConsumed, NothingOfDeletedProviders, NoFlow, NoCall, NoRow, directory
<1>18. ASSUME NEW m \in Member, NEW e \in Email, CreateUser(m, e)
      PROVE  NothingOfDeletedProviders'
  BY <1>18, OidcAssumption DEF CreateUser, Edit, OidcTypeOK, FlowRows, Calls, Row, FlowsAreNew, CallsConsumed, NothingOfDeletedProviders, NoFlow, NoCall, NoRow, directory
<1>19. ASSUME NEW m \in Member, NEW e \in Email, NEW status \in {"active", "disabled"}, UpdateUser(m, e, status)
      PROVE  NothingOfDeletedProviders'
  BY <1>19, OidcAssumption DEF UpdateUser, Edit, OidcTypeOK, FlowRows, Calls, Row, FlowsAreNew, CallsConsumed, NothingOfDeletedProviders, NoFlow, NoCall, NoRow, directory
<1>20. CASE UNCHANGED oidcVars
  BY <1>20, OidcAssumption DEF oidcVars, OidcTypeOK, FlowRows, Calls, Row, FlowsAreNew, CallsConsumed, NothingOfDeletedProviders, NoFlow, NoCall, NoRow, directory
<1> QED
  BY <1>1, <1>2, <1>3, <1>4, <1>5, <1>6, <1>7, <1>8, <1>9, <1>10, <1>11, <1>12, <1>13, <1>14, <1>15, <1>16, <1>17, <1>18, <1>19, <1>20 DEF OidcNext, Login, CallbackStep, Administration

LEMMA StepOidc == ASSUME OidcInv, [OidcNext]_oidcVars PROVE OidcInv'
<1>1. OidcTypeOK' /\ FlowsAreNew' /\ CallsConsumed'
  BY StepTypes, StepFlows, StepCalls DEF OidcInv
<1>2. UsedOnce' /\ ResolvedAsLinked' /\ SameSubjectSameUser' /\ NothingOfDeletedProviders'
  BY StepUsed, StepResolved, StepSame, StepDeleted DEF OidcInv
<1> QED
  BY <1>1, <1>2 DEF OidcInv

LEMMA OidcInductive == OidcSpec => []OidcInv
<1>1. OidcInit => OidcInv
  BY InitOidc
<1>2. OidcInv /\ [OidcNext]_oidcVars => OidcInv'
  BY StepOidc
<1> QED
  BY <1>1, <1>2, PTL DEF OidcSpec

(* The callbacks that hold a flow are at most one.                         *)
LEMMA AtMostOneHeld ==
    ASSUME UsedOnce, CallsConsumed, NEW f \in Flow
    PROVE  opened[f] + Cardinality(Held(f)) <= 1
<1>1. CASE Held(f) = {}
  BY <1>1, FS_EmptySet DEF UsedOnce
<1>2. CASE Held(f) # {}
  <2>1. PICK c \in Held(f) : TRUE
    BY <1>2
  <2>2. Held(f) = {c}
    BY <2>1 DEF Held, UsedOnce
  <2>3. Cardinality(Held(f)) = 1
    BY <2>2, FS_Singleton
  <2>4. opened[f] = 0
    BY <2>1 DEF Held, UsedOnce
  <2> QED
    BY <2>3, <2>4
<1> QED
  BY <1>1, <1>2

(* A flow lets in one login, however often and at whatever time its        *)
(* callback is sent.                                                       *)
THEOREM FlowsAreUsedOnce == OidcSpec => []OneLoginPerFlow
<1>1. OidcInv => OneLoginPerFlow
  BY AtMostOneHeld DEF OidcInv, OneLoginPerFlow
<1> QED
  BY <1>1, OidcInductive, PTL

(* Callbacks of one subject are resolved to the same user.                 *)
THEOREM SubjectsHaveOneUser == OidcSpec => []SameSubjectSameUser
<1>1. OidcInv => SameSubjectSameUser
  BY DEF OidcInv
<1> QED
  BY <1>1, OidcInductive, PTL

(* No identity and no flow that could be used is left of a provider that   *)
(* was deleted.                                                            *)
THEOREM NothingIsLeftOfProviders == OidcSpec => []NothingOfDeletedProviders
<1>1. OidcInv => NothingOfDeletedProviders
  BY DEF OidcInv
<1> QED
  BY <1>1, OidcInductive, PTL

-----------------------------------------------------------------------------
(* THE RATE LIMIT                                                          *)

(* The requests whose failure may still be counted for a scope.            *)
Pending(k) ==
    {r \in Request :
        IF k \in Client
        THEN from[r] = k /\ stage[r] \in {"asked", "admitted", "wrong"}
        ELSE stage[r] \in {"admitted", "wrong", "counted"}}

RowsExist == row = [k \in Scope |-> row[k]]

RequestsHaveClients ==
    \A r \in Request : stage[r] # "idle" => from[r] \in Client

(* While failures are counted, the row counts all of them; when the ban    *)
(* falls it starts again.                                                  *)
CountsAgree ==
    \A k \in Scope :
        /\ row[k].until # 0 => row[k].failures = 0
        /\ row[k].until = 0 /\ ~Over(row[k].since, Window)
              => guesses[k] = row[k].failures

(* During a ban only requests that were past the question still count.     *)
PendingCounts ==
    \A k \in Scope :
        Banned(k) => guesses[k] + Cardinality(Pending(k))
                        <= Limit(k) + Cardinality(Request) - 1

LimitInv ==
    /\ LimitTypeOK
    /\ RowsExist
    /\ RequestsHaveClients
    /\ CountsAgree
    /\ PendingCounts
    /\ GuessesBounded

-----------------------------------------------------------------------------
LEMMA LimitFacts ==
    /\ ClientLimit \in Nat \ {0} /\ ShareLimit \in Nat \ {0}
    /\ Ban \in Nat \ {0} /\ LongBan \in Nat \ {0} /\ Ban <= LongBan
    /\ \A k : Limit(k) \in Nat \ {0}
    /\ Cardinality(Request) \in Nat
    /\ Request # {} => Cardinality(Request) # 0
<1>1. Cardinality(Request) \in Nat /\ (Request # {} => Cardinality(Request) # 0)
  BY LimitAssumption, FS_EmptySet, FS_CardinalityType
<1>2. QED
  BY <1>1, LimitAssumption DEF Limit

LEMMA RowFacts ==
    ASSUME LimitTypeOK, NEW k \in Scope
    PROVE  /\ row[k].failures \in 0..(Limit(k) - 1)
           /\ row[k].until \in Nat
           /\ row[k].until <= now + LongBan
           /\ row[k].bans \in Nat
           /\ row[k].since = None \/ row[k].since \in 0..now
           /\ row[k].first = None \/ row[k].first \in 0..now
           /\ now \in Nat
           /\ guesses[k] \in Nat
<1>1. now \in Nat /\ guesses[k] \in Nat
  BY LimitAssumption DEF LimitTypeOK
<1>2. CASE row[k] = NoRecord
  BY <1>1, <1>2, LimitFacts DEF NoRecord
<1>3. CASE row[k] # NoRecord
  BY <1>1, <1>3, LimitFacts DEF LimitTypeOK
<1>4. QED
  BY <1>2, <1>3

(* What RecordFailure writes, and what it does to the count of guesses.    *)
LEMMA CountedFacts ==
    ASSUME LimitInv, NEW k \in Scope, ~Banned(k)
    PROVE  LET c == Counted(k)
               g == IF SameCount(k) THEN guesses[k] + 1 ELSE 1
           IN  /\ c.failures \in 0..(Limit(k) - 1)
               /\ c.since \in 0..now
               /\ c.first \in 0..now
               /\ c.bans \in Nat
               /\ c.until \in 0..(now + LongBan)
               /\ c.until # 0 => c.failures = 0
               /\ c.until = 0 => g = c.failures
               /\ g \in Nat /\ g <= Limit(k)
<1> DEFINE fresh == Over(row[k].since, Window)
           forgotten == Over(row[k].first, History)
           failures == (IF fresh THEN 0 ELSE row[k].failures) + 1
           bans == IF forgotten THEN 0 ELSE row[k].bans
           full == failures >= Limit(k)
           length == IF k \in Client /\ bans + 1 >= EscalateAfter THEN LongBan ELSE Ban
           c == Counted(k)
           g == IF SameCount(k) THEN guesses[k] + 1 ELSE 1
<1>1. /\ row[k].failures \in 0..(Limit(k) - 1)
      /\ row[k].bans \in Nat
      /\ now \in Nat
      /\ guesses[k] \in Nat
      /\ Limit(k) \in Nat \ {0}
  BY RowFacts, LimitFacts DEF LimitInv
<1>2. /\ c.failures = IF full THEN 0 ELSE failures
      /\ c.since = IF fresh \/ full THEN now ELSE row[k].since
      /\ c.bans = IF full THEN bans + 1 ELSE bans
      /\ c.first = IF forgotten THEN now ELSE row[k].first
      /\ c.until = IF full THEN now + length ELSE 0
  BY DEF Counted
<1>3. /\ fresh \/ row[k].since \in 0..now
      /\ forgotten \/ row[k].first \in 0..now
  BY RowFacts DEF LimitInv, Over
<1>4. SameCount(k) <=> (row[k].until = 0 /\ ~fresh)
  BY DEF SameCount
<1>5. /\ row[k].until # 0 => row[k].failures = 0
      /\ row[k].until = 0 /\ ~fresh => guesses[k] = row[k].failures
  BY DEF LimitInv, CountsAgree
<1>6. length \in Nat \ {0} /\ length <= LongBan
  BY LimitFacts
<1> HIDE DEF c, fresh, forgotten, length
<1>7. failures \in 1..Limit(k) /\ bans \in Nat
  BY <1>1
<1>8. g = failures
  BY <1>1, <1>4, <1>5
<1> HIDE DEF failures, bans, g
<1>9. /\ c.failures \in 0..(Limit(k) - 1)
      /\ c.since \in 0..now
      /\ c.first \in 0..now
      /\ c.bans \in Nat
      /\ c.until \in 0..(now + LongBan)
      /\ c.until # 0 => c.failures = 0
      /\ c.until = 0 => g = c.failures
      /\ g \in Nat /\ g <= Limit(k)
  BY <1>1, <1>2, <1>3, <1>6, <1>7, <1>8, LimitFacts
<1> QED
  BY <1>9 DEF c, g

-----------------------------------------------------------------------------
(* A failure recorded for a scope: what it leaves true of all rows, and    *)
(* the two ways in which it counts.                                        *)
RowsHold ==
    /\ \A k \in Scope :
          \/ row[k] = NoRecord
          \/ /\ row[k].failures \in 0..(Limit(k) - 1)
             /\ row[k].since \in 0..now
             /\ row[k].first \in 0..now
             /\ row[k].bans \in Nat
             /\ row[k].until \in 0..(now + LongBan)
    /\ guesses \in [Scope -> Nat]
    /\ RowsExist
    /\ CountsAgree

OthersStay(k) ==
    \A j \in Scope \ {k} : row'[j] = row[j] /\ guesses'[j] = guesses[j]

LEMMA RecordHolds ==
    ASSUME LimitInv, now' = now, NEW k \in Scope, RecordFailure(k)
    PROVE  /\ RowsHold'
           /\ OthersStay(k)
           /\ \/ Banned(k) /\ row'[k] = row[k] /\ guesses'[k] = guesses[k] + 1
              \/ ~Banned(k) /\ guesses'[k] <= Limit(k)
<1> DEFINE g == IF SameCount(k) THEN guesses[k] + 1 ELSE 1
<1>1. /\ guesses' = [guesses EXCEPT ![k] = g]
      /\ guesses \in [Scope -> Nat]
      /\ guesses[k] \in Nat
  BY DEF RecordFailure, Tally, LimitInv, LimitTypeOK
<1>2. g \in Nat
  BY <1>1
<1>3. CASE Banned(k)
  <2>1. row' = row /\ g = guesses[k] + 1
    BY <1>3 DEF RecordFailure, SameCount
  <2>2. row[k].until # 0
    BY <1>3, RowFacts DEF Banned, LimitInv
  <2>3. /\ guesses' \in [Scope -> Nat]
        /\ guesses'[k] = guesses[k] + 1
        /\ \A j \in Scope \ {k} : guesses'[j] = guesses[j]
    BY <1>1, <1>2, <2>1
  <2> HIDE DEF g
  <2>4. RowsExist' /\ OthersStay(k)
    BY <2>1, <2>3 DEF LimitInv, RowsExist, OthersStay
  <2>5. CountsAgree'
    BY <2>1, <2>2, <2>3 DEF LimitInv, CountsAgree, Over
  <2>6. QED
    BY <1>3, <2>1, <2>3, <2>4, <2>5 DEF RowsHold, LimitInv, LimitTypeOK
<1>4. CASE ~Banned(k)
  <2>1. row' = [row EXCEPT ![k] = Counted(k)]
    BY <1>4 DEF RecordFailure
  <2>2. /\ row'[k] = Counted(k)
        /\ \A j \in Scope \ {k} : row'[j] = row[j]
        /\ RowsExist'
    BY <2>1 DEF LimitInv, RowsExist
  <2>3. /\ guesses' \in [Scope -> Nat]
        /\ guesses'[k] = g
        /\ \A j \in Scope \ {k} : guesses'[j] = guesses[j]
    BY <1>1, <1>2
  <2>4. /\ row'[k].failures \in 0..(Limit(k) - 1)
        /\ row'[k].since \in 0..now
        /\ row'[k].first \in 0..now
        /\ row'[k].bans \in Nat
        /\ row'[k].until \in 0..(now + LongBan)
        /\ row'[k].until # 0 => row'[k].failures = 0
        /\ row'[k].until = 0 => guesses'[k] = row'[k].failures
        /\ guesses'[k] <= Limit(k)
    BY <1>4, <2>2, <2>3, CountedFacts
  <2> HIDE DEF g
  <2>5. CountsAgree'
    BY <2>2, <2>3, <2>4 DEF LimitInv, CountsAgree, Over
  <2>6. ASSUME NEW j \in Scope
        PROVE  \/ row'[j] = NoRecord
               \/ /\ row'[j].failures \in 0..(Limit(j) - 1)
                  /\ row'[j].since \in 0..now'
                  /\ row'[j].first \in 0..now'
                  /\ row'[j].bans \in Nat
                  /\ row'[j].until \in 0..(now' + LongBan)
    <3>1. CASE j = k
      BY <3>1, <2>4
    <3>2. CASE j # k
      BY <3>2, <2>2 DEF LimitInv, LimitTypeOK
    <3>3. QED
      BY <3>1, <3>2
  <2>7. RowsHold'
    BY <2>2, <2>3, <2>5, <2>6 DEF RowsHold, NoRecord, Limit
  <2>8. QED
    BY <1>4, <2>2, <2>3, <2>4, <2>7 DEF OthersStay
<1>5. QED
  BY <1>3, <1>4

(* A scope's row and count stay and nobody joins its pending requests; or  *)
(* one of them is counted; or the ban is new, and who set it is not among  *)
(* them any more; or there is no ban.                                      *)
CountsOn(k) ==
    \/ /\ row'[k] = row[k] /\ guesses'[k] = guesses[k] /\ now' = now
       /\ Banned(k) => Pending(k)' \subseteq Pending(k)
    \/ \E r \in Pending(k) :
          /\ Banned(k) /\ row'[k] = row[k] /\ now' = now
          /\ guesses'[k] = guesses[k] + 1
          /\ Pending(k)' \subseteq Pending(k) \ {r}
    \/ \E r \in Request :
          guesses'[k] <= Limit(k) /\ Pending(k)' \subseteq Request \ {r}

LEMMA PendingFinite ==
    \A k : /\ IsFiniteSet(Pending(k)) /\ IsFiniteSet(Pending(k)')
           /\ Cardinality(Pending(k)) \in Nat /\ Cardinality(Pending(k)') \in Nat
<1> SUFFICES ASSUME NEW k
             PROVE  /\ IsFiniteSet(Pending(k)) /\ IsFiniteSet(Pending(k)')
                    /\ Cardinality(Pending(k)) \in Nat
                    /\ Cardinality(Pending(k)') \in Nat
  OBVIOUS
<1>1. Pending(k) \in SUBSET Request /\ Pending(k)' \in SUBSET Request
  BY DEF Pending
<1>2. IsFiniteSet(Pending(k)) /\ IsFiniteSet(Pending(k)')
  BY <1>1, LimitAssumption, FS_Subset
<1>3. QED
  BY <1>2, FS_CardinalityType

(* A set within another that lacks one of its members is smaller.          *)
LEMMA OneLess ==
    ASSUME NEW S, NEW T, NEW r \in T, IsFiniteSet(T), S \subseteq T \ {r}
    PROVE  Cardinality(S) <= Cardinality(T) - 1
<1>1. IsFiniteSet(T \ {r}) /\ Cardinality(T \ {r}) = Cardinality(T) - 1
  BY FS_RemoveElement
<1>2. S \in SUBSET (T \ {r})
  OBVIOUS
<1>3. QED
  BY <1>1, <1>2, FS_Subset

LEMMA CountsOnHolds ==
    ASSUME LimitInv, NEW k \in Scope, CountsOn(k), guesses'[k] \in Nat
    PROVE  /\ guesses'[k] <= Limit(k) + Cardinality(Request) - 1
           /\ Banned(k)' => guesses'[k] + Cardinality(Pending(k)')
                              <= Limit(k) + Cardinality(Request) - 1
<1> DEFINE N == Cardinality(Request)
           P == Cardinality(Pending(k))
           Q == Cardinality(Pending(k)')
<1>1. /\ N \in Nat /\ P \in Nat /\ Q \in Nat /\ Limit(k) \in Nat
      /\ guesses[k] \in Nat
      /\ guesses[k] <= Limit(k) + N - 1
      /\ Banned(k) => guesses[k] + P <= Limit(k) + N - 1
  BY PendingFinite, LimitFacts, RowFacts DEF LimitInv, PendingCounts, GuessesBounded
<1>2. CASE /\ row'[k] = row[k] /\ guesses'[k] = guesses[k] /\ now' = now
           /\ Banned(k) => Pending(k)' \subseteq Pending(k)
  <2>1. Banned(k)' <=> Banned(k)
    BY <1>2 DEF Banned
  <2>2. Banned(k) => Pending(k)' \in SUBSET Pending(k)
    BY <1>2
  <2>3. Banned(k) => Q <= P
    BY <2>2, PendingFinite, FS_Subset
  <2> HIDE DEF N, P, Q
  <2>4. QED
    BY <1>1, <1>2, <2>1, <2>3 DEF N, Q
<1>3. ASSUME NEW r \in Pending(k), Banned(k), guesses'[k] = guesses[k] + 1,
             Pending(k)' \subseteq Pending(k) \ {r}
      PROVE  /\ guesses'[k] <= Limit(k) + N - 1
             /\ guesses'[k] + Q <= Limit(k) + N - 1
  <2>1. Q <= P - 1
    BY <1>3, PendingFinite, OneLess
  <2> HIDE DEF N, P, Q
  <2>2. QED
    BY <1>1, <1>3, <2>1
<1>4. ASSUME NEW r \in Request, guesses'[k] <= Limit(k),
             Pending(k)' \subseteq Request \ {r}
      PROVE  /\ guesses'[k] <= Limit(k) + N - 1
             /\ guesses'[k] + Q <= Limit(k) + N - 1
  <2>1. Q <= N - 1
    BY <1>4, LimitAssumption, OneLess
  <2> HIDE DEF N, P, Q
  <2>2. QED
    BY <1>1, <1>4, <2>1
<1>5. QED
  BY <1>2, <1>3, <1>4 DEF CountsOn

-----------------------------------------------------------------------------
LEMMA LimitInitInv == LimitInit => LimitInv
<1> SUFFICES ASSUME LimitInit
             PROVE  LimitInv
  OBVIOUS
<1>1. /\ now = 0
      /\ row = [k \in Scope |-> NoRecord]
      /\ guesses = [k \in Scope |-> 0]
      /\ from = [r \in Request |-> None]
      /\ stage = [r \in Request |-> "idle"]
  BY DEF LimitInit
<1>2. \A k \in Scope : row[k] = NoRecord /\ guesses[k] = 0 /\ ~Banned(k)
  BY <1>1 DEF Banned, NoRecord
<1>3. LimitTypeOK
  BY <1>1, <1>2, LimitAssumption DEF LimitTypeOK
<1>4. RowsExist /\ RequestsHaveClients
  BY <1>1 DEF RowsExist, RequestsHaveClients
<1>5. CountsAgree
  BY <1>2 DEF CountsAgree, NoRecord
<1>6. PendingCounts /\ GuessesBounded
  BY <1>2, LimitFacts DEF PendingCounts, GuessesBounded
<1>7. QED
  BY <1>3, <1>4, <1>5, <1>6 DEF LimitInv

(* What a step leaves to show, once its rows and its requests are known.   *)
LEMMA LimitInvFrom ==
    ASSUME LimitInv, RowsHold', \A k \in Scope : CountsOn(k), now' = now,
           from' \in [Request -> Client \cup {None}],
           stage' \in [Request ->
              {"idle", "asked", "admitted", "right", "wrong", "counted"}],
           RequestsHaveClients'
    PROVE  LimitInv'
<1>1. LimitTypeOK' /\ RowsExist' /\ CountsAgree'
  BY DEF LimitInv, LimitTypeOK, RowsHold
<1>2. \A k \in Scope : guesses'[k] \in Nat
  BY DEF RowsHold
<1>3. PendingCounts' /\ GuessesBounded'
  BY <1>2, CountsOnHolds DEF PendingCounts, GuessesBounded, Limit
<1>4. QED
  BY <1>1, <1>3 DEF LimitInv

(* One request moves on, and the others stay where they are.               *)
LEMMA GoesOn ==
    ASSUME LimitInv, NEW r \in Request, NEW a, NEW b \in
              {"idle", "asked", "admitted", "right", "wrong", "counted"},
           Goes(r, a, b)
    PROVE  /\ stage[r] = a /\ stage'[r] = b
           /\ \A q \in Request \ {r} : stage'[q] = stage[q]
           /\ stage' \in [Request ->
                {"idle", "asked", "admitted", "right", "wrong", "counted"}]
           /\ now' = now
           /\ from \in [Request -> Client \cup {None}]
  BY DEF Goes, LimitInv, LimitTypeOK

LEMMA RowsUnchanged ==
    ASSUME LimitInv, now' = now, row' = row, guesses' = guesses
    PROVE  RowsHold'
<1>1. RowsHold
  BY DEF LimitInv, LimitTypeOK, RowsHold
<1>2. QED
  BY <1>1 DEF RowsHold, RowsExist, CountsAgree, Over, Limit, Scope, NoRecord

LEMMA AskClientInv ==
    ASSUME LimitInv, NEW r \in Request, NEW c \in Client, AskClient(r, c)
    PROVE  LimitInv'
<1>1. /\ stage[r] = "idle" /\ stage'[r] = "asked"
      /\ \A q \in Request \ {r} : stage'[q] = stage[q]
      /\ stage' \in [Request ->
            {"idle", "asked", "admitted", "right", "wrong", "counted"}]
      /\ now' = now
      /\ from \in [Request -> Client \cup {None}]
  BY GoesOn DEF AskClient
<1>2. ~Banned(c) /\ row' = row /\ guesses' = guesses
      /\ from' = [from EXCEPT ![r] = c]
  BY DEF AskClient
<1>3. /\ from' \in [Request -> Client \cup {None}]
      /\ from'[r] = c
      /\ \A q \in Request \ {r} : from'[q] = from[q]
  BY <1>1, <1>2
<1>4. RowsHold' /\ RequestsHaveClients'
  BY <1>1, <1>2, <1>3, RowsUnchanged DEF LimitInv, RequestsHaveClients
<1>5. ASSUME NEW k \in Scope, Banned(k)
      PROVE  Pending(k)' \subseteq Pending(k)
  BY <1>1, <1>2, <1>3, <1>5 DEF Pending
<1>6. \A k \in Scope : CountsOn(k)
  BY <1>1, <1>2, <1>5 DEF CountsOn
<1>7. QED
  BY <1>1, <1>3, <1>4, <1>6, LimitInvFrom

LEMMA AskShareInv ==
    ASSUME LimitInv, NEW r \in Request, AskShare(r)
    PROVE  LimitInv'
<1>1. /\ stage[r] = "asked" /\ stage'[r] = "admitted"
      /\ \A q \in Request \ {r} : stage'[q] = stage[q]
      /\ stage' \in [Request ->
            {"idle", "asked", "admitted", "right", "wrong", "counted"}]
      /\ now' = now
      /\ from \in [Request -> Client \cup {None}]
  BY GoesOn DEF AskShare
<1>2. /\ \A k \in Share : ~Banned(k)
      /\ row' = row /\ guesses' = guesses /\ from' = from
  BY DEF AskShare
<1>3. RowsHold' /\ RequestsHaveClients'
  BY <1>1, <1>2, RowsUnchanged DEF LimitInv, RequestsHaveClients
<1>4. ASSUME NEW k \in Scope, Banned(k)
      PROVE  Pending(k)' \subseteq Pending(k)
  <2>1. k \in Client
    BY <1>2, <1>4 DEF Scope
  <2>2. QED
    BY <2>1, <1>1, <1>2 DEF Pending
<1>5. \A k \in Scope : CountsOn(k)
  BY <1>1, <1>2, <1>4 DEF CountsOn
<1>6. QED
  BY <1>1, <1>2, <1>3, <1>5, LimitInvFrom

LEMMA GuessInv ==
    ASSUME LimitInv, NEW r \in Request, NEW outcome \in {"right", "wrong"},
           Guess(r, outcome)
    PROVE  LimitInv'
<1>1. /\ stage[r] = "admitted" /\ stage'[r] = outcome
      /\ \A q \in Request \ {r} : stage'[q] = stage[q]
      /\ stage' \in [Request ->
            {"idle", "asked", "admitted", "right", "wrong", "counted"}]
      /\ now' = now
      /\ from \in [Request -> Client \cup {None}]
  BY GoesOn DEF Guess
<1>2. row' = row /\ guesses' = guesses /\ from' = from
  BY DEF Guess
<1>3. RowsHold' /\ RequestsHaveClients'
  BY <1>1, <1>2, RowsUnchanged DEF LimitInv, RequestsHaveClients
<1>4. ASSUME NEW k \in Scope
      PROVE  Pending(k)' \subseteq Pending(k)
  BY <1>1, <1>2 DEF Pending
<1>5. \A k \in Scope : CountsOn(k)
  BY <1>1, <1>2, <1>4 DEF CountsOn
<1>6. QED
  BY <1>1, <1>2, <1>3, <1>5, LimitInvFrom

LEMMA CountClientInv ==
    ASSUME LimitInv, NEW r \in Request, CountClient(r)
    PROVE  LimitInv'
<1>1. /\ stage[r] = "wrong" /\ stage'[r] = "counted"
      /\ \A q \in Request \ {r} : stage'[q] = stage[q]
      /\ stage' \in [Request ->
            {"idle", "asked", "admitted", "right", "wrong", "counted"}]
      /\ now' = now
      /\ from \in [Request -> Client \cup {None}]
  BY GoesOn DEF CountClient
<1>2. from' = from /\ RecordFailure(from[r]) /\ from[r] \in Client
  BY <1>1 DEF CountClient, LimitInv, RequestsHaveClients
<1>3. PICK c \in Client : c = from[r]
  BY <1>2
<1>4. c \in Scope
  BY DEF Scope
<1>5. /\ RowsHold'
      /\ OthersStay(c)
      /\ \/ Banned(c) /\ row'[c] = row[c] /\ guesses'[c] = guesses[c] + 1
         \/ ~Banned(c) /\ guesses'[c] <= Limit(c)
  BY <1>1, <1>2, <1>3, <1>4, RecordHolds
<1>6. RequestsHaveClients'
  BY <1>1, <1>2 DEF LimitInv, RequestsHaveClients
<1>7. ASSUME NEW k \in Scope \ {c}
      PROVE  Pending(k)' \subseteq Pending(k)
  BY <1>1, <1>2, <1>3 DEF Pending
<1>8. r \in Pending(c) /\ Pending(c)' \subseteq Pending(c) \ {r}
  BY <1>1, <1>2, <1>3 DEF Pending
<1>9. Pending(c)' \subseteq Request \ {r}
  BY <1>8 DEF Pending
<1>10. CountsOn(c)
  BY <1>1, <1>5, <1>8, <1>9 DEF CountsOn
<1>11. ASSUME NEW k \in Scope \ {c}
       PROVE  CountsOn(k)
  BY <1>1, <1>5, <1>7 DEF CountsOn, OthersStay
<1>12. QED
  BY <1>1, <1>2, <1>5, <1>6, <1>10, <1>11, LimitInvFrom

(* A request that ends is pending for nobody.                              *)
LEMMA EndedRequest ==
    ASSUME LimitInv, NEW r \in Request, stage' = [stage EXCEPT ![r] = "idle"],
           from' = [from EXCEPT ![r] = None]
    PROVE  /\ from' \in [Request -> Client \cup {None}]
           /\ stage' \in [Request ->
                {"idle", "asked", "admitted", "right", "wrong", "counted"}]
           /\ RequestsHaveClients'
           /\ \A k : /\ Pending(k)' \subseteq Pending(k) \ {r}
                     /\ Pending(k)' \subseteq Request \ {r}
<1>1. /\ from' \in [Request -> Client \cup {None}]
      /\ stage' \in [Request ->
            {"idle", "asked", "admitted", "right", "wrong", "counted"}]
      /\ stage'[r] = "idle"
      /\ \A q \in Request \ {r} : stage'[q] = stage[q] /\ from'[q] = from[q]
  BY DEF LimitInv, LimitTypeOK
<1>2. RequestsHaveClients'
  BY <1>1 DEF LimitInv, RequestsHaveClients
<1>3. ASSUME NEW k, NEW q \in Pending(k)'
      PROVE  q \in Pending(k) /\ q # r /\ q \in Request
  BY <1>1 DEF Pending
<1>4. QED
  BY <1>1, <1>2, <1>3

LEMMA CountShareInv ==
    ASSUME LimitInv, NEW r \in Request, CountShare(r)
    PROVE  LimitInv'
<1>1. /\ stage[r] = "counted"
      /\ stage' = [stage EXCEPT ![r] = "idle"]
      /\ from' = [from EXCEPT ![r] = None]
      /\ now' = now
      /\ r \in Request
  BY DEF CountShare, Goes
<1>2. /\ from' \in [Request -> Client \cup {None}]
      /\ stage' \in [Request ->
            {"idle", "asked", "admitted", "right", "wrong", "counted"}]
      /\ RequestsHaveClients'
      /\ \A k : /\ Pending(k)' \subseteq Pending(k) \ {r}
                /\ Pending(k)' \subseteq Request \ {r}
  BY <1>1, EndedRequest
<1>3. CASE Share = {}
  <2>1. row' = row /\ guesses' = guesses
    BY <1>3 DEF CountShare
  <2>2. RowsHold'
    BY <1>1, <2>1, RowsUnchanged
  <2>3. \A k \in Scope : CountsOn(k)
    BY <1>1, <1>2, <2>1 DEF CountsOn
  <2>4. QED
    BY <1>1, <1>2, <2>2, <2>3, LimitInvFrom
<1>4. CASE Share # {}
  <2>1. PICK h \in Share : RecordFailure(h)
    BY <1>4 DEF CountShare
  <2>2. h \in Scope /\ h \notin Client
    BY LimitAssumption DEF Scope
  <2>3. /\ RowsHold'
        /\ OthersStay(h)
        /\ \/ Banned(h) /\ row'[h] = row[h] /\ guesses'[h] = guesses[h] + 1
           \/ ~Banned(h) /\ guesses'[h] <= Limit(h)
    BY <1>1, <2>1, <2>2, RecordHolds
  <2>4. r \in Pending(h)
    BY <1>1, <2>2 DEF Pending
  <2>5. CountsOn(h)
    BY <1>1, <1>2, <2>3, <2>4 DEF CountsOn
  <2>6. ASSUME NEW k \in Scope \ {h}
        PROVE  CountsOn(k)
    BY <1>1, <1>2, <2>3 DEF CountsOn, OthersStay
  <2>7. QED
    BY <1>1, <1>2, <2>3, <2>5, <2>6, LimitInvFrom
<1>5. QED
  BY <1>3, <1>4

LEMMA WelcomeInv ==
    ASSUME LimitInv, NEW r \in Request, Welcome(r)
    PROVE  LimitInv'
<1>1. /\ stage[r] = "right"
      /\ stage' = [stage EXCEPT ![r] = "idle"]
      /\ from' = [from EXCEPT ![r] = None]
      /\ now' = now
      /\ ClearFailures(from[r])
  BY DEF Welcome, Goes
<1>2. /\ from' \in [Request -> Client \cup {None}]
      /\ stage' \in [Request ->
            {"idle", "asked", "admitted", "right", "wrong", "counted"}]
      /\ RequestsHaveClients'
      /\ \A k : /\ Pending(k)' \subseteq Pending(k) \ {r}
                /\ Pending(k)' \subseteq Request \ {r}
  BY <1>1, EndedRequest
<1>3. PICK c \in Client : c = from[r]
  BY <1>1 DEF LimitInv, RequestsHaveClients
<1>4. /\ c \in Scope
      /\ row' = [row EXCEPT ![c] = NoRecord]
      /\ guesses' = [guesses EXCEPT ![c] = 0]
  BY <1>1, <1>3 DEF ClearFailures, Scope
<1>5. /\ row'[c] = NoRecord /\ guesses'[c] = 0
      /\ RowsExist'
      /\ OthersStay(c)
      /\ guesses' \in [Scope -> Nat]
  BY <1>4 DEF LimitInv, LimitTypeOK, RowsExist, OthersStay
<1>6. CountsAgree'
  BY <1>1, <1>5 DEF LimitInv, CountsAgree, OthersStay, NoRecord, Over
<1>7. RowsHold'
  <2>1. ASSUME NEW k \in Scope
        PROVE  \/ row'[k] = NoRecord
               \/ /\ row'[k].failures \in 0..(Limit(k) - 1)
                  /\ row'[k].since \in 0..now'
                  /\ row'[k].first \in 0..now'
                  /\ row'[k].bans \in Nat
                  /\ row'[k].until \in 0..(now' + LongBan)
    BY <1>1, <1>5 DEF LimitInv, LimitTypeOK, OthersStay
  <2>2. QED
    BY <1>5, <1>6, <2>1 DEF RowsHold, NoRecord, Limit
<1>8. CountsOn(c)
  BY <1>2, <1>5, LimitFacts DEF CountsOn
<1>9. ASSUME NEW k \in Scope \ {c}
      PROVE  CountsOn(k)
  BY <1>1, <1>2, <1>5 DEF CountsOn, OthersStay
<1>10. QED
  BY <1>1, <1>2, <1>7, <1>8, <1>9, LimitInvFrom

LEMMA RequestEndsInv ==
    ASSUME LimitInv, NEW r \in Request, RequestEnds(r)
    PROVE  LimitInv'
<1>1. /\ stage' = [stage EXCEPT ![r] = "idle"]
      /\ from' = [from EXCEPT ![r] = None]
      /\ now' = now /\ row' = row /\ guesses' = guesses
  BY DEF RequestEnds
<1>2. /\ from' \in [Request -> Client \cup {None}]
      /\ stage' \in [Request ->
            {"idle", "asked", "admitted", "right", "wrong", "counted"}]
      /\ RequestsHaveClients'
      /\ \A k : /\ Pending(k)' \subseteq Pending(k) \ {r}
                /\ Pending(k)' \subseteq Request \ {r}
  BY <1>1, EndedRequest
<1>3. RowsHold'
  BY <1>1, RowsUnchanged
<1>4. \A k \in Scope : CountsOn(k)
  BY <1>1, <1>2 DEF CountsOn
<1>5. QED
  BY <1>1, <1>2, <1>3, <1>4, LimitInvFrom

(* Time ends bans and windows, it starts none.                             *)
LEMMA TickInv ==
    ASSUME LimitInv, Tick
    PROVE  LimitInv'
<1>1. /\ now' = now + 1 /\ now < MaxTime
      /\ row' = row /\ from' = from /\ stage' = stage /\ guesses' = guesses
  BY DEF Tick
<1>2. now \in 0..MaxTime /\ now' \in 0..MaxTime /\ MaxTime \in Nat /\ now \in Nat
  BY <1>1, LimitAssumption DEF LimitInv, LimitTypeOK
<1>3. LimitTypeOK'
  <2>1. ASSUME NEW k \in Scope, row[k] # NoRecord
        PROVE  /\ row[k].failures \in 0..(Limit(k) - 1)
               /\ row[k].since \in 0..now'
               /\ row[k].first \in 0..now'
               /\ row[k].bans \in Nat
               /\ row[k].until \in 0..(now' + LongBan)
    <3>1. /\ row[k].failures \in 0..(Limit(k) - 1)
          /\ row[k].since \in 0..now
          /\ row[k].first \in 0..now
          /\ row[k].bans \in Nat
          /\ row[k].until \in 0..(now + LongBan)
      BY <2>1 DEF LimitInv, LimitTypeOK
    <3>2. QED
      BY <3>1, <1>1, <1>2, LimitFacts
  <2>2. QED
    BY <1>1, <1>2, <2>1 DEF LimitInv, LimitTypeOK, Limit, NoRecord
<1>4. RowsExist' /\ RequestsHaveClients' /\ GuessesBounded'
  BY <1>1 DEF LimitInv, RowsExist, RequestsHaveClients, GuessesBounded, Limit
<1>5. ASSUME NEW k \in Scope, ~Over(row[k].since, Window)'
      PROVE  ~Over(row[k].since, Window)
  <2>1. row[k].since = None \/ row[k].since \in 0..now
    BY RowFacts DEF LimitInv
  <2>2. Window \in Nat
    BY LimitAssumption
  <2>3. QED
    BY <1>1, <1>2, <1>5, <2>1, <2>2 DEF Over
<1>6. CountsAgree'
  BY <1>1, <1>5 DEF LimitInv, CountsAgree
<1>7. PendingCounts'
  <2>1. ASSUME NEW k \in Scope, Banned(k)'
        PROVE  Banned(k)
    <3>1. row[k].until \in Nat
      BY RowFacts DEF LimitInv
    <3>2. QED
      BY <1>1, <1>2, <2>1, <3>1 DEF Banned
  <2>2. \A k \in Scope : Pending(k)' = Pending(k)
    BY <1>1 DEF Pending
  <2>3. QED
    BY <1>1, <2>1, <2>2 DEF LimitInv, PendingCounts, Limit
<1>8. QED
  BY <1>3, <1>4, <1>6, <1>7 DEF LimitInv

LEMMA LimitStepInv == LimitInv /\ [LimitNext]_limitVars => LimitInv'
<1> SUFFICES ASSUME LimitInv, [LimitNext]_limitVars
             PROVE  LimitInv'
  OBVIOUS
<1>1. CASE UNCHANGED limitVars
  <2>1. /\ now' = now /\ row' = row /\ from' = from
        /\ stage' = stage /\ guesses' = guesses
    BY <1>1 DEF limitVars
  <2>2. RowsHold' /\ RequestsHaveClients'
    BY <2>1, RowsUnchanged DEF LimitInv, RequestsHaveClients
  <2>3. \A k \in Scope : CountsOn(k)
    BY <2>1 DEF CountsOn, Pending
  <2>4. QED
    BY <2>1, <2>2, <2>3, LimitInvFrom DEF LimitInv, LimitTypeOK
<1>2. ASSUME NEW r \in Request, LimitStep(r)
      PROVE  LimitInv'
  BY <1>2, AskClientInv, AskShareInv, GuessInv, CountClientInv, CountShareInv,
     WelcomeInv, RequestEndsInv DEF LimitStep
<1>3. QED
  BY <1>1, <1>2, TickInv DEF LimitNext

LEMMA LimitInvariance == LimitSpec => []LimitInv
  BY LimitInitInv, LimitStepInv, PTL DEF LimitSpec

-----------------------------------------------------------------------------
(* The counters of a ban stay within their limits, whatever the requests.  *)
THEOREM LimitTypeCorrect == LimitSpec => []LimitTypeOK
<1>1. LimitInv => LimitTypeOK
  BY DEF LimitInv
<1>2. QED
  BY <1>1, LimitInvariance, PTL

(* A ban is worth what it promises: the limit, and one guess more for each *)
(* other request that was past the question.                               *)
THEOREM GuessesAreBounded == LimitSpec => []GuessesBounded
<1>1. LimitInv => GuessesBounded
  BY DEF LimitInv
<1>2. QED
  BY <1>1, LimitInvariance, PTL

(* Failures recorded during a ban do not touch it; a right secret lifts it *)
(* only for the client of a request that had been admitted before.         *)
THEOREM BansLast == LimitSpec => BansHold
<1>1. ASSUME LimitInv, NEW k \in Scope, Banned(k), LimitNext
      PROVE  \/ row'[k].until = row[k].until
             \/ \E r \in Request : from[r] = k /\ stage[r] = "right"
  <2>1. ASSUME NEW r \in Request, NEW j \in Scope, RecordFailure(j)
        PROVE  row'[k] = row[k]
    BY <1>1, <2>1 DEF RecordFailure, LimitInv, RowsExist
  <2>2. ASSUME NEW r \in Request, CountClient(r)
        PROVE  row'[k] = row[k]
    <3>1. RecordFailure(from[r]) /\ from[r] \in Scope
      BY <1>1, <2>2 DEF CountClient, Goes, LimitInv, RequestsHaveClients, Scope
    <3>2. QED
      BY <2>1, <3>1
  <2>3. ASSUME NEW r \in Request, CountShare(r)
        PROVE  row'[k] = row[k]
    BY <2>1, <2>3 DEF CountShare, Scope
  <2>4. ASSUME NEW r \in Request, Welcome(r)
        PROVE  \/ row'[k] = row[k]
               \/ \E q \in Request : from[q] = k /\ stage[q] = "right"
    BY <1>1, <2>4 DEF Welcome, Goes, ClearFailures, LimitInv, RowsExist
  <2>5. ASSUME NEW r \in Request,
               \/ \E c \in Client : AskClient(r, c)
               \/ AskShare(r)
               \/ \E outcome \in {"right", "wrong"} : Guess(r, outcome)
               \/ RequestEnds(r)
        PROVE  row' = row
    BY <2>5 DEF AskClient, AskShare, Guess, RequestEnds
  <2>6. ASSUME Tick
        PROVE  row' = row
    BY <2>6 DEF Tick
  <2>7. QED
    BY <1>1, <2>2, <2>3, <2>4, <2>5, <2>6 DEF LimitNext, LimitStep
<1>2. LimitInv /\ [LimitNext]_limitVars => [BanHolds]_limitVars
  BY <1>1 DEF BanHolds
<1>3. QED
  BY <1>2, LimitInvariance, PTL DEF LimitSpec, BansHold
=============================================================================
