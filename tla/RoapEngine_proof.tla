-------------------------- MODULE RoapEngine_proof --------------------------
(***************************************************************************)
(* Proofs about RoapEngine, for any number of issuers, roots, domains and  *)
(* triggers.                                                               *)
(***************************************************************************)
EXTENDS RoapEngine, TLAPS

USE RootAssumption, NoneAssumption

-----------------------------------------------------------------------------
(* Domains.  A request to join names the domain whose context its answer   *)
(* adds, and the context of a domain to leave is gone before the request.  *)

DomainInv ==
  /\ iReqMessage = "none" => request = None
  /\ iReqMessage = "EJoinDomain" /\ request # None => request.domain = iDomainId
  /\ iReqMessage = "ELeaveDomain" /\ request # None => request.domain \notin domains
  /\ domains \subseteq members

LEMMA NextDomain == DomainInv /\ [Next]_vars => DomainInv'
<1> SUFFICES ASSUME DomainInv, [Next]_vars PROVE DomainInv'
  OBVIOUS
<1> USE DEF DomainInv, domain, issuer, phase, exchange, contexts
<1>1. ASSUME NEW t \in Triggers, Trigger(t) PROVE DomainInv'
  BY <1>1 DEF Trigger, GetRIContextLeaves, Ends
<1>2. CASE CreateDeviceHello
  BY <1>2 DEF CreateDeviceHello, Creates
<1>3. CASE CreateRegistrationRequest
  BY <1>3 DEF CreateRegistrationRequest, Creates, Sends
<1>4. CASE CreateRightsRequest
  BY <1>4 DEF CreateRightsRequest, Creates, Sends
<1>5. CASE CreateJoinDomainRequest
  BY <1>5 DEF CreateJoinDomainRequest, Creates, Sends
<1>6. CASE CreateLeaveDomainRequest
  BY <1>6 DEF CreateLeaveDomainRequest, Creates, Sends, DomainLeft
<1>7. CASE CannotCreate
  BY <1>7 DEF CannotCreate, Ends, DomainLeft
<1>8. CASE Lost
  BY <1>8 DEF Lost, Ends, Accepts, IssuerActs
<1>9. ASSUME NEW status, Refused(status) PROVE DomainInv'
  BY <1>9 DEF Refused, Continues, Ends
<1>10. ASSUME NEW peer, NEW caching, NEW trusted, HandleRIHello(peer, caching, trusted)
       PROVE DomainInv'
  BY <1>10 DEF HandleRIHello, Continues, Ends
<1>11. ASSUME NEW chain, NEW ocsp, NEW updated, NEW damaged,
              HandleReqResponse(chain, ocsp, updated, damaged)
       PROVE DomainInv'
  BY <1>11 DEF HandleReqResponse, IssuerActs, Continues, Ends
<1>12. ASSUME NEW d, NEW chain, NEW damaged, HandleRightsResponse(d, chain, damaged)
       PROVE DomainInv'
  <2>1. domains' = domains /\ members' = members
    BY <1>12 DEF HandleRightsResponse, StoreRights
  <2>2. request' = None
    BY <1>12 DEF HandleRightsResponse, AnswerFails, Continues, Ends
  <2> QED BY <2>1, <2>2
<1>13. ASSUME NEW chain, NEW damaged, HandleJoinDomainResponse(chain, damaged)
       PROVE DomainInv'
  <2>1. iReqMessage = "EJoinDomain" /\ request # None /\ members' = members \cup {request.domain}
    BY <1>13 DEF HandleJoinDomainResponse, Accepts, IssuerActs
  <2>2. domains' \subseteq domains \cup {iDomainId}
    BY <1>13 DEF HandleJoinDomainResponse
  <2>3. request' = None
    BY <1>13 DEF HandleJoinDomainResponse, AnswerFails, Continues, Ends
  <2> QED BY <2>1, <2>2, <2>3
<1>14. CASE HandleLeaveDomainResponse
  BY <1>14 DEF HandleLeaveDomainResponse, Accepts, IssuerActs, Continues, Ends
<1>15. ASSUME NEW ri, NEW d, NEW chain, NEW damaged, OnePassRightsResponse(ri, d, chain, damaged)
       PROVE DomainInv'
  <2>1. domains' = domains /\ members' = members
    BY <1>15 DEF OnePassRightsResponse
  <2>2. request' = None
    BY <1>15 DEF OnePassRightsResponse, GetRIContextLeaves, Ends
  <2> QED BY <2>1, <2>2
<1>16. CASE UserSetsTime
  BY <1>16 DEF UserSetsTime
<1>17. CASE ClockLost
  BY <1>17 DEF ClockLost
<1>18. ASSUME NEW ri, Expires(ri) PROVE DomainInv'
  BY <1>18 DEF Expires
<1>19. CASE UNCHANGED vars
  BY <1>19 DEF vars
<1> QED BY <1>1, <1>2, <1>3, <1>4, <1>5, <1>6, <1>7, <1>8, <1>9, <1>10, <1>11, <1>12, <1>13,
           <1>14, <1>15, <1>16, <1>17, <1>18, <1>19 DEF Next

(* The device is a member of every domain it has a context of.             *)
THEOREM MemberOfDomains == Spec => []DomainsAgree
<1>1. Init => DomainInv
  BY DEF Init, DomainInv
<1>2. DomainInv => DomainsAgree
  BY DEF DomainInv, DomainsAgree
<1> QED BY <1>1, <1>2, NextDomain, PTL DEF Spec
-----------------------------------------------------------------------------
(* The context.  Whatever message is next, the engine holds the context of *)
(* its issuer if the message needs one.                                    *)

AfterRegistration == {"EROAcquisition", "EJoinDomain", "ELeaveDomain"}

ContextInv ==
  /\ iReqMessage \in AfterRegistration => iStoredRiContext # None
  /\ iStoredRiContext \in Contexts \cup {None}
  /\ riContext \in [Issuers -> Contexts \cup {None}]
  /\ iSelectedRoot \in Roots /\ iRiSupportsCertCaching \in BOOLEAN

(* An answer may bring a newer chain: what is stored is still a context.   *)
LEMMA KeptChain ==
  ASSUME NEW ri, NEW context \in Contexts \cup {None}, NEW chain,
         riContext \in [Issuers -> Contexts \cup {None}],
         KeepsChain(ri, context, chain)
  PROVE /\ iStoredRiContext' \in Contexts \cup {None}
        /\ context # None => iStoredRiContext' # None
        /\ riContext' \in [Issuers -> Contexts \cup {None}]
<1>1. context # None => UpdatedContext(context) \in Contexts
  BY DEF UpdatedContext, Contexts
<1> QED BY <1>1 DEF KeepsChain

LEMMA NextContext == ContextInv /\ [Next]_vars => ContextInv'
<1> SUFFICES ASSUME ContextInv, [Next]_vars PROVE ContextInv'
  OBVIOUS
<1> USE DEF ContextInv, AfterRegistration, phase, exchange, contexts, cert, root
<1>1. ASSUME NEW t \in Triggers, Trigger(t) PROVE ContextInv'
  BY <1>1 DEF Trigger, GetRIContextLeaves, Ends, GetRIContext, ContextFound, SelectTrustedRoot, Triggers, Contexts
<1>2. CASE CreateDeviceHello
  BY <1>2 DEF CreateDeviceHello, Creates
<1>3. CASE CreateRegistrationRequest
  BY <1>3 DEF CreateRegistrationRequest, Creates, Sends
<1>4. CASE CreateRightsRequest
  BY <1>4 DEF CreateRightsRequest, Creates, Sends
<1>5. CASE CreateJoinDomainRequest
  BY <1>5 DEF CreateJoinDomainRequest, Creates, Sends
<1>6. CASE CreateLeaveDomainRequest
  BY <1>6 DEF CreateLeaveDomainRequest, Creates, Sends
<1>7. CASE CannotCreate
  BY <1>7 DEF CannotCreate, Ends
<1>8. CASE Lost
  BY <1>8 DEF Lost, Ends
<1>9. ASSUME NEW status, Refused(status) PROVE ContextInv'
  BY <1>9 DEF Refused, Continues, Ends
<1>10. ASSUME NEW peer, NEW caching \in BOOLEAN, NEW trusted \in Roots \cup {None},
              HandleRIHello(peer, caching, trusted)
       PROVE ContextInv'
  BY <1>10 DEF HandleRIHello, Continues, Ends, SelectTrustedRoot, RootChosen, Contexts
<1>11. ASSUME NEW chain \in BOOLEAN, NEW ocsp \in BOOLEAN, NEW updated \in BOOLEAN,
              NEW damaged \in BOOLEAN, HandleReqResponse(chain, ocsp, updated, damaged)
       PROVE ContextInv'
  <2>1. ASSUME chain, iStoredRiContext' = [root |-> iSelectedRoot, ocsp |-> ocsp,
                                         caching |-> iRiSupportsCertCaching]
        PROVE iStoredRiContext' \in Contexts
    BY <2>1 DEF Contexts
  <2>2. iStoredRiContext # None \/ chain
    BY <1>11 DEF HandleReqResponse
  <2>3. UNCHANGED <<iSelectedRoot, iRiSupportsCertCaching>>
    BY <1>11 DEF HandleReqResponse
  <2>4. CASE ~damaged /\ SignatureHolds(iReqMessage)
    BY <1>11, <2>1, <2>2, <2>3, <2>4 DEF HandleReqResponse
  <2>5. CASE ~(~damaged /\ SignatureHolds(iReqMessage))
    <3>1. KeepsChain(trigger.ri, iStoredRiContext, chain /\ ocsp) /\ iReqMessage' = "none"
      BY <1>11, <2>5 DEF HandleReqResponse, Ends
    <3> QED BY <2>3, <3>1, KeptChain
  <2> QED BY <2>4, <2>5
<1>12. ASSUME NEW d, NEW chain \in BOOLEAN, NEW damaged \in BOOLEAN,
              HandleRightsResponse(d, chain, damaged)
       PROVE ContextInv'
  <2>1. KeepsChain(trigger.ri, iStoredRiContext, chain) /\ iStoredRiContext # None
    BY <1>12 DEF HandleRightsResponse, AnswerFails, AnswerHolds
  <2>2. UNCHANGED <<iSelectedRoot, iRiSupportsCertCaching>>
    BY <1>12 DEF HandleRightsResponse
  <2> QED BY <2>1, <2>2, KeptChain
<1>13. ASSUME NEW chain \in BOOLEAN, NEW damaged \in BOOLEAN,
              HandleJoinDomainResponse(chain, damaged)
       PROVE ContextInv'
  <2>1. KeepsChain(trigger.ri, iStoredRiContext, chain) /\ iStoredRiContext # None
    BY <1>13 DEF HandleJoinDomainResponse, AnswerFails, AnswerHolds
  <2>2. UNCHANGED <<iSelectedRoot, iRiSupportsCertCaching>>
    BY <1>13 DEF HandleJoinDomainResponse
  <2> QED BY <2>1, <2>2, KeptChain
<1>14. CASE HandleLeaveDomainResponse
  BY <1>14 DEF HandleLeaveDomainResponse, Continues, Ends
<1>15. ASSUME NEW ri \in Issuers, NEW d, NEW chain \in BOOLEAN, NEW damaged \in BOOLEAN,
              OnePassRightsResponse(ri, d, chain, damaged)
       PROVE ContextInv'
  <2>1. iReqMessage' = "none"
    BY <1>15 DEF OnePassRightsResponse, GetRIContextLeaves, Ends
  <2>2. CASE GetRIContextLeaves(ri) /\ UNCHANGED riContext
    BY <2>1, <2>2 DEF GetRIContextLeaves, Contexts
  <2>3. CASE \E registered \in BOOLEAN :
               /\ GetRIContext(ri, registered)
               /\ \E context \in {riContext[ri], ContextFound(ri, registered)} :
                    KeepsChain(ri, context, chain)
    <3>1. PICK registered \in BOOLEAN :
               /\ GetRIContext(ri, registered)
               /\ \E context \in {riContext[ri], ContextFound(ri, registered)} :
                    KeepsChain(ri, context, chain)
      BY <2>3
    <3>2. iSelectedRoot' \in Roots /\ iRiSupportsCertCaching' \in BOOLEAN
      BY <3>1 DEF GetRIContext, SelectTrustedRoot, Contexts
    <3> QED BY <2>1, <3>1, <3>2, KeptChain DEF ContextFound
  <2>4. \/ GetRIContextLeaves(ri) /\ UNCHANGED riContext
        \/ \E registered \in BOOLEAN :
              /\ GetRIContext(ri, registered)
              /\ \E context \in {riContext[ri], ContextFound(ri, registered)} :
                   KeepsChain(ri, context, chain)
    BY <1>15 DEF OnePassRightsResponse
  <2> QED BY <2>2, <2>3, <2>4
<1>16. CASE UserSetsTime
  BY <1>16 DEF UserSetsTime
<1>17. CASE ClockLost
  BY <1>17 DEF ClockLost
<1>18. ASSUME NEW ri, Expires(ri) PROVE ContextInv'
  BY <1>18 DEF Expires
<1>19. CASE UNCHANGED vars
  BY <1>19 DEF vars
<1> QED BY <1>1, <1>2, <1>3, <1>4, <1>5, <1>6, <1>7, <1>8, <1>9, <1>10, <1>11, <1>12, <1>13,
           <1>14, <1>15, <1>16, <1>17, <1>18, <1>19 DEF Next

(* The assertions on iStoredRiContext never fail.                          *)
THEOREM AssertionsHold == Spec => []ContextHeld
<1>1. Init => ContextInv
  BY DEF Init, ContextInv, AfterRegistration
<1>2. ContextInv => ContextHeld
  BY DEF ContextInv, ContextHeld, AfterRegistration
<1> QED BY <1>1, <1>2, NextContext, PTL DEF Spec

-----------------------------------------------------------------------------
(* Time.  The request that waits tells the time the clock shows as long as *)
(* nobody has touched the clock since, and asks for an OCSP response when  *)
(* the issuer has complained about the time.                               *)

TimeInv ==
  /\ iReqMessage = "none" => ~waiting
  /\ ~waiting => request = None /\ ~shown
  /\ clock \in [secure : BOOLEAN, right : BOOLEAN]
  /\ request # None /\ shown => request.timeRight = clock.right
  /\ iReqMessage = "ERegistration" /\ request # None /\ iDeviceTimeError
       => ~request.ocspStored

LEMMA NextTime == TimeInv /\ [Next]_vars => TimeInv'
<1> SUFFICES ASSUME TimeInv, [Next]_vars PROVE TimeInv'
  OBVIOUS
<1> USE DEF TimeInv, phase, exchange, time
<1>1. ASSUME NEW t \in Triggers, Trigger(t) PROVE TimeInv'
  BY <1>1 DEF Trigger, GetRIContextLeaves, Ends
<1>2. CASE CreateDeviceHello
  BY <1>2 DEF CreateDeviceHello, Creates
<1>3. CASE CreateRegistrationRequest
  BY <1>3 DEF CreateRegistrationRequest, Creates, Sends, OcspInfoStored
<1>4. CASE CreateRightsRequest
  BY <1>4 DEF CreateRightsRequest, Creates, Sends
<1>5. CASE CreateJoinDomainRequest
  BY <1>5 DEF CreateJoinDomainRequest, Creates, Sends
<1>6. CASE CreateLeaveDomainRequest
  BY <1>6 DEF CreateLeaveDomainRequest, Creates, Sends
<1>7. CASE CannotCreate
  BY <1>7 DEF CannotCreate, Ends
<1>8. CASE Lost
  BY <1>8 DEF Lost, Ends
<1>9. ASSUME NEW status, Refused(status) PROVE TimeInv'
  BY <1>9 DEF Refused, Continues, Ends
<1>10. ASSUME NEW peer, NEW caching \in BOOLEAN, NEW trusted \in Roots \cup {None},
              HandleRIHello(peer, caching, trusted)
       PROVE TimeInv'
  BY <1>10 DEF HandleRIHello, Continues, Ends
<1>11. ASSUME NEW chain \in BOOLEAN, NEW ocsp \in BOOLEAN, NEW updated \in BOOLEAN,
              NEW damaged \in BOOLEAN, HandleReqResponse(chain, ocsp, updated, damaged)
       PROVE TimeInv'
  BY <1>11 DEF HandleReqResponse, Continues, Ends, AdjustDrmTime
<1>12. ASSUME NEW d, NEW chain \in BOOLEAN, NEW damaged \in BOOLEAN,
              HandleRightsResponse(d, chain, damaged)
       PROVE TimeInv'
  BY <1>12 DEF HandleRightsResponse, AnswerFails, AnswerHolds, Continues, Ends, SecureIfAccepted, SetDrmTimeSecure
<1>13. ASSUME NEW chain \in BOOLEAN, NEW damaged \in BOOLEAN,
              HandleJoinDomainResponse(chain, damaged)
       PROVE TimeInv'
  BY <1>13 DEF HandleJoinDomainResponse, AnswerFails, AnswerHolds, Continues, Ends, SecureIfAccepted, SetDrmTimeSecure
<1>14. CASE HandleLeaveDomainResponse
  BY <1>14 DEF HandleLeaveDomainResponse, Continues, Ends
<1>15. ASSUME NEW ri \in Issuers, NEW d, NEW chain \in BOOLEAN, NEW damaged \in BOOLEAN,
              OnePassRightsResponse(ri, d, chain, damaged)
       PROVE TimeInv'
  BY <1>15 DEF OnePassRightsResponse, GetRIContextLeaves, Ends, SetDrmTimeSecure
<1>16. CASE UserSetsTime
  BY <1>16 DEF UserSetsTime
<1>17. CASE ClockLost
  BY <1>17 DEF ClockLost
<1>18. ASSUME NEW ri, Expires(ri) PROVE TimeInv'
  BY <1>18 DEF Expires
<1>19. CASE UNCHANGED vars
  BY <1>19 DEF vars
<1> QED BY <1>1, <1>2, <1>3, <1>4, <1>5, <1>6, <1>7, <1>8, <1>9, <1>10, <1>11, <1>12, <1>13,
           <1>14, <1>15, <1>16, <1>17, <1>18, <1>19 DEF Next

LEMMA InitTime == Init => TimeInv
  BY DEF Init, TimeInv

LEMMA RepairStep ==
  ASSUME TimeInv, [Next]_vars, iDeviceTimeError, iReqMessage = "ERegistration",
         iReqMessage' \notin {"ERegistration", "EDeviceHello"}, outcome' # "failed"
  PROVE ~request.ocspStored /\ (~iDeviceTimeError' => clock'.right /\ clock'.secure)
<1> USE DEF TimeInv, phase, exchange
<1>1. \E chain, ocsp, updated, damaged \in BOOLEAN :
         HandleReqResponse(chain, ocsp, updated, damaged)
  BY DEF Next, Trigger, CreateDeviceHello, CreateRegistrationRequest, CreateRightsRequest,
         CreateJoinDomainRequest, CreateLeaveDomainRequest, CannotCreate, Creates, Sends, Lost,
         Refused, HandleRIHello, HandleRightsResponse, HandleJoinDomainResponse,
         HandleLeaveDomainResponse, OnePassRightsResponse, UserSetsTime, ClockLost, Expires,
         Continues, Ends, vars
<1>2. PICK chain, ocsp, updated, damaged \in BOOLEAN :
         HandleReqResponse(chain, ocsp, updated, damaged)
  BY <1>1
<1>3. ~request.ocspStored /\ iDeviceTimeError' = ~updated
  BY <1>2 DEF HandleReqResponse, Accepts
<1> QED BY <1>2, <1>3 DEF HandleReqResponse, AdjustDrmTime

(* A registration that follows a complaint about the time has asked for an *)
(* OCSP response, and drops the complaint only with the time set right.    *)
THEOREM RegistrationRepairsTime == Spec => TimeRepaired
<1>1. TimeInv /\ [Next]_vars =>
        (iDeviceTimeError /\ iReqMessage = "ERegistration" /\ iReqMessage' # "ERegistration"
           /\ iReqMessage' # "EDeviceHello" /\ outcome' # "failed"
         => ~request.ocspStored /\ (~iDeviceTimeError' => clock'.right /\ clock'.secure))
  BY RepairStep
<1> QED BY <1>1, InitTime, NextTime, PTL DEF Spec, TimeRepaired

LEMMA SecureStep ==
  ASSUME TimeInv, [Next]_vars, clock'.secure, ~clock.secure, ~clock'.right, waiting, shown
  PROVE FALSE
<1> USE DEF TimeInv, phase, exchange, time
<1>1. PICK d, chain, damaged : \/ HandleRightsResponse(d, chain, damaged)
                              \/ HandleJoinDomainResponse(chain, damaged)
  <2>1. clock' # clock
    OBVIOUS
  <2>2. ASSUME NEW chain, NEW ocsp, NEW updated, NEW damaged,
              HandleReqResponse(chain, ocsp, updated, damaged)
        PROVE FALSE
    <3>1. AdjustDrmTime(updated)
      BY <2>2 DEF HandleReqResponse
    <3>2. clock' = clock \/ clock' = [secure |-> TRUE, right |-> TRUE]
      BY <3>1 DEF AdjustDrmTime
    <3> QED BY <2>1, <3>2
  <2>3. ASSUME NEW ri, NEW d, NEW chain, NEW damaged
        PROVE ~OnePassRightsResponse(ri, d, chain, damaged)
    BY DEF OnePassRightsResponse
  <2>4. ~UserSetsTime /\ ~ClockLost
    BY DEF UserSetsTime, ClockLost
  <2>5. /\ \A t : ~Trigger(t)
        /\ ~CreateDeviceHello /\ ~CreateRegistrationRequest /\ ~CreateRightsRequest
        /\ ~CreateJoinDomainRequest /\ ~CreateLeaveDomainRequest /\ ~CannotCreate
    BY DEF Trigger, CreateDeviceHello, CreateRegistrationRequest, CreateRightsRequest,
           CreateJoinDomainRequest, CreateLeaveDomainRequest, CannotCreate, Creates
  <2>6. /\ ~Lost /\ ~HandleLeaveDomainResponse /\ ~UNCHANGED vars
        /\ \A status : ~Refused(status)
        /\ \A ri : ~Expires(ri)
        /\ \A peer, caching, trusted : ~HandleRIHello(peer, caching, trusted)
    BY <2>1 DEF Lost, HandleLeaveDomainResponse, Refused, Expires, HandleRIHello, vars
  <2> QED BY <2>2, <2>3, <2>4, <2>5, <2>6 DEF Next
<1>2. clock' = clock \/ clock' = [clock EXCEPT !.secure = TRUE]
  BY <1>1 DEF HandleRightsResponse, HandleJoinDomainResponse, SecureIfAccepted, SetDrmTimeSecure
<1>3. request # None /\ request.timeRight
  BY <1>1 DEF HandleRightsResponse, HandleJoinDomainResponse, Accepts
<1> QED BY <1>2, <1>3

(* No answer to a request makes a wrong time secure that the clock has     *)
(* shown since the request was made.                                       *)
THEOREM SecuredTimeRight == Spec => SecuredTimeWasShown
<1>1. TimeInv /\ [Next]_vars =>
        (clock'.secure /\ ~clock.secure /\ ~clock'.right => ~(waiting /\ shown))
  BY SecureStep
<1> QED BY <1>1, InitTime, NextTime, PTL DEF Spec, SecuredTimeWasShown

-----------------------------------------------------------------------------
(* Rights.  A device that joins a domain for the sake of its rights has       *)
(* stored them before, or keeps them until it has joined.                  *)

RightsInv ==
  /\ iReqMessage # "none" => trigger \in Triggers
  /\ iReqMessage = "ELeaveDomain" => trigger.type = "leave"
  /\ iReqMessage = "EJoinDomain" /\ trigger.type = "rights" /\ trigger.domain # None
       => trigger.domain \in rights \/ iDomainRightsResp = trigger.domain

LEMMA NextMessage ==
  ASSUME NEW t
  PROVE  /\ MessageOf(t) = "ELeaveDomain" => t.type = "leave"
         /\ MessageOf(t) = "EJoinDomain" => t.type = "join"
         /\ t.type = "rights" => MessageOf(t) = "EROAcquisition"
  BY DEF MessageOf

(* What goes on with another message of the same trigger.                  *)
LEMMA ExchangeGoesOn ==
  ASSUME RightsInv, iReqMessage # "none", UNCHANGED <<rights, iDomainRightsResp>>,
         \/ trigger' = trigger /\ iReqMessage' \in {iReqMessage, "EDeviceHello", "ERegistration"}
         \/ trigger' = trigger /\ iReqMessage' = MessageOf(trigger)
         \/ iReqMessage' = "none"
  PROVE  RightsInv'
  BY NextMessage DEF RightsInv

LEMMA NextRights == TimeInv /\ RightsInv /\ [Next]_vars => RightsInv'
<1> SUFFICES ASSUME TimeInv, RightsInv, [Next]_vars PROVE RightsInv'
  OBVIOUS
<1> USE DEF phase, exchange, domain
<1>1. ASSUME NEW t \in Triggers, Trigger(t) PROVE RightsInv'
  <2>1. \/ iReqMessage' = "none"
        \/ trigger' = t /\ iReqMessage' \in {MessageOf(t), "EDeviceHello"}
    BY <1>1 DEF Trigger, GetRIContextLeaves, Ends
  <2> QED BY <2>1, NextMessage DEF RightsInv
<1>2. CASE CreateDeviceHello \/ CreateRegistrationRequest \/ CreateRightsRequest
             \/ CreateJoinDomainRequest \/ CreateLeaveDomainRequest
  <2>1. /\ iReqMessage # "none" /\ trigger' = trigger /\ iReqMessage' = iReqMessage
        /\ UNCHANGED <<rights, iDomainRightsResp>>
    BY <1>2 DEF CreateDeviceHello, CreateRegistrationRequest, CreateRightsRequest,
       CreateJoinDomainRequest, CreateLeaveDomainRequest, Creates, Sends
  <2> QED BY <2>1, ExchangeGoesOn
<1>3. CASE CannotCreate \/ Lost
  <2>1. iReqMessage' = "none"
    BY <1>3 DEF CannotCreate, Lost, Ends
  <2> QED BY <2>1 DEF RightsInv
<1>4. ASSUME NEW status, Refused(status) PROVE RightsInv'
  <2>1. \/ iReqMessage' = "none"
        \/ iReqMessage' = "EDeviceHello" /\ trigger' = trigger
    BY <1>4 DEF Refused, Continues, Ends
  <2>2. iReqMessage # "none"
    BY <1>4 DEF Refused, TimeInv
  <2> QED BY <2>1, <2>2 DEF RightsInv
<1>5. ASSUME NEW peer, NEW caching, NEW trusted, HandleRIHello(peer, caching, trusted)
      PROVE RightsInv'
  <2>1. /\ iReqMessage = "EDeviceHello" /\ UNCHANGED <<rights, iDomainRightsResp>>
        /\ \/ iReqMessage' = "none"
           \/ iReqMessage' = "ERegistration" /\ trigger' = trigger
    BY <1>5 DEF HandleRIHello, Continues, Ends
  <2> QED BY <2>1, ExchangeGoesOn
<1>6. ASSUME NEW chain, NEW ocsp, NEW updated, NEW damaged,
              HandleReqResponse(chain, ocsp, updated, damaged)
      PROVE RightsInv'
  <2>1. /\ iReqMessage = "ERegistration" /\ UNCHANGED <<rights, iDomainRightsResp>>
        /\ \/ iReqMessage' = "none"
           \/ iReqMessage' = MessageOf(trigger) /\ trigger' = trigger
    BY <1>6 DEF HandleReqResponse, Continues, Ends
  <2> QED BY <2>1, ExchangeGoesOn
<1>7. ASSUME NEW d, NEW chain, NEW damaged, HandleRightsResponse(d, chain, damaged)
      PROVE RightsInv'
  <2>1. /\ iReqMessage = "EROAcquisition"
        /\ trigger.domain # None => d = trigger.domain
    BY <1>7 DEF HandleRightsResponse
  <2>2. \/ iReqMessage' = "none"
        \/ StoreRights(d) /\ iReqMessage' = "EJoinDomain" /\ trigger' = trigger
    BY <1>7 DEF HandleRightsResponse, AnswerFails, Continues, Ends
  <2>3. CASE StoreRights(d) /\ iReqMessage' = "EJoinDomain" /\ trigger' = trigger
    <3>1. trigger \in Triggers
      BY <2>1 DEF RightsInv
    <3>2. trigger.domain # None => d \in Domains
      BY <2>1, <3>1 DEF Triggers
    <3>3. trigger.domain # None => d \in rights' \/ iDomainRightsResp' = d
      BY <2>3, <3>2 DEF StoreRights
    <3> QED BY <2>1, <2>3, <3>1, <3>3 DEF RightsInv
  <2> QED BY <2>2, <2>3 DEF RightsInv
<1>8. ASSUME NEW chain, NEW damaged, HandleJoinDomainResponse(chain, damaged)
      PROVE RightsInv'
  <2>1. iReqMessage' = "none"
    BY <1>8 DEF HandleJoinDomainResponse, AnswerFails, Continues, Ends
  <2> QED BY <2>1 DEF RightsInv
<1>9. CASE HandleLeaveDomainResponse
  <2>1. iReqMessage' = "none"
    BY <1>9 DEF HandleLeaveDomainResponse, Continues, Ends
  <2> QED BY <2>1 DEF RightsInv
<1>10. ASSUME NEW ri, NEW d, NEW chain, NEW damaged, OnePassRightsResponse(ri, d, chain, damaged)
       PROVE RightsInv'
  <2>1. iReqMessage' = "none"
    BY <1>10 DEF OnePassRightsResponse, GetRIContextLeaves, Ends
  <2> QED BY <2>1 DEF RightsInv
<1>11. ASSUME UserSetsTime \/ ClockLost \/ (\E ri : Expires(ri)) \/ UNCHANGED vars
       PROVE RightsInv'
  <2>1. UNCHANGED <<trigger, iReqMessage, rights, iDomainRightsResp>>
    BY <1>11 DEF UserSetsTime, ClockLost, Expires, vars
  <2> QED BY <2>1 DEF RightsInv
<1> QED BY <1>1, <1>2, <1>3, <1>4, <1>5, <1>6, <1>7, <1>8, <1>9, <1>10, <1>11 DEF Next

(* A trigger is done by an answer, and the one for rights by two of them only. *)
LEMMA DoneStep ==
  ASSUME RightsInv, [Next]_vars, ~UNCHANGED vars, outcome' = "done", iReqMessage # "none",
         trigger.type = "rights", trigger.domain # None
  PROVE  trigger.domain \in rights'
<1> USE DEF phase, exchange, domain
<1>1. trigger \in Triggers /\ trigger.domain \in Domains
  BY DEF RightsInv, Triggers
<1>2. \/ \E d, chain, damaged : HandleRightsResponse(d, chain, damaged)
      \/ \E chain, damaged : HandleJoinDomainResponse(chain, damaged)
  <2>1. /\ \A t : ~Trigger(t)
        /\ \A ri, d, chain, damaged : ~OnePassRightsResponse(ri, d, chain, damaged)
    BY DEF Trigger, OnePassRightsResponse
  <2>2. /\ ~CreateDeviceHello /\ ~CreateRegistrationRequest /\ ~CreateRightsRequest
        /\ ~CreateJoinDomainRequest /\ ~CreateLeaveDomainRequest /\ ~CannotCreate /\ ~Lost
    BY DEF CreateDeviceHello, CreateRegistrationRequest, CreateRightsRequest,
       CreateJoinDomainRequest, CreateLeaveDomainRequest, CannotCreate, Lost, Sends, Ends
  <2>3. \A status : ~Refused(status)
    BY DEF Refused, Continues, Ends
  <2>4. \A peer, caching, trusted : ~HandleRIHello(peer, caching, trusted)
    BY DEF HandleRIHello, Continues, Ends
  <2>5. \A chain, ocsp, updated, damaged : ~HandleReqResponse(chain, ocsp, updated, damaged)
    BY NextMessage DEF HandleReqResponse, Continues, Ends
  <2>6. ~HandleLeaveDomainResponse
    BY DEF HandleLeaveDomainResponse, RightsInv
  <2>7. ~UserSetsTime /\ ~ClockLost /\ \A ri : ~Expires(ri)
    <3>1. UserSetsTime \/ ClockLost \/ (\E ri : Expires(ri)) => outcome' = "none"
      BY DEF UserSetsTime, ClockLost, Expires, Event
    <3> QED BY <3>1
  <2> QED BY <2>1, <2>2, <2>3, <2>4, <2>5, <2>6, <2>7 DEF Next
<1>3. ASSUME NEW d, NEW chain, NEW damaged, HandleRightsResponse(d, chain, damaged)
      PROVE  trigger.domain \in rights'
  <2>1. d = trigger.domain
    BY <1>3 DEF HandleRightsResponse
  <2>2. StoreRights(d) /\ ~iImplicitJoinDomain'
    BY <1>3 DEF HandleRightsResponse, AnswerFails, Continues, Ends
  <2> QED BY <1>1, <2>1, <2>2 DEF StoreRights
<1>4. ASSUME NEW chain, NEW damaged, HandleJoinDomainResponse(chain, damaged)
      PROVE  trigger.domain \in rights'
  <2>1. /\ iReqMessage = "EJoinDomain"
        /\ IF iDomainRightsResp # None THEN StoreDomainRights
           ELSE UNCHANGED <<iImplicitJoinDomain, iDomainRightsResp, rights>>
    BY <1>4 DEF HandleJoinDomainResponse, AnswerFails, Ends
  <2>2. trigger.domain \in rights \/ iDomainRightsResp = trigger.domain
    BY <2>1 DEF RightsInv
  <2> QED BY <2>1, <2>2 DEF StoreDomainRights
<1> QED BY <1>2, <1>3, <1>4

(* A trigger for the rights of a domain ends well only with them stored        *)
(* (RoapEng.cpp, StoreRightsL and StoreDomainRightsL).                       *)
THEOREM RightsStored == Spec => RightsStoredWhenDone
<1>1. Init => RightsInv
  BY DEF Init, RightsInv
<1>2. RightsInv /\ [Next]_vars =>
        [outcome' = "done" /\ iReqMessage # "none" /\ trigger.type = "rights"
           /\ trigger.domain # None => trigger.domain \in rights']_vars
  BY DoneStep
<1> QED BY <1>1, <1>2, InitTime, NextTime, NextRights, PTL DEF Spec, RightsStoredWhenDone
=============================================================================
