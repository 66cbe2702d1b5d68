----------------------------- MODULE RoapEngine -----------------------------
(***************************************************************************)
(* The rights object acquisition protocol of breakdeps/DRMEngine/RoapEng.cpp*)
(* as the device runs it: a trigger names a rights issuer and what to get  *)
(* from it, and the engine exchanges one request and one response at a time*)
(* with the issuer, registering first (Device Hello, Registration) when the*)
(* stored context is missing, expired or no longer known to the issuer.    *)
(*                                                                         *)
(* One engine serves one trigger after another and keeps its members in    *)
(* between.  Which message comes next is the base class's choice; what the *)
(* issuer sees of a request is in request, and issuers are honest: they    *)
(* accept what they can check and refuse what they cannot.  Each response  *)
(* may be lost or damaged, and each call of a server may leave.            *)
(***************************************************************************)
EXTENDS Naturals, Sequences

CONSTANTS Issuers, Domains, Roots,
          DefaultRoot,      \* the root the key storage selects for a null key
          None,
          MaxTriggers,      \* bound: triggers and one-pass responses
          MaxEvents         \* bound: changes of the clock and expiries

ASSUME RootAssumption == DefaultRoot \in Roots

VARIABLES
  trigger, iReqMessage, waiting, retried,   \* the exchange, and where it is
  request,               \* iRequest as the issuer sees it
  helloCaching,          \* iResponse, when it is an RI Hello: its certificate caching
  iStoredRiContext, iRiSupportsCertCaching, iCertNeeded, iSelectedRoot, iDeviceId,
  iDeviceTimeError, iSecureTime,
  iDomainId, iImplicitJoinDomain, iDomainRightsResp,
  requests, responses,   \* the message chains of iSigner
  riContext, expired,    \* the server's contexts, and those past their expiry
  domains, rights, storedRoot,   \* kept by the servers as well
  clock,                 \* DRM time: is it secure, is it right
  knows, members,        \* the issuers: device certificates kept, domain members
  shown,                 \* history: the request that waits told the time the clock shows
  brokenOff,             \* history: a handshake ended before its last response
  outcome,               \* of the last step: "done", "failed" or "none"
  triggers, events

exchange == <<trigger, retried>>
phase == <<iReqMessage, waiting, request>>
cert == <<iRiSupportsCertCaching, iCertNeeded>>
root == <<iSelectedRoot, storedRoot>>
time == <<iSecureTime, iDeviceTimeError, clock>>
domain == <<iDomainId, iImplicitJoinDomain, iDomainRightsResp, domains, rights>>
signer == <<requests, responses>>
contexts == <<riContext, expired>>
bounds == <<triggers, events>>
issuer == <<knows, members>>
vars == <<exchange, phase, helloCaching, iStoredRiContext, cert, root, iDeviceId, time,
          domain, signer, contexts, issuer, shown, brokenOff, outcome, bounds>>

Contexts == [root : Roots, caching : BOOLEAN, ocsp : BOOLEAN]
Triggers == [type : {"registration", "rights", "join", "leave"}, ri : Issuers,
             domain : Domains \cup {None}]

ASSUME NoneAssumption == None \notin Issuers \cup Domains \cup Roots /\ None \notin Contexts

\* What the trigger asks for once the device is registered.
MessageOf(t) == CASE t.type = "rights" -> "EROAcquisition"
                  [] t.type = "join" -> "EJoinDomain"
                  [] t.type = "leave" -> "ELeaveDomain"
                  [] OTHER -> "none"

(* The engine has just been constructed; the contexts, the domains and the *)
(* certificates kept by the issuers come from earlier engines, and so does *)
(* iDeviceId, which is read before the default root is selected.           *)
Init ==
  /\ trigger = None /\ iReqMessage = "none" /\ waiting = FALSE /\ retried = FALSE
  /\ request = None /\ helloCaching = None
  /\ iStoredRiContext = None /\ iRiSupportsCertCaching = FALSE /\ iCertNeeded = TRUE
  /\ iSelectedRoot = DefaultRoot /\ storedRoot = DefaultRoot /\ iDeviceId \in Roots
  /\ iDeviceTimeError = FALSE /\ iSecureTime = TRUE
  /\ iDomainId = None /\ iImplicitJoinDomain = FALSE /\ iDomainRightsResp = None
  /\ requests = <<>> /\ responses = <<>>
  /\ riContext \in [Issuers -> {None} \cup Contexts] /\ expired = {}
  /\ knows = [ri \in Issuers |-> IF riContext[ri] # None /\ riContext[ri].caching
                                 THEN {riContext[ri].root} ELSE {}]
  /\ domains = {} /\ members = {} /\ rights = {}
  /\ clock \in [secure : BOOLEAN, right : BOOLEAN]
  /\ clock.secure => clock.right
  /\ shown = FALSE /\ brokenOff = FALSE /\ outcome = "none" /\ triggers = 0 /\ events = 0

-----------------------------------------------------------------------------
(* What the steps have in common.                                          *)

\* The base class drops the trigger and the messages of an exchange that ends.
Ends(result) ==
  /\ iReqMessage' = "none" /\ waiting' = FALSE /\ request' = None /\ shown' = FALSE
  /\ trigger' = None /\ retried' = FALSE /\ helloCaching' = None
  /\ outcome' = result

Continues(message) ==
  IF message = "none" THEN Ends("done")
  ELSE /\ iReqMessage' = message /\ waiting' = FALSE /\ request' = None /\ shown' = FALSE
       /\ retried' = (retried \/ message = "EDeviceHello")
       /\ outcome' = "none"
       /\ UNCHANGED trigger

SelectTrustedRoot(newRoot) == iSelectedRoot' = newRoot /\ storedRoot' = newRoot

(* The stored context of an issuer and its root are selected.  Its expiry is*)
(* compared with DRM time, which a wrong clock gets wrong.  The selection  *)
(* may leave halfway: the key storage has no usable root then.             *)
GetRIContext(ri, registered) ==
  IF riContext[ri] = None
  THEN ~registered /\ UNCHANGED <<iRiSupportsCertCaching, root>>
  ELSE /\ iRiSupportsCertCaching' = riContext[ri].caching
       /\ SelectTrustedRoot(riContext[ri].root)
       /\ clock.right => registered = (ri \notin expired)

ContextFound(ri, registered) == IF registered THEN riContext[ri] ELSE None
TimeReadWith(ri) == IF riContext[ri] = None THEN iSecureTime ELSE clock.secure

GetRIContextLeaves(ri) ==
  /\ riContext[ri] # None
  /\ iStoredRiContext' = riContext[ri]
  /\ iRiSupportsCertCaching' = riContext[ri].caching
  /\ iSelectedRoot' = riContext[ri].root /\ storedRoot' = None
  /\ UNCHANGED iSecureTime
  /\ Ends("failed")

(* DRM time becomes secure with whatever it shows now.                     *)
SetDrmTimeSecure == clock' = [clock EXCEPT !.secure = TRUE] /\ iSecureTime' = TRUE

SecureIfAccepted ==
  IF iSecureTime THEN UNCHANGED <<clock, iSecureTime>> ELSE SetDrmTimeSecure

\* The chain a request's signature covers, and the one its response's does.
Covers(message) == IF message = "ERegistration"
                   THEN <<"EDeviceHello", "RIHello", "ERegistration">> ELSE <<message>>
Answers(message) == IF message = "ERegistration" THEN <<"ERegistration">> ELSE <<>>

Handshake == iReqMessage \in {"EDeviceHello", "ERegistration"}

-----------------------------------------------------------------------------
(* A trigger.  The context of its issuer is looked up; selecting the root  *)
(* of the context may leave halfway.  The base class may drop the rights   *)
(* that wait for a domain.                                                 *)
Trigger(t) ==
  /\ iReqMessage = "none" /\ triggers < MaxTriggers /\ triggers' = triggers + 1
  /\ t.type \in {"join", "leave"} => t.domain # None
  /\ t.type = "registration" => t.domain = None
  /\ \/ UNCHANGED <<iImplicitJoinDomain, iDomainRightsResp>>
     \/ iImplicitJoinDomain' = FALSE /\ iDomainRightsResp' = None
  /\ \/ \E registered \in BOOLEAN :
          /\ GetRIContext(t.ri, registered)
          /\ iStoredRiContext' = ContextFound(t.ri, registered)
          /\ iSecureTime' = TimeReadWith(t.ri)
          /\ trigger' = t
          /\ iReqMessage' = IF registered /\ t.type # "registration"
                            THEN MessageOf(t) ELSE "EDeviceHello"
          /\ outcome' = "none"
          /\ UNCHANGED <<waiting, request, retried, helloCaching, shown>>
     \/ GetRIContextLeaves(t.ri)
  /\ UNCHANGED <<iCertNeeded, iDeviceId, iDeviceTimeError, clock, iDomainId, domains, rights,
                 signer, contexts, issuer, brokenOff, events>>

-----------------------------------------------------------------------------
(* The requests.  Signing a Device Hello starts the signing chain anew.    *)

Creates(message) == iReqMessage = message /\ ~waiting

ResetRequests == requests' = <<>>

Sends(withChain, withOcsp, forDomain) ==
  /\ waiting' = TRUE /\ outcome' = "none" /\ UNCHANGED iReqMessage
  /\ request' = [root |-> storedRoot, chain |-> withChain, ocspStored |-> withOcsp,
                 timeRight |-> clock.right, domain |-> forDomain,
                 signed |-> Append(requests, iReqMessage)]
  /\ ResetRequests
  /\ iSecureTime' = clock.secure
  /\ shown' = TRUE

CreateDeviceHello ==
  /\ Creates("EDeviceHello")
  /\ waiting' = TRUE /\ outcome' = "none"
  /\ requests' = <<"EDeviceHello">> /\ responses' = <<>>
  /\ brokenOff' = FALSE
  /\ UNCHANGED <<exchange, iReqMessage, request, helloCaching, iStoredRiContext, cert, root,
                 iDeviceId, time, domain, contexts, issuer, shown, bounds>>

\* Mutant: the stored OCSP response is enough although the time is wrong.
OcspInfoStoredAnyway == iStoredRiContext # None /\ iStoredRiContext.ocsp

OcspInfoStored == iStoredRiContext # None /\ iStoredRiContext.ocsp /\ ~iDeviceTimeError

CreateRegistrationRequest ==
  /\ Creates("ERegistration")
  /\ Sends(iCertNeeded, OcspInfoStored, None)
  /\ responses' = Append(responses, "ERegistration")
  /\ iCertNeeded' = (iCertNeeded /\ ~helloCaching)
  /\ UNCHANGED <<exchange, helloCaching, iStoredRiContext, iRiSupportsCertCaching, root,
                 iDeviceId, iDeviceTimeError, clock, domain, contexts, issuer, brokenOff,
                 bounds>>

CreateRightsRequest ==
  /\ Creates("EROAcquisition")
  /\ Sends(~iRiSupportsCertCaching, FALSE, trigger.domain)
  /\ iDeviceId' = storedRoot
  /\ UNCHANGED <<exchange, helloCaching, iStoredRiContext, cert, root, iDeviceTimeError, clock,
                 domain, responses, contexts, issuer, brokenOff, bounds>>

(* The domain is the trigger's, or that of the rights which wait for it.   *)
CreateJoinDomainRequest ==
  LET joined == IF trigger.domain # None THEN trigger.domain
                ELSE IF trigger.type = "rights" THEN iDomainId ELSE None
  IN  /\ Creates("EJoinDomain")
      /\ joined # None
      /\ Sends(~iRiSupportsCertCaching, FALSE, joined)
      /\ iDeviceId' = storedRoot
      /\ iDomainId' = joined
      /\ UNCHANGED <<exchange, helloCaching, iStoredRiContext, cert, root, iDeviceTimeError,
                     clock, iImplicitJoinDomain, iDomainRightsResp, domains, rights, responses,
                     contexts, issuer, brokenOff, bounds>>

\* Mutant: the domain's context stays until the issuer answers.
DomainLeftLater == domains

DomainLeft == domains \ {trigger.domain}

(* The domain's context goes before the request does.                      *)
CreateLeaveDomainRequest ==
  /\ Creates("ELeaveDomain")
  /\ trigger.domain # None
  /\ domains' = DomainLeft
  /\ Sends(~iRiSupportsCertCaching, FALSE, trigger.domain)
  /\ iDeviceId' = storedRoot
  /\ UNCHANGED <<exchange, helloCaching, iStoredRiContext, cert, root, iDeviceTimeError, clock,
                 iDomainId, iImplicitJoinDomain, iDomainRightsResp, rights, responses,
                 contexts, issuer, brokenOff, bounds>>

(* A request that cannot be made: no domain to join or leave, no           *)
(* certificate chain, no memory.  What was done until then stays done.     *)
CannotCreate ==
  /\ iReqMessage # "none" /\ ~waiting
  /\ Ends("failed")
  /\ iSecureTime' \in {iSecureTime} \cup (IF iReqMessage # "EDeviceHello"
                                          THEN {clock.secure} ELSE {})
  /\ iDeviceId' \in {iDeviceId} \cup (IF Handshake THEN {} ELSE {storedRoot})
  /\ domains' \in {domains} \cup (IF iReqMessage = "ELeaveDomain"
                                  THEN {DomainLeft} ELSE {})
  /\ iDomainId' \in {iDomainId} \cup (IF iReqMessage = "EJoinDomain" /\ trigger.domain # None
                                      THEN {trigger.domain} ELSE {})
  /\ brokenOff' = (brokenOff \/ Handshake)
  /\ UNCHANGED <<iStoredRiContext, cert, root, iDeviceTimeError, clock,
                 iImplicitJoinDomain, iDomainRightsResp, rights, signer, contexts, issuer,
                 bounds>>

-----------------------------------------------------------------------------
(* The issuer.  It accepts what it can check, and what it does then it does*)
(* whether its answer arrives or not.                                      *)

Accepts ==
  /\ request # None /\ request.signed = Covers(iReqMessage)
  /\ ~request.chain => request.root \in knows[trigger.ri]
  /\ iReqMessage # "ERegistration" => request.timeRight

IssuerActs ==
  /\ knows' = IF iReqMessage = "ERegistration" /\ request.chain /\ iRiSupportsCertCaching
              THEN [knows EXCEPT ![trigger.ri] = @ \cup {request.root}] ELSE knows
  /\ members' = CASE iReqMessage = "EJoinDomain" -> members \cup {request.domain}
                  [] iReqMessage = "ELeaveDomain" -> members \ {request.domain}
                  [] OTHER -> members

Refusals ==
  IF iReqMessage = "EDeviceHello" \/ Accepts THEN {"ENotRegistered", "EAbort"}
  ELSE IF iReqMessage # "ERegistration" /\ ~request.timeRight THEN {"EDeviceTimeError"}
  ELSE {"EAbort"}

(* The network fails, or what arrives cannot be parsed.                    *)
Lost ==
  /\ waiting
  /\ Ends("failed")
  /\ \/ UNCHANGED issuer
     \/ Accepts /\ IssuerActs
  /\ brokenOff' = (brokenOff \/ Handshake)
  /\ UNCHANGED <<iStoredRiContext, cert, root, iDeviceId, time, domain,
                 signer, contexts, bounds>>

(* An answer with an error status, and MapStatusL: the device registers    *)
(* again, once, if that may help.                                          *)
Refused(status) ==
  /\ waiting /\ status \in Refusals
  /\ helloCaching' = None
  /\ responses' = IF iReqMessage \in {"ERegistration", "EROAcquisition", "EJoinDomain"}
                  THEN <<>> ELSE responses
  /\ iDeviceTimeError' = (iDeviceTimeError \/ status = "EDeviceTimeError")
  /\ IF status # "EAbort" /\ ~retried THEN Continues("EDeviceHello") ELSE Ends("failed")
  /\ brokenOff' = (brokenOff \/ iReqMessage = "EDeviceHello")
  /\ UNCHANGED <<iStoredRiContext, cert, root, iDeviceId, iSecureTime, clock, domain,
                 requests, contexts, issuer, bounds>>

CertNeeded(peer, caching) == peer \notin {"any", iDeviceId}

RootChosen(trusted) ==
  IF trusted # None THEN trusted
  ELSE IF iStoredRiContext # None THEN iStoredRiContext.root ELSE DefaultRoot

KeepsRoot(trusted) ==
  trusted = None /\ iStoredRiContext # None /\ iSelectedRoot = iStoredRiContext.root

(* The RI Hello: peer is the device certificate the issuer says it keeps,  *)
(* if it does ("any" if it does not say which), and trusted the first root *)
(* of its list that the device has.  Selecting a root may leave.           *)
HandleRIHello(peer, caching, trusted) ==
  /\ waiting /\ iReqMessage = "EDeviceHello"
  /\ peer # None => IF peer = "any" THEN knows[trigger.ri] # {} ELSE peer \in knows[trigger.ri]
  /\ iCertNeeded' = CertNeeded(peer, caching)
  /\ iRiSupportsCertCaching' = (peer # None \/ caching)
  /\ \/ /\ IF KeepsRoot(trusted) THEN UNCHANGED root ELSE SelectTrustedRoot(RootChosen(trusted))
        /\ requests' = Append(requests, "RIHello")
        /\ helloCaching' = caching
        /\ Continues("ERegistration")
        /\ UNCHANGED brokenOff
     \/ /\ ~KeepsRoot(trusted)
        /\ iSelectedRoot' \in {iSelectedRoot, RootChosen(trusted)} /\ storedRoot' = None
        /\ Ends("failed")
        /\ brokenOff' = TRUE /\ UNCHANGED requests
  /\ UNCHANGED <<iStoredRiContext, iDeviceId, time, domain, responses, contexts, issuer, bounds>>

(* The certificate chain of a response is checked and, if it is newer, kept*)
(* with the stored context.                                                *)
UpdatedContext(context) == [context EXCEPT !.ocsp = TRUE]

KeepsChain(ri, context, chain) ==
  \/ iStoredRiContext' = context /\ UNCHANGED riContext
  \/ /\ chain /\ context # None
     /\ iStoredRiContext' = UpdatedContext(context)
     /\ riContext' \in {riContext, [riContext EXCEPT ![ri] = UpdatedContext(context)]}

SignatureHolds(message) == responses = Answers(message)

\* Mutant: the time is taken as secure although nobody has vouched for it.
AdjustDrmTimeAlways(updated) ==
  clock' = [secure |-> TRUE, right |-> updated \/ clock.right]

AdjustDrmTime(updated) ==
  clock' = IF updated THEN [secure |-> TRUE, right |-> TRUE] ELSE clock

(* The registration response.  An honest issuer leaves the certificate     *)
(* chain out when the device has a context, and the OCSP response when the *)
(* device says it has one.  With an OCSP response the server may set the   *)
(* time or not; the registration goes on either way.                       *)
HandleReqResponse(chain, ocsp, updated, damaged) ==
  /\ waiting /\ iReqMessage = "ERegistration" /\ Accepts
  /\ ~chain => iStoredRiContext # None
  /\ ~ocsp => request.ocspStored
  /\ updated => ocsp
  /\ IssuerActs
  /\ helloCaching' = None
  /\ AdjustDrmTime(updated)
  /\ iDeviceTimeError' = (iDeviceTimeError /\ ~updated)
  /\ IF ~damaged /\ SignatureHolds(iReqMessage)
     THEN /\ IF chain
             THEN /\ iStoredRiContext' = [root |-> iSelectedRoot, ocsp |-> ocsp,
                                          caching |-> iRiSupportsCertCaching]
                  /\ riContext' = [riContext EXCEPT ![trigger.ri] = iStoredRiContext']
                  /\ expired' = expired \ {trigger.ri}
                  /\ iSecureTime' = clock'.secure
             ELSE UNCHANGED <<iStoredRiContext, contexts, iSecureTime>>
          /\ responses' = <<>>
          /\ Continues(MessageOf(trigger))
          /\ UNCHANGED brokenOff
     ELSE /\ KeepsChain(trigger.ri, iStoredRiContext, chain /\ ocsp) /\ UNCHANGED expired
          /\ responses' \in {<<>>} \cup (IF damaged THEN {responses} ELSE {})
          /\ Ends("failed")
          /\ iSecureTime' \in {iSecureTime} \cup (IF chain THEN {clock'.secure} ELSE {})
          /\ brokenOff' = (responses' # <<>>)
  /\ UNCHANGED <<cert, root, iDeviceId, domain, requests, bounds>>

(* An answer whose chain or signature does not hold.                       *)
AnswerFails(chain, damaged) ==
  /\ damaged \/ ~SignatureHolds(iReqMessage)
  /\ KeepsChain(trigger.ri, iStoredRiContext, chain)
  /\ responses' \in {<<>>} \cup (IF damaged THEN {responses} ELSE {})
  /\ Ends("failed")

AnswerHolds(chain, damaged) ==
  /\ ~damaged /\ SignatureHolds(iReqMessage)
  /\ KeepsChain(trigger.ri, iStoredRiContext, chain)
  /\ responses' = <<>>

(* The rights of an answer are stored, or wait for their domain.           *)
StoreRights(d) ==
  IF d \in Domains \ domains
  THEN /\ iDomainId' = d /\ iDomainRightsResp' = d /\ iImplicitJoinDomain' = TRUE
       /\ UNCHANGED rights
  ELSE /\ rights' = rights \cup ({d} \cap Domains)
       /\ UNCHANGED <<iDomainId, iDomainRightsResp, iImplicitJoinDomain>>

(* The rights response; storing the rights may fail, and so may making the *)
(* time secure after they are stored.                                      *)
HandleRightsResponse(d, chain, damaged) ==
  /\ waiting /\ iReqMessage = "EROAcquisition" /\ Accepts
  /\ trigger.domain # None => d = trigger.domain
  /\ helloCaching' = None
  /\ \/ /\ AnswerFails(chain, damaged)
        /\ UNCHANGED <<domain, clock, iSecureTime>>
     \/ /\ AnswerHolds(chain, damaged)
        /\ UNCHANGED domains
        /\ \/ /\ StoreRights(d)
              /\ SecureIfAccepted
              /\ Continues(IF iImplicitJoinDomain' THEN "EJoinDomain" ELSE "none")
           \/ /\ StoreRights(d) /\ ~iSecureTime
              /\ UNCHANGED <<clock, iSecureTime>>
              /\ Ends("failed")
           \/ /\ UNCHANGED <<iDomainId, iDomainRightsResp, iImplicitJoinDomain, rights>>
              /\ UNCHANGED <<clock, iSecureTime>>
              /\ Ends("failed")
  /\ UNCHANGED <<cert, root, iDeviceId, iDeviceTimeError, requests, issuer, expired, brokenOff, bounds>>

\* Mutant: the rights that wait are dropped once the domain is joined.
StoreDomainRightsNot ==
  /\ iDomainRightsResp \in domains'
  /\ iDomainRightsResp' = None /\ iImplicitJoinDomain' = FALSE
  /\ UNCHANGED rights

(* StoreDomainRightsL: the rights that wait are stored if their domain is  *)
(* joined now, and keep waiting if that fails.                             *)
StoreDomainRights ==
  /\ iDomainRightsResp \in domains'
  /\ rights' = rights \cup {iDomainRightsResp}
  /\ iDomainRightsResp' = None /\ iImplicitJoinDomain' = FALSE

HandleJoinDomainResponse(chain, damaged) ==
  /\ waiting /\ iReqMessage = "EJoinDomain" /\ Accepts /\ IssuerActs
  /\ helloCaching' = None
  /\ \/ /\ AnswerFails(chain, damaged)
        /\ UNCHANGED <<domain, clock, iSecureTime>>
     \/ /\ AnswerHolds(chain, damaged)
        /\ domains' = domains \cup {iDomainId} /\ iDomainId' = None
        /\ \/ /\ IF iDomainRightsResp # None THEN StoreDomainRights
                 ELSE UNCHANGED <<iImplicitJoinDomain, iDomainRightsResp, rights>>
              /\ SecureIfAccepted
              /\ Continues("none")
           \/ /\ iDomainRightsResp # None \/ ~iSecureTime
              /\ UNCHANGED <<iImplicitJoinDomain, iDomainRightsResp, rights, clock, iSecureTime>>
              /\ Ends("failed")
  /\ UNCHANGED <<cert, root, iDeviceId, iDeviceTimeError, requests, expired, brokenOff,
                 bounds>>

HandleLeaveDomainResponse ==
  /\ waiting /\ iReqMessage = "ELeaveDomain" /\ Accepts /\ IssuerActs
  /\ helloCaching' = None
  /\ Continues("none")
  /\ UNCHANGED <<iStoredRiContext, cert, root, iDeviceId, time, domain, signer,
                 contexts, brokenOff, bounds>>

(* A rights response nobody asked for: only the context of its issuer makes*)
(* it acceptable.  The issuer knows the device by the key of that context. *)
OnePassRightsResponse(ri, d, chain, damaged) ==
  /\ iReqMessage = "none" /\ triggers < MaxTriggers /\ triggers' = triggers + 1
  /\ \/ \E registered \in BOOLEAN :
          /\ GetRIContext(ri, registered)
          /\ \/ /\ registered /\ ~damaged
                /\ riContext[ri].root = iDeviceId /\ responses = <<>>
                /\ KeepsChain(ri, riContext[ri], chain)
                /\ StoreRights(d)
                /\ SetDrmTimeSecure
                /\ UNCHANGED responses
                /\ Ends("done")
             \/ /\ KeepsChain(ri, ContextFound(ri, registered), chain)
                /\ iSecureTime' = TimeReadWith(ri)
                /\ responses' \in {responses, <<>>}
                /\ \/ registered /\ StoreRights(d)
                   \/ UNCHANGED <<iDomainId, iDomainRightsResp, iImplicitJoinDomain, rights>>
                /\ Ends("failed")
                /\ UNCHANGED clock
     \/ /\ GetRIContextLeaves(ri)
        /\ UNCHANGED <<iDomainId, iDomainRightsResp, iImplicitJoinDomain, rights, clock,
                       riContext, responses>>
  /\ UNCHANGED <<iCertNeeded, iDeviceId, iDeviceTimeError, domains,
                 requests, expired, issuer, brokenOff, events>>

-----------------------------------------------------------------------------
(* Around the engine: the user sets the time while it is not secure, the   *)
(* battery is taken out, and contexts expire.                              *)

Event == events < MaxEvents /\ events' = events + 1 /\ outcome' = "none"

UserSetsTime ==
  /\ ~clock.secure
  /\ clock' = [clock EXCEPT !.right = ~@]
  /\ shown' = FALSE /\ Event
  /\ UNCHANGED <<exchange, phase, helloCaching, iStoredRiContext, cert, root, iDeviceId,
                 iSecureTime, iDeviceTimeError, domain, signer, contexts, issuer, brokenOff,
                 triggers>>

ClockLost ==
  /\ clock.secure
  /\ \E right \in BOOLEAN : clock' = [secure |-> FALSE, right |-> right]
  /\ shown' = FALSE /\ Event
  /\ UNCHANGED <<exchange, phase, helloCaching, iStoredRiContext, cert, root, iDeviceId,
                 iSecureTime, iDeviceTimeError, domain, signer, contexts, issuer, brokenOff,
                 triggers>>

Expires(ri) ==
  /\ riContext[ri] # None /\ ri \notin expired
  /\ expired' = expired \cup {ri}
  /\ Event
  /\ UNCHANGED <<exchange, phase, helloCaching, iStoredRiContext, cert, root, iDeviceId, time,
                 domain, signer, riContext, issuer, shown, brokenOff, triggers>>

Next ==
  \/ \E t \in Triggers : Trigger(t)
  \/ CreateDeviceHello \/ CreateRegistrationRequest \/ CreateRightsRequest
  \/ CreateJoinDomainRequest \/ CreateLeaveDomainRequest \/ CannotCreate
  \/ Lost
  \/ \E status \in {"ENotRegistered", "EDeviceTimeError", "EAbort"} : Refused(status)
  \/ \E peer \in Roots \cup {"any", None}, caching \in BOOLEAN, trusted \in Roots \cup {None} :
       HandleRIHello(peer, caching, trusted)
  \/ \E chain, ocsp, updated, damaged \in BOOLEAN :
       HandleReqResponse(chain, ocsp, updated, damaged)
  \/ \E d \in Domains \cup {None}, chain, damaged \in BOOLEAN :
       HandleRightsResponse(d, chain, damaged)
  \/ \E chain, damaged \in BOOLEAN : HandleJoinDomainResponse(chain, damaged)
  \/ HandleLeaveDomainResponse
  \/ \E ri \in Issuers, d \in Domains \cup {None}, chain, damaged \in BOOLEAN :
       OnePassRightsResponse(ri, d, chain, damaged)
  \/ UserSetsTime \/ ClockLost
  \/ \E ri \in Issuers : Expires(ri)

Spec == Init /\ [][Next]_vars

-----------------------------------------------------------------------------
(* Properties.                                                             *)

Messages == {"EDeviceHello", "ERegistration", "EROAcquisition", "EJoinDomain", "ELeaveDomain"}
Requests == [root : Roots, chain : BOOLEAN, ocspStored : BOOLEAN, timeRight : BOOLEAN,
             domain : Domains \cup {None}, signed : Seq(Messages \cup {"RIHello"})]

(* Every member has a value of its kind.                                   *)
TypeOK ==
  /\ trigger \in Triggers \cup {None} /\ iReqMessage \in Messages \cup {"none"}
  /\ waiting \in BOOLEAN /\ retried \in BOOLEAN
  /\ request \in Requests \cup {None} /\ helloCaching \in BOOLEAN \cup {None}
  /\ iStoredRiContext \in Contexts \cup {None}
  /\ iRiSupportsCertCaching \in BOOLEAN /\ iCertNeeded \in BOOLEAN
  /\ iSelectedRoot \in Roots /\ storedRoot \in Roots \cup {None} /\ iDeviceId \in Roots
  /\ iDeviceTimeError \in BOOLEAN /\ iSecureTime \in BOOLEAN
  /\ iDomainId \in Domains \cup {None} /\ iDomainRightsResp \in Domains \cup {None}
  /\ iImplicitJoinDomain \in BOOLEAN
  /\ requests \in Seq(Messages \cup {"RIHello"}) /\ responses \in Seq(Messages)
  /\ riContext \in [Issuers -> Contexts \cup {None}] /\ expired \subseteq Issuers
  /\ domains \subseteq Domains /\ members \subseteq Domains
  /\ rights \subseteq Domains
  /\ clock \in [secure : BOOLEAN, right : BOOLEAN]
  /\ knows \in [Issuers -> SUBSET Roots]
  /\ shown \in BOOLEAN /\ brokenOff \in BOOLEAN
  /\ outcome \in {"none", "done", "failed"} /\ triggers \in 0..MaxTriggers /\ events \in 0..MaxEvents

(* The engine has a rights issuer context whenever it is about to use it:  *)
(* the __ASSERT_ALWAYS of the requests and responses after registration    *)
(* never panics, whatever was refused, lost or expired before.             *)
ContextHeld ==
  iReqMessage \in {"EROAcquisition", "EJoinDomain", "ELeaveDomain"} => iStoredRiContext # None

(* What a request signs, and what its response is verified with, is the    *)
(* chain of this exchange and nothing of an earlier one, unless a handshake*)
(* was broken off and none has been started since.                         *)
ChainsAreOwn ==
  waiting /\ iReqMessage # "EDeviceHello" /\ ~brokenOff =>
    /\ request.signed = Covers(iReqMessage)
    /\ iReqMessage # "ELeaveDomain" => responses = Answers(iReqMessage)

(* A request is made with the key of the root that the engine has selected,*)
(* and leaves out the certificate chain only if the issuer keeps one.      *)
KeyOfRequest ==
  waiting /\ request # None =>
    /\ request.root = iSelectedRoot
    /\ request.chain \/ knows[trigger.ri] # {}

(* The device is a member of every domain it has a context of, although it *)
(* joins and leaves in two steps either of which may be the last.          *)
DomainsAgree == domains \subseteq members

(* The issuer has complained about the device's time.  Registering again   *)
(* succeeds only by a request that asks for an OCSP response, and the      *)
(* complaint is forgotten only with the time right and secure: if the      *)
(* server does not set the time by that response, the complaint stays and  *)
(* the next registration asks again.                                       *)
TimeRepaired ==
  [][iDeviceTimeError /\ iReqMessage = "ERegistration" /\ iReqMessage' # "ERegistration"
       /\ iReqMessage' # "EDeviceHello" /\ outcome' # "failed"
     => ~request.ocspStored /\ (~iDeviceTimeError' => clock'.right /\ clock'.secure)]_vars

(* An answer to a request does not make DRM time secure while it is wrong, *)
(* if the clock still shows what it showed when the request was made.      *)
SecuredTimeWasShown ==
  [][clock'.secure /\ ~clock.secure /\ ~clock'.right => ~(waiting /\ shown)]_vars

(* A trigger for the rights of a domain ends well only with them stored,   *)
(* through a domain joined on the way or not.                              *)
RightsStoredWhenDone ==
  [][outcome' = "done" /\ iReqMessage # "none" /\ trigger.type = "rights"
       /\ trigger.domain # None => trigger.domain \in rights']_vars

(* "Device DRM Time is insecure, but server thinks that the time is correct*)
(* -> Set DRM Time as secure" (RoapEng.cpp:1297): the time that is made    *)
(* secure is one the issuer has been told, or is right anyway.             *)
ServerThinksTimeCorrect ==
  [][clock'.secure /\ ~clock.secure => clock'.right \/ (waiting /\ shown)]_vars
=============================================================================
