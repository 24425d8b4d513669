---------------------------- MODULE ServerProofs ----------------------------
(***************************************************************************)
(* The concurrent handlers of the server implement the atomic requests of  *)
(* Organization, for any set of tasks and of requests.  What is proved of  *)
(* Organization is therefore true of the server.                           *)
(***************************************************************************)
EXTENDS HandlerProofs, CommonProofs, KeyProofs, FiniteSetTheorems

(***************************************************************************)
(* The facts about finite sets that the proofs use.                        *)
(***************************************************************************)

LEMMA FiniteSetFactsHold == FiniteSetFacts
  <1>1. ASSUME NEW S, IsFiniteSet(S)
        PROVE  Cardinality(S) \in Nat /\ (Cardinality(S) = 0 <=> S = {})
    BY <1>1, FS_CardinalityType, FS_EmptySet, ZenonT(30)
  <1>2. ASSUME NEW S, NEW x, IsFiniteSet(S)
        PROVE  /\ IsFiniteSet(S \cup {x}) /\ IsFiniteSet(S \ {x})
               /\ x \notin S => Cardinality(S \cup {x}) = Cardinality(S) + 1
               /\ x \in S => Cardinality(S \ {x}) = Cardinality(S) - 1
    BY <1>2, FS_AddElement, FS_RemoveElement, ZenonT(30)
  <1>3. ASSUME NEW S, NEW T, IsFiniteSet(S), T \subseteq S
        PROVE  IsFiniteSet(T) /\ Cardinality(T) <= Cardinality(S)
    BY <1>3, FS_Subset, ZenonT(30)
  <1> QED
    BY <1>1, <1>2, <1>3, FS_EmptySet, ZenonT(30) DEF FiniteSetFacts

(***************************************************************************)
(* Enrollments and the update log.                                         *)
(***************************************************************************)

\* However users are enrolled and revoked, the active ones stay within the limit of the
\* organization and are all different humans: create_user checks both under the lock its
\* insertion is made under, and only a revocation frees a seat or a handle.
THEOREM EnrollmentStaysLimited == Spec => []EnrollmentIsLimited
  <1>1. Init => EnrollmentInv
    BY FiniteSetFactsHold, EnrollmentInvInit, ZenonT(30)
  <1>2. EnrollmentInv /\ [Next]_vars => EnrollmentInv'
    BY FiniteSetFactsHold, EnrollmentInvIsInductive, ZenonT(30)
  <1> QED
    BY <1>1, <1>2, EnrollmentInvLimits, PTL DEF Spec

\* Whatever vlobs are created and updated, a client that polls from any checkpoint
\* learns the current version of every vlob changed since, and no version is missing
\* from the update log or twice in it.
THEOREM PollStaysComplete == Spec => []PollIsComplete
  <1>1. Init => PollInv
    BY FiniteSetFactsHold, PollInvInit, Zenon
  <1>2. PollInv /\ [Next]_vars => PollInv'
    BY FiniteSetFactsHold, PollInvIsInductive, Zenon
  <1> QED
    BY <1>1, <1>2, PollAnswersCurrent, PTL DEF Spec

(***************************************************************************)
(* The server.                                                             *)
(***************************************************************************)

\* The concurrent server implements Organization: whatever the interleaving of
\* the handlers in memory/{organization,user,realm,vlob}.py, their lock waits and
\* webhook calls, each step is invisible or one whole request of Organization
\* (at most one request creates a given vlob while webhooks are awaited).
THEOREM ServerImplementsOrganization ==
    ASSUME OneCreator
    PROVE  ServerSpec => Spec
  <1>1. ServerInit => Init /\ ServerInv
    BY FiniteSetFactsHold, ServerInvInit, ZenonT(30) DEF ServerInit
  <1>2. ServerInv /\ [ServerNext]_serverVars => ServerInv' /\ [Next]_vars
    BY ServerStep, ZenonT(30) DEF AtomicStep
  <1> QED
    BY <1>1, <1>2, PTL DEF ServerSpec, Spec

\* The same, as the step property the model checker checks.
THEOREM ServerStepsAreAtomic ==
    ASSUME OneCreator
    PROVE  ServerSpec => StepsAreAtomic
  <1>1. ServerInit => ServerInv
    BY FiniteSetFactsHold, ServerInvInit, ZenonT(30)
  <1>2. ServerInv /\ [ServerNext]_serverVars => ServerInv' /\ [UNCHANGED vars \/ Next]_vars
    BY ServerStep, ZenonT(30) DEF AtomicStep
  <1> QED
    BY <1>1, <1>2, PTL DEF ServerSpec, StepsAreAtomic

\* The topic timestamps a lock returned to a handler are still the last ones of
\* their topics whenever the handler resumes and compares its certificate with
\* them.
THEOREM SeenStaysCurrent == ServerSpec => []SeenIsCurrent
  <1>1. ServerInit => ServerInv
    BY FiniteSetFactsHold, ServerInvInit, Zenon
  <1>2. ServerInv /\ [ServerNext]_serverVars => ServerInv'
    BY ServerStep, ZenonT(30)
  <1>3. ServerInv => SeenIsCurrent
    BY ZenonT(40) DEF ServerInv, Phase, NestedPhase, WebhookPhase, SeenIsCurrent
  <1> QED
    BY <1>1, <1>2, <1>3, PTL DEF ServerSpec

\* A topic that a suspended handler has write locked is locked by no other
\* handler, in the locks the handlers really take.
THEOREM SuspendedHandlersExclude == ServerSpec => []HandlersExclude
  <1>1. ServerInit => ServerInv
    BY FiniteSetFactsHold, ServerInvInit, Zenon
  <1>2. ServerInv /\ [ServerNext]_serverVars => ServerInv'
    BY ServerStep, Zenon
  <1>3. ServerInv => HandlersExclude
    BY ZenonT(30) DEF ServerInv, Books, Exclusive, HandlersExclude
  <1> QED
    BY <1>1, <1>2, <1>3, PTL DEF ServerSpec

\* What the server stores and answers while its handlers interleave is what the
\* clients accept: every vlob and certificate, the keys and the revocations, an
\* owner in every realm and an administrator in the organization, enrollments
\* within the limit and a poll that misses nothing.
THEOREM ServerStoresAcceptable ==
    ASSUME OneCreator
    PROVE  ServerSpec => [](/\ VlobsAcceptable /\ RealmCertsAcceptable /\ CommonCertsAcceptable
                            /\ KeysFollowRoles /\ RevocationIsCausal
                            /\ RealmHasOwner /\ ActiveAdminExists
                            /\ EnrollmentIsLimited /\ PollIsComplete)
  BY ServerImplementsOrganization, StoredVlobsAcceptable, StoredRealmCertsAcceptable,
     StoredCommonCertsAcceptable, KeysAlwaysFollowRoles, RevocationsAreCausal, RealmKeepsOwner,
     AdminRemainsActive, EnrollmentStaysLimited, PollStaysComplete, PTL
=============================================================================
