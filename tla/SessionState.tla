---------------------------- MODULE SessionState ----------------------------
(***************************************************************************)
(* Class SessionState of server/session.py: the set of used request nonces *)
(* and the cache of pending login challenges, both in memory and both      *)
(* behind one lock, so that every method is one atomic step.               *)
(*                                                                         *)
(* os.urandom(CHALLENGE_LEN) never repeats a challenge: challenges are the *)
(* numbers 0, 1, 2, ... in the order of issue.  time.monotonic() is the    *)
(* variable clock.                                                         *)
(***************************************************************************)
EXTENDS Formats

CONSTANTS EmptyNonce,  \* the empty string in the nonce field
          NoChallenge, \* no challenge is cached
          Ttl          \* CHALLENGE_TTL_SECONDS

ASSUME TtlAssumption == Ttl \in Nat
ASSUME NoChallengeAssumption ==
    /\ NoChallenge \notin Nat
    /\ NoChallenge \notin [value : Nat, issued_at : Nat]

VARIABLES usedNonces,    \* _used_nonces
          challenges,    \* _challenges: at most one per username
          nextChallenge, \* how many challenges have been drawn
          clock          \* time.monotonic()

sessionVars == <<usedNonces, challenges, nextChallenge, clock>>

Challenge == [value : Nat, issued_at : Nat]

SessionTypeOK ==
    /\ usedNonces \subseteq Nonce
    /\ challenges \in [User -> Challenge \cup {NoChallenge}]
    /\ nextChallenge \in Nat
    /\ clock \in Nat

SessionInit ==
    /\ usedNonces = {}
    /\ challenges = [u \in User |-> NoChallenge]
    /\ nextChallenge = 0
    /\ clock = 0

(* A pending challenge of the same user is overwritten.                    *)
issue_challenge(u) ==
    /\ challenges' = [challenges EXCEPT ![u] = [value |-> nextChallenge, issued_at |-> clock]]
    /\ nextChallenge' = nextChallenge + 1
    /\ UNCHANGED <<usedNonces, clock>>

(* What consume_challenge returns: the cached challenge, unless there is   *)
(* none or it is older than the time to live.                              *)
consumed(u) ==
    IF challenges[u] # NoChallenge /\ clock - challenges[u].issued_at <= Ttl
    THEN challenges[u].value
    ELSE NoChallenge

consume_challenge_without_pop(u) == UNCHANGED sessionVars

(* The challenge is popped whatever is returned.                           *)
consume_challenge(u) ==
    /\ challenges' = [challenges EXCEPT ![u] = NoChallenge]
    /\ UNCHANGED <<usedNonces, nextChallenge, clock>>

fresh_without_lookup(n) == n # EmptyNonce

(* check_and_consume_nonce returning True.                                 *)
fresh(n) == n # EmptyNonce /\ n \notin usedNonces

consume_nonce(n) ==
    /\ fresh(n)
    /\ usedNonces' = usedNonces \cup {n}
    /\ UNCHANGED <<challenges, nextChallenge, clock>>
=============================================================================
