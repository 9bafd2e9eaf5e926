----------------------------- MODULE Credentials -----------------------------
(***************************************************************************)
(* The secret broker and its vault (integrations/secrets.py), and the      *)
(* OAuth grants that keep their tokens in it (integrations/oauth.py).      *)
(* Every operation is one step: none of them suspends.                     *)
(*                                                                         *)
(* A credential is a number, in the order of their registration; secrets,  *)
(* scopes and URLs are left out, and so is the redaction of texts.         *)
(***************************************************************************)
EXTENDS Naturals, FiniteSets, Sequences, SequencesExt

CONSTANTS
    OAuthProviders, \* providers with a registered profile
    ClientId,       \* the credential of each profile's client id: registered before all others
    StateLife,      \* minutes a state token lives
    TokenLife,      \* minutes an access token lives
    MaxNow,         \* bound on time
    MaxSecret,      \* bound on the identifiers a secret is registered under
    MaxIssued       \* bound on the identifiers issued

ClientIds == {ClientId[p] : p \in OAuthProviders}

\* The client ids are registered when the process starts, before anything else.
ASSUME CredentialsAssumption ==
    /\ StateLife \in Nat /\ TokenLife \in Nat /\ MaxNow \in Nat /\ MaxSecret \in 0..MaxIssued /\ MaxIssued \in Nat
    /\ \E n \in 0..MaxIssued : ClientIds = 1..n

Forever == MaxNow + 1
NoToken == [access |-> 0, refresh |-> 0, expires |-> 0]

VARIABLES
    now,     \* minutes
    issued,  \* identifiers handed out so far
    vault,   \* SecretVault._store: credential -> the time it expires
    states,  \* OAuthManager._states: state token -> its provider and the time it expires
    tokens,  \* OAuthManager._tokens: provider -> its credentials and the time they expire
    granted  \* the state tokens that a token was issued for, in order

credentialVars == <<now, issued, vault, states, tokens, granted>>

Put(f, k, v) == [x \in DOMAIN f \cup {k} |-> IF x = k THEN v ELSE f[x]]
Drop(f, K)   == [x \in DOMAIN f \ K |-> f[x]]

\* lease_secret: the credential is known and has not expired.
Leasable(c) == c \in DOMAIN vault /\ now <= vault[c]

-----------------------------------------------------------------------------
RegisterSecret(life) ==
    /\ issued < MaxSecret
    /\ issued' = issued + 1
    /\ vault' = Put(vault, issued', life)
    /\ UNCHANGED <<now, states, tokens, granted>>

RevokeSecret(c) ==
    /\ c \in DOMAIN vault
    /\ vault' = Drop(vault, {c})
    /\ UNCHANGED <<now, issued, states, tokens, granted>>

StartAuthorization(p) ==
    /\ Leasable(ClientId[p]) /\ issued < MaxIssued
    /\ issued' = issued + 1
    /\ states' = Put(states, issued', [provider |-> p, expires |-> now + StateLife])
    /\ UNCHANGED <<now, vault, tokens, granted>>

\* Mutant: the state token is looked up and kept.
ConsumeKeeping(s) == UNCHANGED states

\* validate_and_consume_state: whatever comes of it, the state token is gone.
Consume(s) == states' = Drop(states, {s})

\* exchange_code: an expired token, or one of another provider, is consumed in vain.
ExchangeCode(p, s) ==
    /\ s \in DOMAIN states /\ issued + 2 <= MaxIssued
    /\ Consume(s)
    /\ IF now > states[s].expires \/ states[s].provider # p THEN UNCHANGED <<issued, vault, tokens, granted>>
       ELSE /\ issued' = issued + 2
            /\ vault' = Put(Put(vault, issued + 1, now + TokenLife), issued + 2, Forever)
            /\ tokens' = [tokens EXCEPT ![p] = [access |-> issued + 1, refresh |-> issued + 2,
                                                expires |-> now + TokenLife]]
            /\ granted' = Append(granted, s)
    /\ UNCHANGED now

RevokeToken(p) ==
    /\ tokens[p] # NoToken
    /\ tokens' = [tokens EXCEPT ![p] = NoToken]
    /\ vault' = Drop(vault, {tokens[p].access, tokens[p].refresh})
    /\ UNCHANGED <<now, issued, states, granted>>

Minute ==
    /\ now < MaxNow
    /\ now' = now + 1
    /\ UNCHANGED <<issued, vault, states, tokens, granted>>

CredentialsInit ==
    /\ now = 0
    /\ issued = Cardinality(ClientIds)
    /\ vault = [c \in ClientIds |-> Forever]
    /\ states = <<>>
    /\ tokens = [p \in OAuthProviders |-> NoToken]
    /\ granted = <<>>

CredentialsNext ==
    \/ \E p \in OAuthProviders :
        \/ StartAuthorization(p) \/ RevokeToken(p)
        \/ \E s \in DOMAIN states : ExchangeCode(p, s)
    \/ \E c \in DOMAIN vault : RevokeSecret(c)
    \/ RegisterSecret(now + TokenLife) \/ Minute

CredentialsSpec == CredentialsInit /\ [][CredentialsNext]_credentialVars

-----------------------------------------------------------------------------
CredentialsTypeOK ==
    /\ now \in 0..MaxNow /\ issued \in 0..MaxIssued
    /\ DOMAIN vault \subseteq 1..issued
    /\ DOMAIN states \subseteq 1..issued \ ClientIds
    /\ \A p \in OAuthProviders : tokens[p] = NoToken \/ tokens[p].refresh = tokens[p].access + 1

\* A state token is exchanged once at most, and none that has been is still accepted;
\* every credential a provider's token names was issued for it alone.
StatesGrantOnce ==
    /\ IsInjective(granted)
    /\ ToSet(granted) \cap DOMAIN states = {}
    /\ \A p, q \in OAuthProviders :
        (p # q /\ tokens[p] # NoToken /\ tokens[q] # NoToken) => tokens[p].access # tokens[q].access

=============================================================================
