------------------------------ MODULE Accounts ------------------------------
(***************************************************************************)
(* The provider with both of its clients: the account page in a browser,   *)
(* and the consumer, whose callers write to the same table.                *)
(***************************************************************************)
EXTENDS AccountPage, AccountConsumer

accountVars == <<providerVars, pageVars>>

AccountsInit == ProviderInit /\ PageInit

AccountsNext == \/ PageStep /\ UNCHANGED <<rows, writes>>
                \/ ConsumerStep /\ UNCHANGED pageVars
                \/ ProviderStep /\ UNCHANGED pageVars

AccountsSpec == AccountsInit /\ [][AccountsNext]_accountVars

\* The inductive invariant: the state is well formed, no write answered with
\* success is undone but by a later one, no list is older than it claims, and
\* every row comes from the writes executed on it.
IInv == ProviderInv /\ PageInv /\ VersionsInv
=============================================================================
