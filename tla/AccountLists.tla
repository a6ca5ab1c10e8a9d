---------------------------- MODULE AccountLists ----------------------------
(***************************************************************************)
(* The contract between the account lists the client builds and what the   *)
(* program asks of them.  A list is positional: the builders of the SDK    *)
(* write down addresses they derive, the program derives or loads the same *)
(* addresses again and compares, and the runtime lets an instruction, and  *)
(* the programs it calls, write only what the list marks writable.         *)
(*                                                                         *)
(* One market lives through its phases beside a sibling on the same subject*)
(* that stays in trading and two markets of an older subject; governance   *)
(* moves the fee destination and whoever holds the destination account may *)
(* close it.  Amounts are left out.                                        *)
(* An address is the tuple of what it is derived from.                     *)
(***************************************************************************)
EXTENDS Naturals, Sequences

CONSTANTS
    Founder,     \* creates the markets
    Backer,      \* joins later
    Treasuries,  \* holders of accounts fees may be routed to
    Nobody       \* no treasury

\* Governance has somewhere else to route the fees, whichever treasury has them.
ASSUME OtherTreasury == \A t \in Treasuries : \E u \in Treasuries : u # t

VARIABLES
    phase,        \* of the market here: "Absent" before, "Closed" after
    members,      \* who has a live contribution account in it
    composed,     \* its question, vault and pool have been set up
    feeDone,      \* its fee has been collected
    delegated,    \* its session account is delegated
    terminal,     \* the subject has its answer
    destination,  \* the treasury Config routes fees to
    closed        \* the treasury that has closed its account, or Nobody

listVars == <<phase, members, composed, feeDone, delegated, terminal, destination,
              closed>>

---------------------------------------------------------------------------
(* Addresses *)

Wallet(who) == <<"wallet", who>>
BaseMint == <<"wsol">>
SystemProgram == <<"system_program">>
TokenProgram == <<"spl_token">>
CvProgram == <<"conditional_vault_program">>
AmmProgram == <<"amm_program">>
GptProgram == <<"gpt_oracle">>
LlmContext == <<"context", 0>>

ConfigPda == <<"config">>
SubjectPda(nonce) == <<"subject", nonce>>
MarketPda(oracle, outcome) == <<"market", oracle, outcome>>
EscrowPda(m) == <<"escrow", m>>
ContributionPda(m, who) == <<"contribution", m, who>>
CyesPda(m) == <<"cyes", m>>
CnoPda(m) == <<"cno", m>>
LpVaultPda(m) == <<"lp_vault", m>>
SessionPda(m) == <<"er_session", m>>
InteractionPda(payer, context) == <<"interaction", payer, context>>
Ata(owner, mint) == <<"ata", owner, mint>>

QuestionPda(id, oracle) == <<"question", id, oracle, 2>>
VaultPda(question, mint) == <<"conditional_vault", question, mint>>
TokenMintPda(vault, index) == <<"conditional_token", vault, index>>
AmmPda(base, quote) == <<"amm__", base, quote>>
LpMintPda(amm) == <<"amm_lp_mint", amm>>
EventAuthority(program) == <<"__event_authority", program>>

Members == {Wallet(Founder), Wallet(Backer)}
Authority == Wallet("futarchy")
Subject == SubjectPda(0)
OtherSubject == SubjectPda(1)   \* resolved long ago
Here  == MarketPda(Subject, 0)
There == MarketPda(Subject, 1)
Settled == MarketPda(OtherSubject, 0)   \* fee collected, claims still open
Called == MarketPda(OtherSubject, 1)    \* cancelled, refunds still open
Elsewhere == {There, Settled, Called}
FeeAccount(treasury) == Ata(Wallet(treasury), BaseMint)

\* Every address a composed market consists of.
MarketRefs(m) ==
    LET question == QuestionPda(m[2], m)
        vault == VaultPda(question, BaseMint)
        yes == TokenMintPda(vault, 0)
        no == TokenMintPda(vault, 1)
        amm == AmmPda(yes, no)
    IN [market |-> m, oracle |-> m[2], question |-> question, vault |-> vault,
        underlying |-> Ata(vault, BaseMint), escrow |-> EscrowPda(m),
        yes |-> yes, no |-> no, cyes |-> CyesPda(m), cno |-> CnoPda(m),
        amm |-> amm, lp_mint |-> LpMintPda(amm), lp_vault |-> LpVaultPda(m),
        amm_base |-> Ata(amm, yes), amm_quote |-> Ata(amm, no),
        cv_events |-> EventAuthority(CvProgram),
        amm_events |-> EventAuthority(AmmProgram)]

---------------------------------------------------------------------------
(* The lists the client builds *)

W(key)  == [key |-> key, signer |-> FALSE, writable |-> TRUE]
Ro(key) == [key |-> key, signer |-> FALSE, writable |-> FALSE]
Payer(key) == [key |-> key, signer |-> TRUE, writable |-> TRUE]
Signer(key) == [key |-> key, signer |-> TRUE, writable |-> FALSE]

UpdateConfigList(treasury) ==
    <<W(ConfigPda), Signer(Authority), Ro(FeeAccount(treasury))>>

CreateSubjectList(payer, nonce) ==
    <<Payer(payer), W(SubjectPda(nonce)), Ro(SystemProgram)>>

RequestAiList(payer) ==
    <<Ro(Subject), Payer(payer), Ro(SystemProgram), Ro(GptProgram),
      W(InteractionPda(payer, LlmContext)), Ro(LlmContext)>>

CreateMarketList(m, creator) ==
    <<W(ConfigPda), Ro(m[2]), W(m), W(EscrowPda(m)), Ro(BaseMint),
      Payer(creator), W(Ata(creator, BaseMint)),
      W(ContributionPda(m, creator)), Ro(TokenProgram), Ro(SystemProgram)>>

ContributeList(m, who) ==
    <<W(m), W(EscrowPda(m)), Payer(who), W(Ata(who, BaseMint)),
      W(ContributionPda(m, who)), Ro(TokenProgram), Ro(SystemProgram)>>

CancelList(m) == <<W(m), Ro(m[2])>>

RefundList(m, who) ==
    <<W(m), W(EscrowPda(m)), W(ContributionPda(m, who)),
      W(Ata(who, BaseMint)), W(who), Ro(TokenProgram)>>

\* (mutant) The two conditional-token holders of the market swapped.
ActivateListCrossed(r, payer) ==
    <<W(r.market), Ro(r.oracle), Payer(payer), Ro(r.question), W(r.vault),
      W(r.underlying), W(EscrowPda(r.market)), W(r.yes), W(r.no), W(r.cno),
      W(r.cyes), W(r.amm), W(r.lp_mint), W(r.lp_vault), W(r.amm_base),
      W(r.amm_quote), Ro(r.cv_events), Ro(CvProgram), Ro(r.amm_events),
      Ro(AmmProgram), Ro(TokenProgram), Ro(SystemProgram)>>

ActivateList(r, payer) ==
    <<W(r.market), Ro(r.oracle), Payer(payer), Ro(r.question), W(r.vault),
      W(r.underlying), W(EscrowPda(r.market)), W(r.yes), W(r.no), W(r.cyes),
      W(r.cno), W(r.amm), W(r.lp_mint), W(r.lp_vault), W(r.amm_base),
      W(r.amm_quote), Ro(r.cv_events), Ro(CvProgram), Ro(r.amm_events),
      Ro(AmmProgram), Ro(TokenProgram), Ro(SystemProgram)>>

AddLiquidityList(r, who) ==
    <<W(r.market), Ro(r.oracle), Payer(who), W(Ata(who, BaseMint)),
      W(EscrowPda(r.market)), Ro(r.question), W(r.vault), W(r.underlying),
      W(r.yes), W(r.no), W(CyesPda(r.market)), W(CnoPda(r.market)),
      W(Ata(who, r.yes)), W(Ata(who, r.no)), W(r.amm), W(r.lp_mint),
      W(LpVaultPda(r.market)), W(r.amm_base), W(r.amm_quote),
      W(ContributionPda(r.market, who)), Ro(r.cv_events), Ro(CvProgram),
      Ro(r.amm_events), Ro(AmmProgram), Ro(TokenProgram), Ro(SystemProgram)>>

ResolveMarketList(r) ==
    <<W(r.market), Ro(r.oracle), W(r.question), Ro(r.cv_events),
      Ro(CvProgram)>>

CollectFeeList(r, feeDestination) ==
    <<W(r.market), Ro(ConfigPda), W(feeDestination), Ro(r.question),
      W(r.vault), W(r.underlying), W(EscrowPda(r.market)), W(r.yes), W(r.no),
      W(r.cyes), W(r.cno), W(r.amm), W(r.lp_mint), W(r.lp_vault),
      W(r.amm_base), W(r.amm_quote), Ro(r.cv_events), Ro(CvProgram),
      Ro(r.amm_events), Ro(AmmProgram), Ro(TokenProgram)>>

ClaimLpList(m, who, lpMint) ==
    <<W(m), W(LpVaultPda(m)), W(ContributionPda(m, who)),
      W(Ata(who, lpMint)), W(who), Ro(TokenProgram)>>

CloseMarketList(m, creator) ==
    <<W(m), W(creator), W(EscrowPda(m)), W(CyesPda(m)), W(CnoPda(m)),
      W(LpVaultPda(m)), Ro(TokenProgram)>>

DelegateList(m, payer) ==
    <<W(m), W(SessionPda(m)), Payer(payer), Ro(SystemProgram)>>

SessionList(m) == <<W(m), W(SessionPda(m))>>

\* Where governance routes fees next.
NextTreasury == CHOOSE t \in Treasuries : t # destination

\* The app's builders: where each takes its addresses from.
BuildCreateMarketIxs(m, creator) == CreateMarketList(m, creator)
BuildRefundIxs(m, contributor) == RefundList(m, contributor)
BuildResolveIxs(m) == ResolveMarketList(MarketRefs(m))
BuildCollectFeeIxs(m) == CollectFeeList(MarketRefs(m), FeeAccount(destination))
BuildClaimLpIxs(m, contributor) == ClaimLpList(m, contributor, MarketRefs(m).lp_mint)
BuildCloseMarketIxs(m) == CloseMarketList(m, Wallet(Founder))

\* What the client sends for market m on behalf of `who`.
Built(ix, m, who) ==
    CASE ix = "UpdateConfig"  -> UpdateConfigList(NextTreasury)
      [] ix = "CreateSubject" -> CreateSubjectList(who, 2)
      [] ix = "RequestAi"     -> RequestAiList(who)
      [] ix = "CreateMarket"  -> BuildCreateMarketIxs(m, Wallet(Founder))
      [] ix = "Contribute"    -> ContributeList(m, who)
      [] ix = "Cancel"        -> CancelList(m)
      [] ix = "Refund"        -> BuildRefundIxs(m, who)
      [] ix = "Activate"      -> ActivateList(MarketRefs(m), who)
      [] ix = "AddLiquidity"  -> AddLiquidityList(MarketRefs(m), who)
      [] ix = "ResolveMarket" -> BuildResolveIxs(m)
      [] ix = "CollectFee"    -> BuildCollectFeeIxs(m)
      [] ix = "ClaimLp"       -> BuildClaimLpIxs(m, who)
      [] ix = "CloseMarket"   -> BuildCloseMarketIxs(m)
      [] ix = "Delegate"      -> DelegateList(m, who)
      [] OTHER                -> SessionList(m)

---------------------------------------------------------------------------
(* The accounts on chain *)

Status(m) ==
    CASE m = Here    -> phase
      [] m = There   -> "Active"
      [] m = Settled -> "Resolved"
      [] m = Called  -> "Cancelled"
      [] OTHER       -> "Absent"
Present(m) == Status(m) \notin {"Absent", "Closed"}
Activated(m) == Status(m) \in {"Active", "Resolved"}
FeeDone(m) == m = Settled \/ (m = Here /\ feeDone)
MembersOf(m) == IF m = Here THEN members ELSE Members
Composed(m) == m \in {There, Settled} \/ (m = Here /\ composed)
IsDelegated(m) == m = There \/ (m = Here /\ delegated)

IsMarket(key) == key[1] = "market" /\ Present(key)
IsSubject(key) == key \in {Subject, OtherSubject}
IsTerminal(key) == key = OtherSubject \/ terminal
IsContribution(key) ==
    key[1] = "contribution" /\ Present(key[2]) /\ key[3] \in MembersOf(key[2])
IsQuestion(key) == key[1] = "question" /\ Composed(key[3])
IsVault(key) == key[1] = "conditional_vault" /\ IsQuestion(key[2])
IsAmm(key) == key[1] = "amm__" /\ IsVault(key[2][2])

\* A token account is its owner's by its seeds; of those addresses, which are one.
IsToken(key) ==
    \/ /\ key[1] = "escrow"
       /\ Present(key[2])
    \/ /\ key[1] \in {"cyes", "cno", "lp_vault"}
       /\ Activated(key[2])
    \/ /\ key[1] = "ata"
       /\ \/ key[2] \in Members
          \/ key[2] \in {Wallet(t) : t \in Treasuries \ {closed}}
          \/ IsVault(key[2])
          \/ IsAmm(key[2])
TokenOwner(key) == key[2]
TokenMint(key) ==
    CASE key[1] = "ata"      -> key[3]
      [] key[1] = "escrow"   -> BaseMint
      [] key[1] = "cyes"     -> MarketRefs(key[2]).yes
      [] key[1] = "cno"      -> MarketRefs(key[2]).no
      [] key[1] = "lp_vault" -> MarketRefs(key[2]).lp_mint

\* The token program moves tokens between accounts of one mint, for the owner.
CanTransfer(from, to, authority) ==
    /\ IsToken(from) /\ IsToken(to)
    /\ TokenMint(from) = TokenMint(to)
    /\ TokenOwner(from) = authority

---------------------------------------------------------------------------
(* What the program asks of a list, its accounts named by position *)

Slots ==
    [UpdateConfig |-> <<"config", "authority", "fee_destination">>,
     CreateSubject |-> <<"payer", "subject", "system">>,
     RequestAi |-> <<"subject", "payer", "system", "gpt", "interaction",
                     "context">>,
     CreateMarket |-> <<"config", "oracle", "market", "escrow", "base_mint",
                        "member", "source", "contribution", "token",
                        "system">>,
     Contribute |-> <<"market", "escrow", "member", "source",
                      "contribution", "token", "callee">>,
     Cancel |-> <<"market", "oracle">>,
     Refund |-> <<"market", "escrow", "contribution", "paid", "member",
                  "token">>,
     Activate |-> <<"market", "oracle", "payer", "question", "vault",
                    "underlying", "escrow", "yes", "no", "cyes", "cno", "amm",
                    "lp_mint", "lp_vault", "amm_base", "amm_quote",
                    "cv_events", "cv", "amm_events", "ammp", "token",
                    "system">>,
     AddLiquidity |-> <<"market", "oracle", "member", "source", "escrow",
                        "question", "vault", "underlying", "yes", "no", "cyes",
                        "cno", "member_cyes", "member_cno", "amm", "lp_mint",
                        "lp_vault", "amm_base", "amm_quote", "contribution",
                        "cv_events", "cv", "amm_events", "ammp", "token",
                        "system">>,
     ResolveMarket |-> <<"market", "oracle", "question", "cv_events", "cv">>,
     CollectFee |-> <<"market", "config", "fee_destination", "question",
                      "vault", "underlying", "escrow", "yes", "no", "cyes",
                      "cno", "amm", "lp_mint", "lp_vault", "amm_base",
                      "amm_quote", "cv_events", "cv", "amm_events", "ammp",
                      "token">>,
     ClaimLp |-> <<"market", "lp_vault", "contribution", "paid", "member",
                   "token">>,
     CloseMarket |-> <<"market", "creator", "escrow", "cyes", "cno",
                       "lp_vault", "token">>,
     Delegate |-> <<"market", "session", "payer", "system">>,
     Commit |-> <<"market", "session">>,
     Undelegate |-> <<"market", "session">>]

Instructions == DOMAIN Slots
SlotNames == [ix \in Instructions |->
                 {Slots[ix][i] : i \in 1..Len(Slots[ix])}]
PositionOf == [ix \in Instructions |->
                  [s \in SlotNames[ix] |->
                      CHOOSE i \in 1..Len(Slots[ix]) : Slots[ix][i] = s]]
Named(ix, list) == [s \in SlotNames[ix] |-> list[PositionOf[ix][s]]]

\* What the handler writes, by itself or through the programs it calls; the
\* runtime wants those accounts marked in the list.
PoolWrites == {"amm", "lp_mint", "lp_vault", "cyes", "cno", "amm_base", "amm_quote"}
VaultWrites == {"vault", "underlying", "escrow", "yes", "no", "cyes", "cno"}
Writes(ix, k) ==
    CASE ix = "UpdateConfig"  -> {"config"}
      [] ix = "CreateSubject" -> {"payer", "subject"}
      [] ix = "RequestAi"     -> {"payer", "interaction"}
      [] ix = "CreateMarket"  -> {"config", "market", "escrow", "member", "source",
                                  "contribution"}
      [] ix = "Contribute"    -> {"market", "escrow", "member", "source", "contribution"}
      [] ix = "Cancel"        -> {"market"}
      [] ix = "Refund"        -> {"market", "escrow", "contribution", "paid", "member"}
      [] ix = "Activate"      -> {"market", "payer"} \cup PoolWrites \cup VaultWrites
      [] ix = "AddLiquidity"  -> {"market", "member", "source", "member_cyes", "member_cno",
                                  "contribution"} \cup PoolWrites \cup VaultWrites
      [] ix = "ResolveMarket" -> {"market", "question"}
      [] ix = "CollectFee"    -> {"market", "fee_destination"} \cup PoolWrites \cup VaultWrites
      [] ix = "ClaimLp"       -> {"market", "lp_vault", "contribution", "paid", "member"}
      [] ix = "CloseMarket"   -> {"market", "creator", "escrow"}
                                 \cup (IF Activated(k.market)
                                         THEN {"cyes", "cno", "lp_vault"} ELSE {})
      [] ix = "Delegate"      -> {"session", "payer"}
      [] OTHER                -> {"session"}

\* Who must have signed.
Signs(ix) ==
    {"payer", "authority"}
        \cup (IF ix \in {"CreateMarket", "Contribute", "AddLiquidity"} THEN {"member"} ELSE {})

Permitted(ix, a, k) ==
    /\ \A s \in Writes(ix, k) : a[s].writable
    /\ \A s \in Signs(ix) \cap DOMAIN a : a[s].signer

\* The accounts every handler compares with a fixed address.
Fixed == [token |-> TokenProgram, system |-> SystemProgram, cv |-> CvProgram,
          ammp |-> AmmProgram, cv_events |-> EventAuthority(CvProgram),
          amm_events |-> EventAuthority(AmmProgram), config |-> ConfigPda]
FixedMatch(k) == \A s \in DOMAIN k \cap DOMAIN Fixed : k[s] = Fixed[s]

\* The accounts compared with what activation recorded in the market, or
\* derived again from it.
Recorded == {"question", "vault", "underlying", "escrow", "yes", "no", "cyes", "cno",
             "amm", "lp_mint", "lp_vault", "amm_base", "amm_quote"}
RecordedMatch(k) == \A s \in DOMAIN k \cap Recorded : k[s] = MarketRefs(k.market)[s]

InPhase(key, statuses) == IsMarket(key) /\ Status(key) \in statuses
OpenSubject(key) == IsSubject(key) /\ ~IsTerminal(key)

\* Pays in: the source is the signer's, the contribution is derived from it.
TakesDeposit(k) ==
    /\ k.contribution = ContributionPda(k.market, k.member)
    /\ CanTransfer(k.source, k.escrow, k.member)

TakesUpdateConfig(k) ==
    /\ k.authority = Authority
    /\ k.fee_destination = FeeAccount(NextTreasury)   \* as in the payload
    /\ IsToken(k.fee_destination) /\ TokenMint(k.fee_destination) = BaseMint

TakesCreateSubject(k) == k.subject = SubjectPda(2)    \* as in the payload

TakesRequestAi(k) ==
    /\ OpenSubject(k.subject)
    /\ k.gpt = GptProgram
    /\ k.context = LlmContext
    /\ k.interaction = InteractionPda(k.payer, k.context)

\* The escrow is created here, so it is a token account only afterwards.
TakesCreateMarket(k) ==
    /\ k.base_mint = BaseMint
    /\ OpenSubject(k.oracle)
    /\ k.market = MarketPda(k.oracle, 0) /\ ~Present(k.market)
    /\ k.escrow = EscrowPda(k.market)
    /\ k.contribution = ContributionPda(k.market, k.member)
    /\ IsToken(k.source) /\ TokenMint(k.source) = BaseMint /\ TokenOwner(k.source) = k.member

\* A first contribution creates its account, so the system program is called.
TakesContribute(k) ==
    /\ InPhase(k.market, {"Funding"})
    /\ k.escrow = EscrowPda(k.market)
    /\ TakesDeposit(k)
    /\ IsContribution(k.contribution) \/ k.callee = SystemProgram

TakesCancel(k) ==
    /\ InPhase(k.market, {"Funding"})
    /\ k.oracle = k.market[2] /\ IsTerminal(k.oracle)

\* (mutant) Any market's contribution is paid back out of this one's escrow.
TakesRefundOfAny(k) ==
    /\ InPhase(k.market, {"Cancelled"})
    /\ k.escrow = EscrowPda(k.market)
    /\ IsContribution(k.contribution)
    /\ IsToken(k.paid) /\ TokenOwner(k.paid) = k.contribution[3]
    /\ k.member = k.contribution[3]
    /\ CanTransfer(k.escrow, k.paid, k.market)

TakesRefund(k) ==
    /\ InPhase(k.market, {"Cancelled"})
    /\ k.escrow = EscrowPda(k.market)
    /\ IsContribution(k.contribution) /\ k.contribution[2] = k.market
    /\ IsToken(k.paid) /\ TokenOwner(k.paid) = k.contribution[3]
    /\ k.member = k.contribution[3]
    /\ CanTransfer(k.escrow, k.paid, k.market)

\* Nothing is recorded yet: each account is derived from the ones before it,
\* and the holders are created at the addresses the market signs for.
TakesActivate(k) ==
    /\ InPhase(k.market, {"Funding"})
    /\ k.oracle = k.market[2] /\ OpenSubject(k.oracle)
    /\ k.escrow = EscrowPda(k.market)
    /\ IsQuestion(k.question) /\ k.question = QuestionPda(k.oracle, k.market)
    /\ IsVault(k.vault) /\ k.vault = VaultPda(k.question, BaseMint)
    /\ k.underlying = Ata(k.vault, BaseMint)
    /\ k.yes = TokenMintPda(k.vault, 0) /\ k.no = TokenMintPda(k.vault, 1)
    /\ IsAmm(k.amm) /\ k.amm = AmmPda(k.yes, k.no)
    /\ k.lp_mint = LpMintPda(k.amm)
    /\ k.amm_base = Ata(k.amm, k.yes) /\ k.amm_quote = Ata(k.amm, k.no)
    /\ k.cyes = CyesPda(k.market) /\ k.cno = CnoPda(k.market)
    /\ k.lp_vault = LpVaultPda(k.market)

TakesAddLiquidity(k) ==
    /\ InPhase(k.market, {"Active"})
    /\ k.oracle = k.market[2] /\ OpenSubject(k.oracle)
    /\ RecordedMatch(k)
    /\ k.member_cyes = Ata(k.member, k.yes) /\ k.member_cno = Ata(k.member, k.no)
    /\ TakesDeposit(k)

TakesResolveMarket(k) ==
    /\ InPhase(k.market, {"Active"})
    /\ RecordedMatch(k)
    /\ k.oracle = k.market[2] /\ IsTerminal(k.oracle)

\* Whoever held the destination when the market was created has no say.
TakesCollectFee(k) ==
    /\ InPhase(k.market, {"Resolved"}) /\ ~FeeDone(k.market)
    /\ k.fee_destination = FeeAccount(destination)
    /\ IsToken(k.fee_destination) /\ TokenMint(k.fee_destination) = BaseMint
    /\ RecordedMatch(k)

TakesClaimLp(k) ==
    /\ InPhase(k.market, {"Resolved"}) /\ FeeDone(k.market)
    /\ RecordedMatch(k)
    /\ IsContribution(k.contribution) /\ k.contribution[2] = k.market
    /\ IsToken(k.paid) /\ TokenMint(k.paid) = MarketRefs(k.market).lp_mint
    /\ TokenOwner(k.paid) = k.contribution[3]
    /\ k.member = k.contribution[3]

\* The holders are looked at only where there are any.
TakesCloseMarket(k) ==
    /\ InPhase(k.market, {"Resolved", "Cancelled"})
    /\ k.creator = Wallet(Founder)
    /\ Activated(k.market) => FeeDone(k.market) /\ RecordedMatch(k)
    /\ MembersOf(k.market) = {}
    /\ k.escrow = EscrowPda(k.market)

TakesDelegate(k) ==
    IsMarket(k.market) /\ k.session = SessionPda(k.market) /\ ~IsDelegated(k.market)
TakesSession(k) ==
    IsMarket(k.market) /\ k.session = SessionPda(k.market) /\ IsDelegated(k.market)

\* Does the program run the instruction over these accounts?
Takes(ix, a) ==
    LET k == [s \in DOMAIN a |-> a[s].key]
    IN  /\ Permitted(ix, a, k)
        /\ FixedMatch(k)
        /\ CASE ix = "UpdateConfig"  -> TakesUpdateConfig(k)
             [] ix = "CreateSubject" -> TakesCreateSubject(k)
             [] ix = "RequestAi"     -> TakesRequestAi(k)
             [] ix = "CreateMarket"  -> TakesCreateMarket(k)
             [] ix = "Contribute"    -> TakesContribute(k)
             [] ix = "Cancel"        -> TakesCancel(k)
             [] ix = "Refund"        -> TakesRefund(k)
             [] ix = "Activate"      -> TakesActivate(k)
             [] ix = "AddLiquidity"  -> TakesAddLiquidity(k)
             [] ix = "ResolveMarket" -> TakesResolveMarket(k)
             [] ix = "CollectFee"    -> TakesCollectFee(k)
             [] ix = "ClaimLp"       -> TakesClaimLp(k)
             [] ix = "CloseMarket"   -> TakesCloseMarket(k)
             [] ix = "Delegate"      -> TakesDelegate(k)
             [] OTHER                -> TakesSession(k)

Taken(ix, who) == Takes(ix, Named(ix, Built(ix, Here, who)))

---------------------------------------------------------------------------
(* The market's life, as far as it decides what a list is checked against  *)

ListInit ==
    /\ phase = "Absent" /\ members = {} /\ composed = FALSE /\ feeDone = FALSE
    /\ delegated = FALSE /\ terminal = FALSE
    /\ destination \in Treasuries /\ closed = Nobody

SendCreate ==
    /\ Taken("CreateMarket", Wallet(Founder))
    /\ phase' = "Funding" /\ members' = {Wallet(Founder)}
    /\ UNCHANGED <<composed, feeDone, delegated, terminal, destination, closed>>

\* Creates the member's contribution, or adds to it.
SendDeposit(ix, who) ==
    /\ Taken(ix, who)
    /\ members' = members \cup {who}
    /\ UNCHANGED <<phase, composed, feeDone, delegated, terminal, destination, closed>>

SendExit(ix, who) ==
    /\ Taken(ix, who)
    /\ members' = members \ {who}
    /\ UNCHANGED <<phase, composed, feeDone, delegated, terminal, destination, closed>>

SendPhase(ix, who, after) ==
    /\ Taken(ix, who)
    /\ phase' = after
    /\ UNCHANGED <<members, composed, feeDone, delegated, terminal, destination, closed>>

SendCollectFee ==
    /\ Taken("CollectFee", Wallet(Founder))
    /\ feeDone' = TRUE
    /\ UNCHANGED <<phase, members, composed, delegated, terminal, destination, closed>>

SendSession(ix, after) ==
    /\ Taken(ix, Wallet(Founder))
    /\ delegated' = after
    /\ UNCHANGED <<phase, members, composed, feeDone, terminal, destination, closed>>

SendUpdateConfig ==
    /\ Taken("UpdateConfig", Wallet(Founder))
    /\ destination' = NextTreasury
    /\ UNCHANGED <<phase, members, composed, feeDone, delegated, terminal, closed>>

\* The transactions before activation: question, vault, pool.
Compose ==
    /\ phase = "Funding" /\ ~composed
    /\ composed' = TRUE
    /\ UNCHANGED <<phase, members, feeDone, delegated, terminal, destination, closed>>

AnswerArrives ==
    /\ ~terminal
    /\ terminal' = TRUE
    /\ UNCHANGED <<phase, members, composed, feeDone, delegated, destination, closed>>

\* A treasury closes its token account, or opens it again.
TreasuryMoves ==
    /\ closed' \in (Treasuries \cup {Nobody}) \ {closed}
    /\ closed = Nobody \/ closed' = Nobody
    /\ UNCHANGED <<phase, members, composed, feeDone, delegated, terminal, destination>>

ListNext ==
    \/ SendCreate
    \/ \E who \in Members : SendDeposit("Contribute", who)
    \/ \E who \in Members : SendDeposit("AddLiquidity", who)
    \/ \E who \in Members : SendExit("Refund", who)
    \/ \E who \in Members : SendExit("ClaimLp", who)
    \/ SendPhase("Cancel", Wallet(Founder), "Cancelled")
    \/ SendPhase("Activate", Wallet(Founder), "Active")
    \/ SendPhase("ResolveMarket", Wallet(Founder), "Resolved")
    \/ SendPhase("CloseMarket", Wallet(Founder), "Closed")
    \/ SendCollectFee
    \/ SendSession("Delegate", TRUE)
    \/ SendSession("Undelegate", FALSE)
    \/ SendUpdateConfig
    \/ Compose
    \/ AnswerArrives
    \/ TreasuryMoves

---------------------------------------------------------------------------
(* Properties *)

\* When the client's own documentation says an instruction is due.
Due(ix, who) ==
    CASE ix = "UpdateConfig"  -> closed # NextTreasury
      [] ix = "CreateSubject" -> TRUE
      [] ix = "RequestAi"     -> ~terminal
      [] ix = "CreateMarket"  -> phase = "Absent" /\ ~terminal
      [] ix = "Contribute"    -> phase = "Funding"
      [] ix = "Cancel"        -> phase = "Funding" /\ terminal
      [] ix = "Refund"        -> phase = "Cancelled" /\ who \in members
      [] ix = "Activate"      -> phase = "Funding" /\ ~terminal /\ composed
      [] ix = "AddLiquidity"  -> phase = "Active" /\ ~terminal
      [] ix = "ResolveMarket" -> phase = "Active" /\ terminal
      [] ix = "CollectFee"    -> phase = "Resolved" /\ ~feeDone /\ closed # destination
      [] ix = "ClaimLp"       -> phase = "Resolved" /\ feeDone /\ who \in members
      [] ix = "CloseMarket"   -> /\ members = {}
                                 /\ phase = "Cancelled" \/ (phase = "Resolved" /\ feeDone)
      [] ix = "Delegate"      -> Present(Here) /\ ~delegated
      [] OTHER                -> Present(Here) /\ delegated

\* The order, the addresses and the marks of every list the SDK builds are
\* what the program expects wherever the instruction is due ("a mismatch is a
\* silent runtime failure", instructions/market/lifecycle.ts).
ListsAccepted == \A ix \in Instructions, who \in Members : Due(ix, who) => Taken(ix, who)

\* Slots anyone may fill: a payer of rent, and what the handler does not read.
Open(ix) ==
    CASE ix \in {"Activate", "Delegate", "CreateSubject"} -> {"payer"}
      [] ix = "Contribute" -> {"callee"}
      [] ix = "CloseMarket" /\ phase = "Cancelled" -> {"cyes", "cno", "lp_vault"}
      [] OTHER -> {}

\* What a mistaken caller could name instead: the same slot of another
\* market or of the other member, another slot of the same list,
\* the other subject, either treasury.  Only wallets sign.
Strangers(ix, list, s) ==
    LET same == {Named(ix, Built(ix, m, who))[s].key : m \in {Here} \cup Elsewhere, who \in Members}
        others == {list[t].key : t \in DOMAIN list}
                      \cup {FeeAccount(t) : t \in Treasuries} \cup {OtherSubject}
    IN  (IF list[s].signer THEN Members ELSE same \cup others) \ {list[s].key}

\* No account can stand in for another: with one slot given to a stranger,
\* the sibling's escrow or pool, another member's contribution, a treasury
\* governance has left, the program refuses the list it would have taken.
NoStrangerAccepted ==
    \A ix \in Instructions, who \in Members :
        Due(ix, who) =>
            LET list == Named(ix, Built(ix, Here, who))
            IN  \A s \in DOMAIN list \ Open(ix) : \A x \in Strangers(ix, list, s) :
                    ~Takes(ix, [list EXCEPT ![s].key = x])
=============================================================================
