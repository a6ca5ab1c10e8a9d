----------------------------- MODULE ListsProofs -----------------------------
(***************************************************************************)
(* The account lists of the SDK against the program, for any founder,      *)
(* backer and treasuries and whatever the market has been through: every   *)
(* list is taken where its instruction is due, and none is with a stranger *)
(* in one of its slots.  An instruction's list is first given by name      *)
(* (<Instruction>Built).  Its checks then leave one key for each slot, the *)
(* rest of the list given (<Instruction>One): that key is the one the      *)
(* client put there.  Only for the accounts a member pays from and is paid *)
(* to, and for the contribution that is redeemed, does this take a look at *)
(* who the strangers are (Shaped).                                         *)
(***************************************************************************)
EXTENDS MCGovernance, TLAPS

(***************************************************************************)
(* What the lists hold                                                     *)
(***************************************************************************)
\* The account in the i-th place goes by the i-th name, no name being used twice.
LEMMA NamedAt ==
    ASSUME NEW ix \in Instructions,
           NEW place, \A i \in 1..Len(Slots[ix]) : place[Slots[ix][i]] = i, NEW list
    PROVE  /\ DOMAIN Named(ix, list) = {Slots[ix][i] : i \in 1..Len(Slots[ix])}
           /\ \A i \in 1..Len(Slots[ix]) : Named(ix, list)[Slots[ix][i]] = list[i]
<1> DEFINE all == 1..Len(Slots[ix])
<1>1. SlotNames[ix] = {Slots[ix][i] : i \in all}
  BY DEF SlotNames
<1>2. ASSUME NEW i \in all PROVE PositionOf[ix][Slots[ix][i]] = i
  <2>1. PositionOf[ix][Slots[ix][i]] = CHOOSE j \in all : Slots[ix][j] = Slots[ix][i]
    BY <1>1 DEF PositionOf
  <2>2. \A j \in all : Slots[ix][j] = Slots[ix][i] => j = i
    OBVIOUS
  <2> HIDE DEF all
  <2>3. QED
    BY <2>1, <2>2
<1>3. QED
  BY <1>1, <1>2 DEF Named

\* The accounts of an UpdateConfig, by name.
LEMMA UpdateConfigBuilt ==
    ASSUME NEW m, NEW who
    PROVE  LET a == Named("UpdateConfig", Built("UpdateConfig", m, who))
           IN  /\ DOMAIN a = {"config", "authority", "fee_destination"}
               /\ a.config = W(ConfigPda) /\ a.authority = Signer(Authority)
               /\ a.fee_destination = Ro(FeeAccount(NextTreasury))
<1> DEFINE names == <<"config", "authority", "fee_destination">>
           place == [config |-> 1, authority |-> 2, fee_destination |-> 3]
           list == Built("UpdateConfig", m, who)
           a == Named("UpdateConfig", list)
<1>1. "UpdateConfig" \in Instructions
  BY DEF Slots, Instructions
<1>2. Slots["UpdateConfig"] = names /\ Len(names) = 3
  BY DEF Slots
<1>3. \A i \in 1..3 : place[names[i]] = i
  OBVIOUS
<1> HIDE DEF names, place, list, a
<1>4. \A i \in 1..Len(Slots["UpdateConfig"]) : place[Slots["UpdateConfig"][i]] = i
  BY <1>2, <1>3
<1>5. /\ DOMAIN a = {Slots["UpdateConfig"][i] : i \in 1..Len(Slots["UpdateConfig"])}
      /\ \A i \in 1..Len(Slots["UpdateConfig"]) : a[Slots["UpdateConfig"][i]] = list[i]
  BY <1>1, <1>4, NamedAt, ZenonT(30) DEF a
<1>6. DOMAIN a = {names[i] : i \in 1..3} /\ \A i \in 1..3 : a[names[i]] = list[i]
  BY <1>2, <1>5
<1>7. /\ a.config = list[1] /\ a.authority = list[2] /\ a.fee_destination = list[3]
  BY <1>6 DEF names
<1>8. QED
  BY <1>6, <1>7 DEF names, a, list, Built, UpdateConfigList

\* The accounts of a CreateSubject, by name.
LEMMA CreateSubjectBuilt ==
    ASSUME NEW m, NEW who
    PROVE  LET a == Named("CreateSubject", Built("CreateSubject", m, who))
           IN  /\ DOMAIN a = {"payer", "subject", "system"}
               /\ a.payer = Payer(who) /\ a.subject = W(SubjectPda(2))
               /\ a.system = Ro(SystemProgram)
<1> DEFINE names == <<"payer", "subject", "system">>
           place == [payer |-> 1, subject |-> 2, system |-> 3]
           list == Built("CreateSubject", m, who)
           a == Named("CreateSubject", list)
<1>1. "CreateSubject" \in Instructions
  BY DEF Slots, Instructions
<1>2. Slots["CreateSubject"] = names /\ Len(names) = 3
  BY DEF Slots
<1>3. \A i \in 1..3 : place[names[i]] = i
  OBVIOUS
<1> HIDE DEF names, place, list, a
<1>4. \A i \in 1..Len(Slots["CreateSubject"]) : place[Slots["CreateSubject"][i]] = i
  BY <1>2, <1>3
<1>5. /\ DOMAIN a = {Slots["CreateSubject"][i] : i \in 1..Len(Slots["CreateSubject"])}
      /\ \A i \in 1..Len(Slots["CreateSubject"]) : a[Slots["CreateSubject"][i]] = list[i]
  BY <1>1, <1>4, NamedAt, ZenonT(30) DEF a
<1>6. DOMAIN a = {names[i] : i \in 1..3} /\ \A i \in 1..3 : a[names[i]] = list[i]
  BY <1>2, <1>5
<1>7. /\ a.payer = list[1] /\ a.subject = list[2] /\ a.system = list[3]
  BY <1>6 DEF names
<1>8. QED
  BY <1>6, <1>7 DEF names, a, list, Built, CreateSubjectList

\* The accounts of a RequestAi, by name.
LEMMA RequestAiBuilt ==
    ASSUME NEW m, NEW who
    PROVE  LET a == Named("RequestAi", Built("RequestAi", m, who))
           IN  /\ DOMAIN a = {"subject", "payer", "system", "gpt", "interaction", "context"}
               /\ a.subject = Ro(Subject) /\ a.payer = Payer(who) /\ a.system = Ro(SystemProgram)
               /\ a.gpt = Ro(GptProgram) /\ a.interaction = W(InteractionPda(who, LlmContext))
               /\ a.context = Ro(LlmContext)
<1> DEFINE names == <<"subject", "payer", "system", "gpt", "interaction", "context">>
           place == [subject |-> 1, payer |-> 2, system |-> 3, gpt |-> 4, interaction |-> 5,
                     context |-> 6]
           list == Built("RequestAi", m, who)
           a == Named("RequestAi", list)
<1>1. "RequestAi" \in Instructions
  BY DEF Slots, Instructions
<1>2. Slots["RequestAi"] = names /\ Len(names) = 6
  BY DEF Slots
<1>3. \A i \in 1..6 : place[names[i]] = i
  OBVIOUS
<1> HIDE DEF names, place, list, a
<1>4. \A i \in 1..Len(Slots["RequestAi"]) : place[Slots["RequestAi"][i]] = i
  BY <1>2, <1>3
<1>5. /\ DOMAIN a = {Slots["RequestAi"][i] : i \in 1..Len(Slots["RequestAi"])}
      /\ \A i \in 1..Len(Slots["RequestAi"]) : a[Slots["RequestAi"][i]] = list[i]
  BY <1>1, <1>4, NamedAt, ZenonT(30) DEF a
<1>6. DOMAIN a = {names[i] : i \in 1..6} /\ \A i \in 1..6 : a[names[i]] = list[i]
  BY <1>2, <1>5
<1>7. /\ a.subject = list[1] /\ a.payer = list[2] /\ a.system = list[3] /\ a.gpt = list[4]
      /\ a.interaction = list[5] /\ a.context = list[6]
  BY <1>6 DEF names
<1>8. QED
  BY <1>6, <1>7 DEF names, a, list, Built, RequestAiList

\* The accounts of a CreateMarket, by name.
LEMMA CreateMarketBuilt ==
    ASSUME NEW m, NEW who
    PROVE  LET a == Named("CreateMarket", Built("CreateMarket", m, who))
           IN  /\ DOMAIN a = {"config", "oracle", "market", "escrow", "base_mint", "member",
                              "source", "contribution", "token", "system"}
               /\ a.config = W(ConfigPda) /\ a.oracle = Ro(m[2]) /\ a.market = W(m)
               /\ a.escrow = W(EscrowPda(m)) /\ a.base_mint = Ro(BaseMint)
               /\ a.member = Payer(Wallet(Founder))
               /\ a.source = W(Ata(Wallet(Founder), BaseMint))
               /\ a.contribution = W(ContributionPda(m, Wallet(Founder)))
               /\ a.token = Ro(TokenProgram) /\ a.system = Ro(SystemProgram)
<1> DEFINE names == <<"config", "oracle", "market", "escrow", "base_mint", "member", "source",
                      "contribution", "token", "system">>
           place == [config |-> 1, oracle |-> 2, market |-> 3, escrow |-> 4, base_mint |-> 5,
                     member |-> 6, source |-> 7, contribution |-> 8, token |-> 9, system |-> 10]
           list == Built("CreateMarket", m, who)
           a == Named("CreateMarket", list)
<1>1. "CreateMarket" \in Instructions
  BY DEF Slots, Instructions
<1>2. Slots["CreateMarket"] = names /\ Len(names) = 10
  BY DEF Slots
<1>3. \A i \in 1..10 : place[names[i]] = i
  OBVIOUS
<1> HIDE DEF names, place, list, a
<1>4. \A i \in 1..Len(Slots["CreateMarket"]) : place[Slots["CreateMarket"][i]] = i
  BY <1>2, <1>3
<1>5. /\ DOMAIN a = {Slots["CreateMarket"][i] : i \in 1..Len(Slots["CreateMarket"])}
      /\ \A i \in 1..Len(Slots["CreateMarket"]) : a[Slots["CreateMarket"][i]] = list[i]
  BY <1>1, <1>4, NamedAt, ZenonT(30) DEF a
<1>6. DOMAIN a = {names[i] : i \in 1..10} /\ \A i \in 1..10 : a[names[i]] = list[i]
  BY <1>2, <1>5
<1>7. /\ a.config = list[1] /\ a.oracle = list[2] /\ a.market = list[3] /\ a.escrow = list[4]
      /\ a.base_mint = list[5] /\ a.member = list[6] /\ a.source = list[7]
      /\ a.contribution = list[8] /\ a.token = list[9] /\ a.system = list[10]
  BY <1>6 DEF names
<1>8. QED
  BY <1>6, <1>7 DEF names, a, list, Built, BuildCreateMarketIxs, CreateMarketList

\* The accounts of a Contribute, by name.
LEMMA ContributeBuilt ==
    ASSUME NEW m, NEW who
    PROVE  LET a == Named("Contribute", Built("Contribute", m, who))
           IN  /\ DOMAIN a = {"market", "escrow", "member", "source", "contribution", "token",
                              "callee"}
               /\ a.market = W(m) /\ a.escrow = W(EscrowPda(m)) /\ a.member = Payer(who)
               /\ a.source = W(Ata(who, BaseMint)) /\ a.contribution = W(ContributionPda(m, who))
               /\ a.token = Ro(TokenProgram) /\ a.callee = Ro(SystemProgram)
<1> DEFINE names == <<"market", "escrow", "member", "source", "contribution", "token", "callee">>
           place == [market |-> 1, escrow |-> 2, member |-> 3, source |-> 4,
                     contribution |-> 5, token |-> 6, callee |-> 7]
           list == Built("Contribute", m, who)
           a == Named("Contribute", list)
<1>1. "Contribute" \in Instructions
  BY DEF Slots, Instructions
<1>2. Slots["Contribute"] = names /\ Len(names) = 7
  BY DEF Slots
<1>3. \A i \in 1..7 : place[names[i]] = i
  OBVIOUS
<1> HIDE DEF names, place, list, a
<1>4. \A i \in 1..Len(Slots["Contribute"]) : place[Slots["Contribute"][i]] = i
  BY <1>2, <1>3
<1>5. /\ DOMAIN a = {Slots["Contribute"][i] : i \in 1..Len(Slots["Contribute"])}
      /\ \A i \in 1..Len(Slots["Contribute"]) : a[Slots["Contribute"][i]] = list[i]
  BY <1>1, <1>4, NamedAt, ZenonT(30) DEF a
<1>6. DOMAIN a = {names[i] : i \in 1..7} /\ \A i \in 1..7 : a[names[i]] = list[i]
  BY <1>2, <1>5
<1>7. /\ a.market = list[1] /\ a.escrow = list[2] /\ a.member = list[3] /\ a.source = list[4]
      /\ a.contribution = list[5] /\ a.token = list[6] /\ a.callee = list[7]
  BY <1>6 DEF names
<1>8. QED
  BY <1>6, <1>7 DEF names, a, list, Built, ContributeList

\* The accounts of a Cancel, by name.
LEMMA CancelBuilt ==
    ASSUME NEW m, NEW who
    PROVE  LET a == Named("Cancel", Built("Cancel", m, who))
           IN  /\ DOMAIN a = {"market", "oracle"}
               /\ a.market = W(m) /\ a.oracle = Ro(m[2])
<1> DEFINE names == <<"market", "oracle">>
           place == [market |-> 1, oracle |-> 2]
           list == Built("Cancel", m, who)
           a == Named("Cancel", list)
<1>1. "Cancel" \in Instructions
  BY DEF Slots, Instructions
<1>2. Slots["Cancel"] = names /\ Len(names) = 2
  BY DEF Slots
<1>3. \A i \in 1..2 : place[names[i]] = i
  OBVIOUS
<1> HIDE DEF names, place, list, a
<1>4. \A i \in 1..Len(Slots["Cancel"]) : place[Slots["Cancel"][i]] = i
  BY <1>2, <1>3
<1>5. /\ DOMAIN a = {Slots["Cancel"][i] : i \in 1..Len(Slots["Cancel"])}
      /\ \A i \in 1..Len(Slots["Cancel"]) : a[Slots["Cancel"][i]] = list[i]
  BY <1>1, <1>4, NamedAt, ZenonT(30) DEF a
<1>6. DOMAIN a = {names[i] : i \in 1..2} /\ \A i \in 1..2 : a[names[i]] = list[i]
  BY <1>2, <1>5
<1>7. /\ a.market = list[1] /\ a.oracle = list[2]
  BY <1>6 DEF names
<1>8. QED
  BY <1>6, <1>7 DEF names, a, list, Built, CancelList

\* The accounts of a Refund, by name.
LEMMA RefundBuilt ==
    ASSUME NEW m, NEW who
    PROVE  LET a == Named("Refund", Built("Refund", m, who))
           IN  /\ DOMAIN a = {"market", "escrow", "contribution", "paid", "member", "token"}
               /\ a.market = W(m) /\ a.escrow = W(EscrowPda(m))
               /\ a.contribution = W(ContributionPda(m, who)) /\ a.paid = W(Ata(who, BaseMint))
               /\ a.member = W(who) /\ a.token = Ro(TokenProgram)
<1> DEFINE names == <<"market", "escrow", "contribution", "paid", "member", "token">>
           place == [market |-> 1, escrow |-> 2, contribution |-> 3, paid |-> 4, member |-> 5,
                     token |-> 6]
           list == Built("Refund", m, who)
           a == Named("Refund", list)
<1>1. "Refund" \in Instructions
  BY DEF Slots, Instructions
<1>2. Slots["Refund"] = names /\ Len(names) = 6
  BY DEF Slots
<1>3. \A i \in 1..6 : place[names[i]] = i
  OBVIOUS
<1> HIDE DEF names, place, list, a
<1>4. \A i \in 1..Len(Slots["Refund"]) : place[Slots["Refund"][i]] = i
  BY <1>2, <1>3
<1>5. /\ DOMAIN a = {Slots["Refund"][i] : i \in 1..Len(Slots["Refund"])}
      /\ \A i \in 1..Len(Slots["Refund"]) : a[Slots["Refund"][i]] = list[i]
  BY <1>1, <1>4, NamedAt, ZenonT(30) DEF a
<1>6. DOMAIN a = {names[i] : i \in 1..6} /\ \A i \in 1..6 : a[names[i]] = list[i]
  BY <1>2, <1>5
<1>7. /\ a.market = list[1] /\ a.escrow = list[2] /\ a.contribution = list[3] /\ a.paid = list[4]
      /\ a.member = list[5] /\ a.token = list[6]
  BY <1>6 DEF names
<1>8. QED
  BY <1>6, <1>7 DEF names, a, list, Built, BuildRefundIxs, RefundList

\* The accounts of an Activate, by name.
LEMMA ActivateBuilt ==
    ASSUME NEW m, NEW who
    PROVE  LET a == Named("Activate", Built("Activate", m, who))
               r == MarketRefs(m)
           IN  /\ DOMAIN a = {"market", "oracle", "payer", "question", "vault", "underlying",
                              "escrow", "yes", "no", "cyes", "cno", "amm", "lp_mint",
                              "lp_vault", "amm_base", "amm_quote", "cv_events", "cv",
                              "amm_events", "ammp", "token", "system"}
               /\ a.market = W(r.market) /\ a.oracle = Ro(r.oracle) /\ a.payer = Payer(who)
               /\ a.question = Ro(r.question) /\ a.vault = W(r.vault)
               /\ a.underlying = W(r.underlying) /\ a.escrow = W(EscrowPda(r.market))
               /\ a.yes = W(r.yes) /\ a.no = W(r.no) /\ a.cyes = W(r.cyes) /\ a.cno = W(r.cno)
               /\ a.amm = W(r.amm) /\ a.lp_mint = W(r.lp_mint) /\ a.lp_vault = W(r.lp_vault)
               /\ a.amm_base = W(r.amm_base) /\ a.amm_quote = W(r.amm_quote)
               /\ a.cv_events = Ro(r.cv_events) /\ a.cv = Ro(CvProgram)
               /\ a.amm_events = Ro(r.amm_events) /\ a.ammp = Ro(AmmProgram)
               /\ a.token = Ro(TokenProgram) /\ a.system = Ro(SystemProgram)
<1> DEFINE names == <<"market", "oracle", "payer", "question", "vault", "underlying", "escrow",
                      "yes", "no", "cyes", "cno", "amm", "lp_mint", "lp_vault", "amm_base",
                      "amm_quote", "cv_events", "cv", "amm_events", "ammp", "token", "system">>
           place == [market |-> 1, oracle |-> 2, payer |-> 3, question |-> 4, vault |-> 5,
                     underlying |-> 6, escrow |-> 7, yes |-> 8, no |-> 9, cyes |-> 10,
                     cno |-> 11, amm |-> 12, lp_mint |-> 13, lp_vault |-> 14, amm_base |-> 15,
                     amm_quote |-> 16, cv_events |-> 17, cv |-> 18, amm_events |-> 19,
                     ammp |-> 20, token |-> 21, system |-> 22]
           list == Built("Activate", m, who)
           a == Named("Activate", list)
<1>1. "Activate" \in Instructions
  BY DEF Slots, Instructions
<1>2. Slots["Activate"] = names /\ Len(names) = 22
  BY DEF Slots
<1>3. \A i \in 1..22 : place[names[i]] = i
  OBVIOUS
<1> HIDE DEF names, place, list, a
<1>4. \A i \in 1..Len(Slots["Activate"]) : place[Slots["Activate"][i]] = i
  BY <1>2, <1>3
<1>5. /\ DOMAIN a = {Slots["Activate"][i] : i \in 1..Len(Slots["Activate"])}
      /\ \A i \in 1..Len(Slots["Activate"]) : a[Slots["Activate"][i]] = list[i]
  BY <1>1, <1>4, NamedAt, ZenonT(30) DEF a
<1>6. DOMAIN a = {names[i] : i \in 1..22} /\ \A i \in 1..22 : a[names[i]] = list[i]
  BY <1>2, <1>5
<1>7. /\ a.market = list[1] /\ a.oracle = list[2] /\ a.payer = list[3] /\ a.question = list[4]
      /\ a.vault = list[5] /\ a.underlying = list[6] /\ a.escrow = list[7] /\ a.yes = list[8]
      /\ a.no = list[9] /\ a.cyes = list[10] /\ a.cno = list[11] /\ a.amm = list[12]
      /\ a.lp_mint = list[13] /\ a.lp_vault = list[14] /\ a.amm_base = list[15]
      /\ a.amm_quote = list[16] /\ a.cv_events = list[17] /\ a.cv = list[18]
      /\ a.amm_events = list[19] /\ a.ammp = list[20] /\ a.token = list[21]
      /\ a.system = list[22]
  BY <1>6 DEF names
<1>8. list = ActivateList(MarketRefs(m), who)
  BY DEF list, Built
<1>9. QED
  BY <1>6, <1>7, <1>8, SMTT(60) DEF names, a, list, ActivateList

\* The accounts of an AddLiquidity, by name.
LEMMA AddLiquidityBuilt ==
    ASSUME NEW m, NEW who
    PROVE  LET a == Named("AddLiquidity", Built("AddLiquidity", m, who))
               r == MarketRefs(m)
           IN  /\ DOMAIN a = {"market", "oracle", "member", "source", "escrow", "question",
                              "vault", "underlying", "yes", "no", "cyes", "cno", "member_cyes",
                              "member_cno", "amm", "lp_mint", "lp_vault", "amm_base",
                              "amm_quote", "contribution", "cv_events", "cv", "amm_events",
                              "ammp", "token", "system"}
               /\ a.market = W(r.market) /\ a.oracle = Ro(r.oracle) /\ a.member = Payer(who)
               /\ a.source = W(Ata(who, BaseMint)) /\ a.escrow = W(EscrowPda(r.market))
               /\ a.question = Ro(r.question) /\ a.vault = W(r.vault)
               /\ a.underlying = W(r.underlying) /\ a.yes = W(r.yes) /\ a.no = W(r.no)
               /\ a.cyes = W(CyesPda(r.market)) /\ a.cno = W(CnoPda(r.market))
               /\ a.member_cyes = W(Ata(who, r.yes)) /\ a.member_cno = W(Ata(who, r.no))
               /\ a.amm = W(r.amm) /\ a.lp_mint = W(r.lp_mint)
               /\ a.lp_vault = W(LpVaultPda(r.market)) /\ a.amm_base = W(r.amm_base)
               /\ a.amm_quote = W(r.amm_quote)
               /\ a.contribution = W(ContributionPda(r.market, who))
               /\ a.cv_events = Ro(r.cv_events) /\ a.cv = Ro(CvProgram)
               /\ a.amm_events = Ro(r.amm_events) /\ a.ammp = Ro(AmmProgram)
               /\ a.token = Ro(TokenProgram) /\ a.system = Ro(SystemProgram)
<1> DEFINE names == <<"market", "oracle", "member", "source", "escrow", "question", "vault",
                      "underlying", "yes", "no", "cyes", "cno", "member_cyes", "member_cno",
                      "amm", "lp_mint", "lp_vault", "amm_base", "amm_quote", "contribution",
                      "cv_events", "cv", "amm_events", "ammp", "token", "system">>
           place == [market |-> 1, oracle |-> 2, member |-> 3, source |-> 4, escrow |-> 5,
                     question |-> 6, vault |-> 7, underlying |-> 8, yes |-> 9, no |-> 10,
                     cyes |-> 11, cno |-> 12, member_cyes |-> 13, member_cno |-> 14,
                     amm |-> 15, lp_mint |-> 16, lp_vault |-> 17, amm_base |-> 18,
                     amm_quote |-> 19, contribution |-> 20, cv_events |-> 21, cv |-> 22,
                     amm_events |-> 23, ammp |-> 24, token |-> 25, system |-> 26]
           list == Built("AddLiquidity", m, who)
           a == Named("AddLiquidity", list)
<1>1. "AddLiquidity" \in Instructions
  BY DEF Slots, Instructions
<1>2. Slots["AddLiquidity"] = names /\ Len(names) = 26
  BY DEF Slots
<1>3. \A i \in 1..26 : place[names[i]] = i
  OBVIOUS
<1> HIDE DEF names, place, list, a
<1>4. \A i \in 1..Len(Slots["AddLiquidity"]) : place[Slots["AddLiquidity"][i]] = i
  BY <1>2, <1>3
<1>5. /\ DOMAIN a = {Slots["AddLiquidity"][i] : i \in 1..Len(Slots["AddLiquidity"])}
      /\ \A i \in 1..Len(Slots["AddLiquidity"]) : a[Slots["AddLiquidity"][i]] = list[i]
  BY <1>1, <1>4, NamedAt, ZenonT(30) DEF a
<1>6. DOMAIN a = {names[i] : i \in 1..26} /\ \A i \in 1..26 : a[names[i]] = list[i]
  BY <1>2, <1>5
<1>7. /\ a.market = list[1] /\ a.oracle = list[2] /\ a.member = list[3] /\ a.source = list[4]
      /\ a.escrow = list[5] /\ a.question = list[6] /\ a.vault = list[7]
      /\ a.underlying = list[8] /\ a.yes = list[9] /\ a.no = list[10] /\ a.cyes = list[11]
      /\ a.cno = list[12] /\ a.member_cyes = list[13] /\ a.member_cno = list[14]
      /\ a.amm = list[15] /\ a.lp_mint = list[16] /\ a.lp_vault = list[17]
      /\ a.amm_base = list[18] /\ a.amm_quote = list[19] /\ a.contribution = list[20]
      /\ a.cv_events = list[21] /\ a.cv = list[22] /\ a.amm_events = list[23]
      /\ a.ammp = list[24] /\ a.token = list[25] /\ a.system = list[26]
  BY <1>6 DEF names
<1>8. list = AddLiquidityList(MarketRefs(m), who)
  BY DEF list, Built
<1>9. QED
  BY <1>6, <1>7, <1>8, SMTT(60) DEF names, a, list, AddLiquidityList

\* The accounts of a ResolveMarket, by name.
LEMMA ResolveMarketBuilt ==
    ASSUME NEW m, NEW who
    PROVE  LET a == Named("ResolveMarket", Built("ResolveMarket", m, who))
               r == MarketRefs(m)
           IN  /\ DOMAIN a = {"market", "oracle", "question", "cv_events", "cv"}
               /\ a.market = W(r.market) /\ a.oracle = Ro(r.oracle) /\ a.question = W(r.question)
               /\ a.cv_events = Ro(r.cv_events) /\ a.cv = Ro(CvProgram)
<1> DEFINE names == <<"market", "oracle", "question", "cv_events", "cv">>
           place == [market |-> 1, oracle |-> 2, question |-> 3, cv_events |-> 4, cv |-> 5]
           list == Built("ResolveMarket", m, who)
           a == Named("ResolveMarket", list)
<1>1. "ResolveMarket" \in Instructions
  BY DEF Slots, Instructions
<1>2. Slots["ResolveMarket"] = names /\ Len(names) = 5
  BY DEF Slots
<1>3. \A i \in 1..5 : place[names[i]] = i
  OBVIOUS
<1> HIDE DEF names, place, list, a
<1>4. \A i \in 1..Len(Slots["ResolveMarket"]) : place[Slots["ResolveMarket"][i]] = i
  BY <1>2, <1>3
<1>5. /\ DOMAIN a = {Slots["ResolveMarket"][i] : i \in 1..Len(Slots["ResolveMarket"])}
      /\ \A i \in 1..Len(Slots["ResolveMarket"]) : a[Slots["ResolveMarket"][i]] = list[i]
  BY <1>1, <1>4, NamedAt, ZenonT(30) DEF a
<1>6. DOMAIN a = {names[i] : i \in 1..5} /\ \A i \in 1..5 : a[names[i]] = list[i]
  BY <1>2, <1>5
<1>7. /\ a.market = list[1] /\ a.oracle = list[2] /\ a.question = list[3]
      /\ a.cv_events = list[4] /\ a.cv = list[5]
  BY <1>6 DEF names
<1>8. QED
  BY <1>6, <1>7 DEF names, a, list, Built, BuildResolveIxs, ResolveMarketList

\* The accounts of a CollectFee, by name.
LEMMA CollectFeeBuilt ==
    ASSUME NEW m, NEW who
    PROVE  LET a == Named("CollectFee", Built("CollectFee", m, who))
               r == MarketRefs(m)
           IN  /\ DOMAIN a = {"market", "config", "fee_destination", "question", "vault",
                              "underlying", "escrow", "yes", "no", "cyes", "cno", "amm",
                              "lp_mint", "lp_vault", "amm_base", "amm_quote", "cv_events",
                              "cv", "amm_events", "ammp", "token"}
               /\ a.market = W(r.market) /\ a.config = Ro(ConfigPda)
               /\ a.fee_destination = W(FeeAccount(destination)) /\ a.question = Ro(r.question)
               /\ a.vault = W(r.vault) /\ a.underlying = W(r.underlying)
               /\ a.escrow = W(EscrowPda(r.market)) /\ a.yes = W(r.yes) /\ a.no = W(r.no)
               /\ a.cyes = W(r.cyes) /\ a.cno = W(r.cno) /\ a.amm = W(r.amm)
               /\ a.lp_mint = W(r.lp_mint) /\ a.lp_vault = W(r.lp_vault)
               /\ a.amm_base = W(r.amm_base) /\ a.amm_quote = W(r.amm_quote)
               /\ a.cv_events = Ro(r.cv_events) /\ a.cv = Ro(CvProgram)
               /\ a.amm_events = Ro(r.amm_events) /\ a.ammp = Ro(AmmProgram)
               /\ a.token = Ro(TokenProgram)
<1> DEFINE names == <<"market", "config", "fee_destination", "question", "vault", "underlying",
                      "escrow", "yes", "no", "cyes", "cno", "amm", "lp_mint", "lp_vault",
                      "amm_base", "amm_quote", "cv_events", "cv", "amm_events", "ammp", "token">>
           place == [market |-> 1, config |-> 2, fee_destination |-> 3, question |-> 4,
                     vault |-> 5, underlying |-> 6, escrow |-> 7, yes |-> 8, no |-> 9,
                     cyes |-> 10, cno |-> 11, amm |-> 12, lp_mint |-> 13, lp_vault |-> 14,
                     amm_base |-> 15, amm_quote |-> 16, cv_events |-> 17, cv |-> 18,
                     amm_events |-> 19, ammp |-> 20, token |-> 21]
           list == Built("CollectFee", m, who)
           a == Named("CollectFee", list)
<1>1. "CollectFee" \in Instructions
  BY DEF Slots, Instructions
<1>2. Slots["CollectFee"] = names /\ Len(names) = 21
  BY DEF Slots
<1>3. \A i \in 1..21 : place[names[i]] = i
  OBVIOUS
<1> HIDE DEF names, place, list, a
<1>4. \A i \in 1..Len(Slots["CollectFee"]) : place[Slots["CollectFee"][i]] = i
  BY <1>2, <1>3
<1>5. /\ DOMAIN a = {Slots["CollectFee"][i] : i \in 1..Len(Slots["CollectFee"])}
      /\ \A i \in 1..Len(Slots["CollectFee"]) : a[Slots["CollectFee"][i]] = list[i]
  BY <1>1, <1>4, NamedAt, ZenonT(30) DEF a
<1>6. DOMAIN a = {names[i] : i \in 1..21} /\ \A i \in 1..21 : a[names[i]] = list[i]
  BY <1>2, <1>5
<1>7. /\ a.market = list[1] /\ a.config = list[2] /\ a.fee_destination = list[3]
      /\ a.question = list[4] /\ a.vault = list[5] /\ a.underlying = list[6]
      /\ a.escrow = list[7] /\ a.yes = list[8] /\ a.no = list[9] /\ a.cyes = list[10]
      /\ a.cno = list[11] /\ a.amm = list[12] /\ a.lp_mint = list[13] /\ a.lp_vault = list[14]
      /\ a.amm_base = list[15] /\ a.amm_quote = list[16] /\ a.cv_events = list[17]
      /\ a.cv = list[18] /\ a.amm_events = list[19] /\ a.ammp = list[20] /\ a.token = list[21]
  BY <1>6 DEF names
<1>8. list = CollectFeeList(MarketRefs(m), FeeAccount(destination))
  BY DEF list, Built, BuildCollectFeeIxs
<1>9. QED
  BY <1>6, <1>7, <1>8, SMTT(60) DEF names, a, list, CollectFeeList

\* The accounts of a ClaimLp, by name.
LEMMA ClaimLpBuilt ==
    ASSUME NEW m, NEW who
    PROVE  LET a == Named("ClaimLp", Built("ClaimLp", m, who))
               r == MarketRefs(m)
           IN  /\ DOMAIN a = {"market", "lp_vault", "contribution", "paid", "member", "token"}
               /\ a.market = W(m) /\ a.lp_vault = W(LpVaultPda(m))
               /\ a.contribution = W(ContributionPda(m, who)) /\ a.paid = W(Ata(who, r.lp_mint))
               /\ a.member = W(who) /\ a.token = Ro(TokenProgram)
<1> DEFINE names == <<"market", "lp_vault", "contribution", "paid", "member", "token">>
           place == [market |-> 1, lp_vault |-> 2, contribution |-> 3, paid |-> 4,
                     member |-> 5, token |-> 6]
           list == Built("ClaimLp", m, who)
           a == Named("ClaimLp", list)
<1>1. "ClaimLp" \in Instructions
  BY DEF Slots, Instructions
<1>2. Slots["ClaimLp"] = names /\ Len(names) = 6
  BY DEF Slots
<1>3. \A i \in 1..6 : place[names[i]] = i
  OBVIOUS
<1> HIDE DEF names, place, list, a
<1>4. \A i \in 1..Len(Slots["ClaimLp"]) : place[Slots["ClaimLp"][i]] = i
  BY <1>2, <1>3
<1>5. /\ DOMAIN a = {Slots["ClaimLp"][i] : i \in 1..Len(Slots["ClaimLp"])}
      /\ \A i \in 1..Len(Slots["ClaimLp"]) : a[Slots["ClaimLp"][i]] = list[i]
  BY <1>1, <1>4, NamedAt, ZenonT(30) DEF a
<1>6. DOMAIN a = {names[i] : i \in 1..6} /\ \A i \in 1..6 : a[names[i]] = list[i]
  BY <1>2, <1>5
<1>7. /\ a.market = list[1] /\ a.lp_vault = list[2] /\ a.contribution = list[3]
      /\ a.paid = list[4] /\ a.member = list[5] /\ a.token = list[6]
  BY <1>6 DEF names
<1>8. QED
  BY <1>6, <1>7 DEF names, a, list, Built, BuildClaimLpIxs, ClaimLpList

\* The accounts of a CloseMarket, by name.
LEMMA CloseMarketBuilt ==
    ASSUME NEW m, NEW who
    PROVE  LET a == Named("CloseMarket", Built("CloseMarket", m, who))
           IN  /\ DOMAIN a = {"market", "creator", "escrow", "cyes", "cno", "lp_vault", "token"}
               /\ a.market = W(m) /\ a.creator = W(Wallet(Founder)) /\ a.escrow = W(EscrowPda(m))
               /\ a.cyes = W(CyesPda(m)) /\ a.cno = W(CnoPda(m)) /\ a.lp_vault = W(LpVaultPda(m))
               /\ a.token = Ro(TokenProgram)
<1> DEFINE names == <<"market", "creator", "escrow", "cyes", "cno", "lp_vault", "token">>
           place == [market |-> 1, creator |-> 2, escrow |-> 3, cyes |-> 4, cno |-> 5,
                     lp_vault |-> 6, token |-> 7]
           list == Built("CloseMarket", m, who)
           a == Named("CloseMarket", list)
<1>1. "CloseMarket" \in Instructions
  BY DEF Slots, Instructions
<1>2. Slots["CloseMarket"] = names /\ Len(names) = 7
  BY DEF Slots
<1>3. \A i \in 1..7 : place[names[i]] = i
  OBVIOUS
<1> HIDE DEF names, place, list, a
<1>4. \A i \in 1..Len(Slots["CloseMarket"]) : place[Slots["CloseMarket"][i]] = i
  BY <1>2, <1>3
<1>5. /\ DOMAIN a = {Slots["CloseMarket"][i] : i \in 1..Len(Slots["CloseMarket"])}
      /\ \A i \in 1..Len(Slots["CloseMarket"]) : a[Slots["CloseMarket"][i]] = list[i]
  BY <1>1, <1>4, NamedAt, ZenonT(30) DEF a
<1>6. DOMAIN a = {names[i] : i \in 1..7} /\ \A i \in 1..7 : a[names[i]] = list[i]
  BY <1>2, <1>5
<1>7. /\ a.market = list[1] /\ a.creator = list[2] /\ a.escrow = list[3] /\ a.cyes = list[4]
      /\ a.cno = list[5] /\ a.lp_vault = list[6] /\ a.token = list[7]
  BY <1>6 DEF names
<1>8. QED
  BY <1>6, <1>7 DEF names, a, list, Built, BuildCloseMarketIxs, CloseMarketList

\* The accounts of a Delegate, by name.
LEMMA DelegateBuilt ==
    ASSUME NEW m, NEW who
    PROVE  LET a == Named("Delegate", Built("Delegate", m, who))
           IN  /\ DOMAIN a = {"market", "session", "payer", "system"}
               /\ a.market = W(m) /\ a.session = W(SessionPda(m)) /\ a.payer = Payer(who)
               /\ a.system = Ro(SystemProgram)
<1> DEFINE names == <<"market", "session", "payer", "system">>
           place == [market |-> 1, session |-> 2, payer |-> 3, system |-> 4]
           list == Built("Delegate", m, who)
           a == Named("Delegate", list)
<1>1. "Delegate" \in Instructions
  BY DEF Slots, Instructions
<1>2. Slots["Delegate"] = names /\ Len(names) = 4
  BY DEF Slots
<1>3. \A i \in 1..4 : place[names[i]] = i
  OBVIOUS
<1> HIDE DEF names, place, list, a
<1>4. \A i \in 1..Len(Slots["Delegate"]) : place[Slots["Delegate"][i]] = i
  BY <1>2, <1>3
<1>5. /\ DOMAIN a = {Slots["Delegate"][i] : i \in 1..Len(Slots["Delegate"])}
      /\ \A i \in 1..Len(Slots["Delegate"]) : a[Slots["Delegate"][i]] = list[i]
  BY <1>1, <1>4, NamedAt, ZenonT(30) DEF a
<1>6. DOMAIN a = {names[i] : i \in 1..4} /\ \A i \in 1..4 : a[names[i]] = list[i]
  BY <1>2, <1>5
<1>7. /\ a.market = list[1] /\ a.session = list[2] /\ a.payer = list[3] /\ a.system = list[4]
  BY <1>6 DEF names
<1>8. QED
  BY <1>6, <1>7 DEF names, a, list, Built, DelegateList

\* The accounts of a Commit, by name.
LEMMA CommitBuilt ==
    ASSUME NEW m, NEW who
    PROVE  LET a == Named("Commit", Built("Commit", m, who))
           IN  /\ DOMAIN a = {"market", "session"}
               /\ a.market = W(m) /\ a.session = W(SessionPda(m))
<1> DEFINE names == <<"market", "session">>
           place == [market |-> 1, session |-> 2]
           list == Built("Commit", m, who)
           a == Named("Commit", list)
<1>1. "Commit" \in Instructions
  BY DEF Slots, Instructions
<1>2. Slots["Commit"] = names /\ Len(names) = 2
  BY DEF Slots
<1>3. \A i \in 1..2 : place[names[i]] = i
  OBVIOUS
<1> HIDE DEF names, place, list, a
<1>4. \A i \in 1..Len(Slots["Commit"]) : place[Slots["Commit"][i]] = i
  BY <1>2, <1>3
<1>5. /\ DOMAIN a = {Slots["Commit"][i] : i \in 1..Len(Slots["Commit"])}
      /\ \A i \in 1..Len(Slots["Commit"]) : a[Slots["Commit"][i]] = list[i]
  BY <1>1, <1>4, NamedAt, ZenonT(30) DEF a
<1>6. DOMAIN a = {names[i] : i \in 1..2} /\ \A i \in 1..2 : a[names[i]] = list[i]
  BY <1>2, <1>5
<1>7. /\ a.market = list[1] /\ a.session = list[2]
  BY <1>6 DEF names
<1>8. QED
  BY <1>6, <1>7 DEF names, a, list, Built, SessionList

\* The accounts of an Undelegate, by name.
LEMMA UndelegateBuilt ==
    ASSUME NEW m, NEW who
    PROVE  LET a == Named("Undelegate", Built("Undelegate", m, who))
           IN  /\ DOMAIN a = {"market", "session"}
               /\ a.market = W(m) /\ a.session = W(SessionPda(m))
<1> DEFINE names == <<"market", "session">>
           place == [market |-> 1, session |-> 2]
           list == Built("Undelegate", m, who)
           a == Named("Undelegate", list)
<1>1. "Undelegate" \in Instructions
  BY DEF Slots, Instructions
<1>2. Slots["Undelegate"] = names /\ Len(names) = 2
  BY DEF Slots
<1>3. \A i \in 1..2 : place[names[i]] = i
  OBVIOUS
<1> HIDE DEF names, place, list, a
<1>4. \A i \in 1..Len(Slots["Undelegate"]) : place[Slots["Undelegate"][i]] = i
  BY <1>2, <1>3
<1>5. /\ DOMAIN a = {Slots["Undelegate"][i] : i \in 1..Len(Slots["Undelegate"])}
      /\ \A i \in 1..Len(Slots["Undelegate"]) : a[Slots["Undelegate"][i]] = list[i]
  BY <1>1, <1>4, NamedAt, ZenonT(30) DEF a
<1>6. DOMAIN a = {names[i] : i \in 1..2} /\ \A i \in 1..2 : a[names[i]] = list[i]
  BY <1>2, <1>5
<1>7. /\ a.market = list[1] /\ a.session = list[2]
  BY <1>6 DEF names
<1>8. QED
  BY <1>6, <1>7 DEF names, a, list, Built, SessionList

(***************************************************************************)
(* What the program reads                                                  *)
(***************************************************************************)
\* What a market records at its activation.
LEMMA RefsAre ==
    ASSUME NEW m
    PROVE  LET r == MarketRefs(m)
           IN  /\ r.market = m /\ r.oracle = m[2] /\ r.question = QuestionPda(m[2], m)
               /\ r.vault = VaultPda(r.question, BaseMint)
               /\ r.underlying = Ata(r.vault, BaseMint) /\ r.escrow = EscrowPda(m)
               /\ r.yes = TokenMintPda(r.vault, 0) /\ r.no = TokenMintPda(r.vault, 1)
               /\ r.cyes = CyesPda(m) /\ r.cno = CnoPda(m) /\ r.lp_vault = LpVaultPda(m)
               /\ r.amm = AmmPda(r.yes, r.no) /\ r.lp_mint = LpMintPda(r.amm)
               /\ r.amm_base = Ata(r.amm, r.yes) /\ r.amm_quote = Ata(r.amm, r.no)
               /\ r.cv_events = EventAuthority(CvProgram)
               /\ r.amm_events = EventAuthority(AmmProgram)
  BY DEF MarketRefs

\* The four markets are different ones.
LEMMA MarketsApart ==
    /\ Subject # OtherSubject /\ Here # There /\ Here # Settled /\ Here # Called
    /\ There # Settled /\ There # Called /\ Settled # Called
  BY DEF Here, There, Settled, Called, MarketPda, Subject, OtherSubject, SubjectPda

\* What the program reads of the market here.
LEMMA HereRead ==
    /\ Here[1] = "market" /\ Here[2] = Subject /\ Here = MarketPda(Subject, 0)
    /\ Status(Here) = phase /\ MembersOf(Here) = members
    /\ (FeeDone(Here) <=> feeDone) /\ (Composed(Here) <=> composed)
    /\ (IsDelegated(Here) <=> delegated)
    /\ (IsMarket(Here) <=> Present(Here))
    /\ IsSubject(Subject) /\ (IsTerminal(Subject) <=> terminal)
<1>1. Status(Here) = phase
  BY MarketsApart DEF Status
<1>2. Here[1] = "market" /\ Here[2] = Subject /\ Here = MarketPda(Subject, 0)
  BY DEF Here, MarketPda
<1>3. MembersOf(Here) = members /\ (IsMarket(Here) <=> Present(Here))
  BY <1>2 DEF MembersOf, IsMarket
<1>4. /\ (FeeDone(Here) <=> feeDone) /\ (Composed(Here) <=> composed)
      /\ (IsDelegated(Here) <=> delegated)
  BY MarketsApart DEF FeeDone, Composed, IsDelegated
<1>5. IsSubject(Subject) /\ (IsTerminal(Subject) <=> terminal)
  BY MarketsApart DEF IsSubject, IsTerminal
<1>6. QED
  BY <1>1, <1>2, <1>3, <1>4, <1>5

\* Governance moves the fees to another treasury.
LEMMA NextIsOther ==
    ASSUME destination \in Treasuries
    PROVE  NextTreasury \in Treasuries /\ NextTreasury # destination
  BY OtherTreasury DEF NextTreasury

(***************************************************************************)
(* One key for each slot                                                   *)
(***************************************************************************)
\* The list with another key in one of its slots.
LEMMA Replaced ==
    ASSUME NEW a, NEW s \in DOMAIN a, NEW x, "key" \in DOMAIN a[s]
    PROVE  LET b == [a EXCEPT ![s].key = x]
               l == [t \in DOMAIN b |-> b[t].key]
           IN  /\ DOMAIN l = DOMAIN a /\ l[s] = x
               /\ \A t \in DOMAIN a \ {s} : l[t] = a[t].key
  OBVIOUS

\* A fixed slot has one key that is taken.
LEMMA FixedOne ==
    ASSUME NEW k, NEW l, DOMAIN l = DOMAIN k, FixedMatch(k), FixedMatch(l)
    PROVE  \A s \in DOMAIN k \cap DOMAIN Fixed : l[s] = k[s]
  BY DEF FixedMatch

\* So does a recorded one.
LEMMA RecordedOne ==
    ASSUME NEW k, NEW l, DOMAIN l = DOMAIN k, RecordedMatch(k), RecordedMatch(l),
           k.market = l.market
    PROVE  \A s \in DOMAIN k \cap Recorded : l[s] = k[s]
  BY DEF RecordedMatch

\* An address says what it is derived from.
LEMMA Injective ==
    /\ \A m, n : EscrowPda(m) = EscrowPda(n) => m = n
    /\ \A m, n : LpVaultPda(m) = LpVaultPda(n) => m = n
    /\ \A m, n : SessionPda(m) = SessionPda(n) => m = n
    /\ \A i, j, m, n : QuestionPda(i, m) = QuestionPda(j, n) => m = n
    /\ \A m, n, u, v : ContributionPda(m, u) = ContributionPda(n, v) => m = n /\ u = v
    /\ \A u, v, c, d : InteractionPda(u, c) = InteractionPda(v, d) => u = v
  BY DEF EscrowPda, LpVaultPda, SessionPda, QuestionPda, ContributionPda, InteractionPda

\* The checks of an UpdateConfig leave one key for a slot, the others given.
LEMMA UpdateConfigOne ==
    ASSUME NEW k, NEW l, DOMAIN l = DOMAIN k, NEW s \in DOMAIN k,
           DOMAIN k = {"config", "authority", "fee_destination"},
           \A t \in DOMAIN k \ {s} : l[t] = k[t],
           FixedMatch(k), FixedMatch(l), TakesUpdateConfig(k), TakesUpdateConfig(l)
    PROVE  l[s] = k[s]
<1>1. CASE s \in {"config"}
  BY <1>1, FixedOne DEF Fixed
<1>2. CASE s = "authority"
  BY <1>2 DEF TakesUpdateConfig
<1>3. CASE s = "fee_destination"
  BY <1>3 DEF TakesUpdateConfig
<1>4. QED
  BY <1>1, <1>2, <1>3

\* The checks of a CreateSubject leave one key for a slot, the others given.
LEMMA CreateSubjectOne ==
    ASSUME NEW k, NEW l, DOMAIN l = DOMAIN k, NEW s \in DOMAIN k,
           DOMAIN k = {"payer", "subject", "system"},
           s \notin {"payer"},
           \A t \in DOMAIN k \ {s} : l[t] = k[t],
           FixedMatch(k), FixedMatch(l), TakesCreateSubject(k), TakesCreateSubject(l)
    PROVE  l[s] = k[s]
<1>1. CASE s \in {"system"}
  BY <1>1, FixedOne DEF Fixed
<1>2. CASE s = "subject"
  BY <1>2 DEF TakesCreateSubject
<1>3. QED
  BY <1>1, <1>2

\* The checks of a RequestAi leave one key for a slot, the others given.
LEMMA RequestAiOne ==
    ASSUME NEW k, NEW l, DOMAIN l = DOMAIN k, NEW s \in DOMAIN k,
           DOMAIN k = {"subject", "payer", "system", "gpt", "interaction", "context"},
           \A t \in DOMAIN k \ {s} : l[t] = k[t],
           FixedMatch(k), FixedMatch(l), TakesRequestAi(k), TakesRequestAi(l)
    PROVE  l[s] = k[s]
<1>1. CASE s \in {"system"}
  BY <1>1, FixedOne DEF Fixed
<1>2. CASE s = "subject"
  BY <1>2 DEF TakesRequestAi, OpenSubject, IsSubject, IsTerminal
<1>3. CASE s = "payer"
  BY <1>3, Injective DEF TakesRequestAi
<1>4. CASE s = "gpt"
  BY <1>4 DEF TakesRequestAi
<1>5. CASE s = "interaction"
  BY <1>5 DEF TakesRequestAi
<1>6. CASE s = "context"
  BY <1>6 DEF TakesRequestAi
<1>7. QED
  BY <1>1, <1>2, <1>3, <1>4, <1>5, <1>6

\* The checks of a CreateMarket leave one key for a slot, the others given.
LEMMA CreateMarketOne ==
    ASSUME NEW k, NEW l, DOMAIN l = DOMAIN k, NEW s \in DOMAIN k,
           DOMAIN k = {"config", "oracle", "market", "escrow", "base_mint", "member", "source",
                       "contribution", "token", "system"},
           s \notin {"source"},
           \A t \in DOMAIN k \ {s} : l[t] = k[t],
           FixedMatch(k), FixedMatch(l), TakesCreateMarket(k), TakesCreateMarket(l)
    PROVE  l[s] = k[s]
<1>1. CASE s \in {"config", "token", "system"}
  BY <1>1, FixedOne DEF Fixed
<1>2. CASE s = "oracle"
  BY <1>2 DEF TakesCreateMarket, OpenSubject, IsSubject, IsTerminal
<1>3. CASE s = "market"
  BY <1>3 DEF TakesCreateMarket
<1>4. CASE s = "escrow"
  BY <1>4 DEF TakesCreateMarket
<1>5. CASE s = "base_mint"
  BY <1>5 DEF TakesCreateMarket
<1>6. CASE s = "member"
  BY <1>6, Injective DEF TakesCreateMarket
<1>7. CASE s = "contribution"
  BY <1>7 DEF TakesCreateMarket
<1>8. QED
  BY <1>1, <1>2, <1>3, <1>4, <1>5, <1>6, <1>7

\* The checks of a Contribute leave one key for a slot, the others given.
LEMMA ContributeOne ==
    ASSUME NEW k, NEW l, DOMAIN l = DOMAIN k, NEW s \in DOMAIN k,
           DOMAIN k = {"market", "escrow", "member", "source", "contribution", "token",
                       "callee"},
           s \notin {"callee", "source"},
           \A t \in DOMAIN k \ {s} : l[t] = k[t],
           FixedMatch(k), FixedMatch(l), TakesContribute(k), TakesContribute(l)
    PROVE  l[s] = k[s]
<1>1. CASE s \in {"token"}
  BY <1>1, FixedOne DEF Fixed
<1>2. CASE s = "market"
  BY <1>2, Injective DEF TakesContribute
<1>3. CASE s = "escrow"
  BY <1>3 DEF TakesContribute
<1>4. CASE s = "member"
  BY <1>4, Injective DEF TakesContribute, TakesDeposit
<1>5. CASE s = "contribution"
  BY <1>5 DEF TakesContribute, TakesDeposit
<1>6. QED
  BY <1>1, <1>2, <1>3, <1>4, <1>5

\* The checks of a Cancel leave one key for a slot, the others given.
LEMMA CancelOne ==
    ASSUME NEW k, NEW l, DOMAIN l = DOMAIN k, NEW s \in DOMAIN k,
           DOMAIN k = {"market", "oracle"},
           \A t \in DOMAIN k \ {s} : l[t] = k[t],
           FixedMatch(k), FixedMatch(l), TakesCancel(k), TakesCancel(l)
    PROVE  l[s] = k[s]
<1>1. CASE s = "market"
  BY <1>1 DEF TakesCancel, InPhase, Status
<1>2. CASE s = "oracle"
  BY <1>2 DEF TakesCancel
<1>3. QED
  BY <1>1, <1>2

\* The checks of a Refund leave one key for a slot, the others given.
LEMMA RefundOne ==
    ASSUME NEW k, NEW l, DOMAIN l = DOMAIN k, NEW s \in DOMAIN k,
           DOMAIN k = {"market", "escrow", "contribution", "paid", "member", "token"},
           s \notin {"paid", "contribution"},
           \A t \in DOMAIN k \ {s} : l[t] = k[t],
           FixedMatch(k), FixedMatch(l), TakesRefund(k), TakesRefund(l)
    PROVE  l[s] = k[s]
<1>1. CASE s \in {"token"}
  BY <1>1, FixedOne DEF Fixed
<1>2. CASE s = "market"
  BY <1>2, Injective DEF TakesRefund
<1>3. CASE s = "escrow"
  BY <1>3 DEF TakesRefund
<1>4. CASE s = "member"
  BY <1>4 DEF TakesRefund
<1>5. QED
  BY <1>1, <1>2, <1>3, <1>4

\* The checks of an Activate leave one key for a slot, the others given.
LEMMA ActivateOne ==
    ASSUME NEW k, NEW l, DOMAIN l = DOMAIN k, NEW s \in DOMAIN k,
           DOMAIN k = {"market", "oracle", "payer", "question", "vault", "underlying",
                       "escrow", "yes", "no", "cyes", "cno", "amm", "lp_mint", "lp_vault",
                       "amm_base", "amm_quote", "cv_events", "cv", "amm_events", "ammp",
                       "token", "system"},
           s \notin {"payer"},
           \A t \in DOMAIN k \ {s} : l[t] = k[t],
           FixedMatch(k), FixedMatch(l), TakesActivate(k), TakesActivate(l)
    PROVE  l[s] = k[s]
<1>1. CASE s \in {"cv_events", "cv", "amm_events", "ammp", "token", "system"}
  BY <1>1, FixedOne DEF Fixed
<1>2. CASE s = "market"
  BY <1>2, Injective DEF TakesActivate
<1>3. CASE s = "oracle"
  BY <1>3 DEF TakesActivate
<1>4. CASE s = "question"
  BY <1>4 DEF TakesActivate
<1>5. CASE s = "vault"
  BY <1>5 DEF TakesActivate
<1>6. CASE s = "underlying"
  BY <1>6 DEF TakesActivate
<1>7. CASE s = "escrow"
  BY <1>7 DEF TakesActivate
<1>8. CASE s = "yes"
  BY <1>8 DEF TakesActivate
<1>9. CASE s = "no"
  BY <1>9 DEF TakesActivate
<1>10. CASE s = "cyes"
  BY <1>10 DEF TakesActivate
<1>11. CASE s = "cno"
  BY <1>11 DEF TakesActivate
<1>12. CASE s = "amm"
  BY <1>12 DEF TakesActivate
<1>13. CASE s = "lp_mint"
  BY <1>13 DEF TakesActivate
<1>14. CASE s = "lp_vault"
  BY <1>14 DEF TakesActivate
<1>15. CASE s = "amm_base"
  BY <1>15 DEF TakesActivate
<1>16. CASE s = "amm_quote"
  BY <1>16 DEF TakesActivate
<1>17. QED
  BY <1>1, <1>2, <1>3, <1>4, <1>5, <1>6, <1>7, <1>8, <1>9, <1>10, <1>11, <1>12, <1>13, <1>14,
     <1>15, <1>16

\* The checks of an AddLiquidity leave one key for a slot, the others given.
LEMMA AddLiquidityOne ==
    ASSUME NEW k, NEW l, DOMAIN l = DOMAIN k, NEW s \in DOMAIN k,
           DOMAIN k = {"market", "oracle", "member", "source", "escrow", "question", "vault",
                       "underlying", "yes", "no", "cyes", "cno", "member_cyes", "member_cno",
                       "amm", "lp_mint", "lp_vault", "amm_base", "amm_quote", "contribution",
                       "cv_events", "cv", "amm_events", "ammp", "token", "system"},
           s \notin {"source"},
           \A t \in DOMAIN k \ {s} : l[t] = k[t],
           FixedMatch(k), FixedMatch(l), TakesAddLiquidity(k), TakesAddLiquidity(l)
    PROVE  l[s] = k[s]
<1>1. CASE s \in {"cv_events", "cv", "amm_events", "ammp", "token", "system"}
  BY <1>1, FixedOne DEF Fixed
<1>2. CASE s \in {"escrow", "question", "vault", "underlying", "yes", "no", "cyes", "cno",
                  "amm", "lp_mint", "lp_vault", "amm_base", "amm_quote"}
  <2>1. RecordedMatch(k) /\ RecordedMatch(l) /\ k.market = l.market
    BY <1>2 DEF TakesAddLiquidity
  <2>2. QED
    BY <1>2, <2>1, RecordedOne DEF Recorded
<1>3. CASE s = "market"
  <2>1. l.question = k.question
    BY <1>3
  <2>2. RecordedMatch(k) /\ RecordedMatch(l)
    BY DEF TakesAddLiquidity
  <2>3. l.question = MarketRefs(l.market).question /\ k.question = MarketRefs(k.market).question
    BY <2>2 DEF RecordedMatch, Recorded
  <2>4. l.market = k.market
    BY <2>1, <2>3, RefsAre, Injective
  <2>5. QED
    BY <1>3, <2>4
<1>4. CASE s = "oracle"
  BY <1>4 DEF TakesAddLiquidity
<1>5. CASE s = "member"
  BY <1>5, Injective DEF TakesAddLiquidity, TakesDeposit
<1>6. CASE s = "member_cyes"
  BY <1>6 DEF TakesAddLiquidity
<1>7. CASE s = "member_cno"
  BY <1>7 DEF TakesAddLiquidity
<1>8. CASE s = "contribution"
  BY <1>8 DEF TakesAddLiquidity, TakesDeposit
<1>9. QED
  BY <1>1, <1>2, <1>3, <1>4, <1>5, <1>6, <1>7, <1>8

\* The checks of a ResolveMarket leave one key for a slot, the others given.
LEMMA ResolveMarketOne ==
    ASSUME NEW k, NEW l, DOMAIN l = DOMAIN k, NEW s \in DOMAIN k,
           DOMAIN k = {"market", "oracle", "question", "cv_events", "cv"},
           \A t \in DOMAIN k \ {s} : l[t] = k[t],
           FixedMatch(k), FixedMatch(l), TakesResolveMarket(k), TakesResolveMarket(l)
    PROVE  l[s] = k[s]
<1>1. CASE s \in {"cv_events", "cv"}
  BY <1>1, FixedOne DEF Fixed
<1>2. CASE s \in {"question"}
  <2>1. RecordedMatch(k) /\ RecordedMatch(l) /\ k.market = l.market
    BY <1>2 DEF TakesResolveMarket
  <2>2. QED
    BY <1>2, <2>1, RecordedOne DEF Recorded
<1>3. CASE s = "market"
  <2>1. l.question = k.question
    BY <1>3
  <2>2. RecordedMatch(k) /\ RecordedMatch(l)
    BY DEF TakesResolveMarket
  <2>3. l.question = MarketRefs(l.market).question /\ k.question = MarketRefs(k.market).question
    BY <2>2 DEF RecordedMatch, Recorded
  <2>4. l.market = k.market
    BY <2>1, <2>3, RefsAre, Injective
  <2>5. QED
    BY <1>3, <2>4
<1>4. CASE s = "oracle"
  BY <1>4 DEF TakesResolveMarket
<1>5. QED
  BY <1>1, <1>2, <1>3, <1>4

\* The checks of a CollectFee leave one key for a slot, the others given.
LEMMA CollectFeeOne ==
    ASSUME NEW k, NEW l, DOMAIN l = DOMAIN k, NEW s \in DOMAIN k,
           DOMAIN k = {"market", "config", "fee_destination", "question", "vault",
                       "underlying", "escrow", "yes", "no", "cyes", "cno", "amm", "lp_mint",
                       "lp_vault", "amm_base", "amm_quote", "cv_events", "cv", "amm_events",
                       "ammp", "token"},
           \A t \in DOMAIN k \ {s} : l[t] = k[t],
           FixedMatch(k), FixedMatch(l), TakesCollectFee(k), TakesCollectFee(l)
    PROVE  l[s] = k[s]
<1>1. CASE s \in {"config", "cv_events", "cv", "amm_events", "ammp", "token"}
  BY <1>1, FixedOne DEF Fixed
<1>2. CASE s \in {"question", "vault", "underlying", "escrow", "yes", "no", "cyes", "cno",
                  "amm", "lp_mint", "lp_vault", "amm_base", "amm_quote"}
  <2>1. RecordedMatch(k) /\ RecordedMatch(l) /\ k.market = l.market
    BY <1>2 DEF TakesCollectFee
  <2>2. QED
    BY <1>2, <2>1, RecordedOne DEF Recorded
<1>3. CASE s = "market"
  <2>1. l.question = k.question
    BY <1>3
  <2>2. RecordedMatch(k) /\ RecordedMatch(l)
    BY DEF TakesCollectFee
  <2>3. l.question = MarketRefs(l.market).question /\ k.question = MarketRefs(k.market).question
    BY <2>2 DEF RecordedMatch, Recorded
  <2>4. l.market = k.market
    BY <2>1, <2>3, RefsAre, Injective
  <2>5. QED
    BY <1>3, <2>4
<1>4. CASE s = "fee_destination"
  BY <1>4 DEF TakesCollectFee
<1>5. QED
  BY <1>1, <1>2, <1>3, <1>4

\* The checks of a ClaimLp leave one key for a slot, the others given.
LEMMA ClaimLpOne ==
    ASSUME NEW k, NEW l, DOMAIN l = DOMAIN k, NEW s \in DOMAIN k,
           DOMAIN k = {"market", "lp_vault", "contribution", "paid", "member", "token"},
           s \notin {"paid", "contribution"},
           \A t \in DOMAIN k \ {s} : l[t] = k[t],
           FixedMatch(k), FixedMatch(l), TakesClaimLp(k), TakesClaimLp(l)
    PROVE  l[s] = k[s]
<1>1. CASE s \in {"token"}
  BY <1>1, FixedOne DEF Fixed
<1>2. CASE s \in {"lp_vault"}
  <2>1. RecordedMatch(k) /\ RecordedMatch(l) /\ k.market = l.market
    BY <1>2 DEF TakesClaimLp
  <2>2. QED
    BY <1>2, <2>1, RecordedOne DEF Recorded
<1>3. CASE s = "market"
  <2>1. l.lp_vault = k.lp_vault
    BY <1>3
  <2>2. RecordedMatch(k) /\ RecordedMatch(l)
    BY DEF TakesClaimLp
  <2>3. l.lp_vault = MarketRefs(l.market).lp_vault /\ k.lp_vault = MarketRefs(k.market).lp_vault
    BY <2>2 DEF RecordedMatch, Recorded
  <2>4. l.market = k.market
    BY <2>1, <2>3, RefsAre, Injective
  <2>5. QED
    BY <1>3, <2>4
<1>4. CASE s = "member"
  BY <1>4 DEF TakesClaimLp
<1>5. QED
  BY <1>1, <1>2, <1>3, <1>4

\* The checks of a CloseMarket leave one key for a slot, the others given.
LEMMA CloseMarketOne ==
    ASSUME NEW k, NEW l, DOMAIN l = DOMAIN k, NEW s \in DOMAIN k,
           DOMAIN k = {"market", "creator", "escrow", "cyes", "cno", "lp_vault", "token"},
           phase # "Cancelled" \/ s \notin {"cyes", "cno", "lp_vault"},
           k.market = Here, phase \in {"Resolved", "Cancelled"},
           \A t \in DOMAIN k \ {s} : l[t] = k[t],
           FixedMatch(k), FixedMatch(l), TakesCloseMarket(k), TakesCloseMarket(l)
    PROVE  l[s] = k[s]
<1>1. CASE s \in {"token"}
  BY <1>1, FixedOne DEF Fixed
<1>2. CASE s \in {"cyes", "cno", "lp_vault"}
  <2>1. Activated(Here)
    BY <1>2, HereRead DEF Activated
  <2>2. RecordedMatch(k) /\ RecordedMatch(l) /\ k.market = l.market
    BY <1>2, <2>1 DEF TakesCloseMarket
  <2>3. QED
    BY <1>2, <2>2, RecordedOne DEF Recorded
<1>3. CASE s = "market"
  BY <1>3, Injective DEF TakesCloseMarket
<1>4. CASE s = "creator"
  BY <1>4 DEF TakesCloseMarket
<1>5. CASE s = "escrow"
  BY <1>5 DEF TakesCloseMarket
<1>6. QED
  BY <1>1, <1>2, <1>3, <1>4, <1>5

\* The checks of a Delegate leave one key for a slot, the others given.
LEMMA DelegateOne ==
    ASSUME NEW k, NEW l, DOMAIN l = DOMAIN k, NEW s \in DOMAIN k,
           DOMAIN k = {"market", "session", "payer", "system"},
           s \notin {"payer"},
           \A t \in DOMAIN k \ {s} : l[t] = k[t],
           FixedMatch(k), FixedMatch(l), TakesDelegate(k), TakesDelegate(l)
    PROVE  l[s] = k[s]
<1>1. CASE s \in {"system"}
  BY <1>1, FixedOne DEF Fixed
<1>2. CASE s = "market"
  BY <1>2, Injective DEF TakesDelegate
<1>3. CASE s = "session"
  BY <1>3 DEF TakesDelegate
<1>4. QED
  BY <1>1, <1>2, <1>3

\* The checks of a Commit leave one key for a slot, the others given.
LEMMA CommitOne ==
    ASSUME NEW k, NEW l, DOMAIN l = DOMAIN k, NEW s \in DOMAIN k,
           DOMAIN k = {"market", "session"},
           \A t \in DOMAIN k \ {s} : l[t] = k[t],
           FixedMatch(k), FixedMatch(l), TakesSession(k), TakesSession(l)
    PROVE  l[s] = k[s]
<1>1. CASE s = "market"
  BY <1>1, Injective DEF TakesSession
<1>2. CASE s = "session"
  BY <1>2 DEF TakesSession
<1>3. QED
  BY <1>1, <1>2

\* The checks of an Undelegate leave one key for a slot, the others given.
LEMMA UndelegateOne ==
    ASSUME NEW k, NEW l, DOMAIN l = DOMAIN k, NEW s \in DOMAIN k,
           DOMAIN k = {"market", "session"},
           \A t \in DOMAIN k \ {s} : l[t] = k[t],
           FixedMatch(k), FixedMatch(l), TakesSession(k), TakesSession(l)
    PROVE  l[s] = k[s]
<1>1. CASE s = "market"
  BY <1>1, Injective DEF TakesSession
<1>2. CASE s = "session"
  BY <1>2 DEF TakesSession
<1>3. QED
  BY <1>1, <1>2

(***************************************************************************)
(* The lists against the program                                           *)
(***************************************************************************)
\* Of the addresses that say they are one, every associated token account is an
\* owner's for a mint and every contribution is a member's in a market.
Shaped(x) ==
    /\ x[1] = "ata" => x = Ata(x[2], x[3])
    /\ x[1] = "contribution" => x = ContributionPda(x[2], x[3])

LEMMA AddressesShaped ==
    /\ \A u, c : Shaped(Ata(u, c))
    /\ \A m, u : Shaped(ContributionPda(m, u))
    /\ \A m : Shaped(EscrowPda(m)) /\ Shaped(CyesPda(m)) /\ Shaped(CnoPda(m))
              /\ Shaped(LpVaultPda(m)) /\ Shaped(EventAuthority(m))
    /\ \A i, m : Shaped(QuestionPda(i, m)) /\ Shaped(VaultPda(i, m))
                 /\ Shaped(TokenMintPda(i, m)) /\ Shaped(AmmPda(i, m))
    /\ \A a : Shaped(LpMintPda(a))
    /\ Shaped(ConfigPda) /\ Shaped(Subject) /\ Shaped(OtherSubject) /\ Shaped(Here)
    /\ Shaped(BaseMint) /\ Shaped(TokenProgram) /\ Shaped(SystemProgram)
    /\ Shaped(CvProgram) /\ Shaped(AmmProgram)
    /\ \A u \in Members : Shaped(u)
<1>1. \A u, c : Shaped(Ata(u, c))
  BY DEF Shaped, Ata
<1>2. \A m, u : Shaped(ContributionPda(m, u))
  BY DEF Shaped, ContributionPda
<1>3. ASSUME NEW x, x[1] \notin {"ata", "contribution"}
      PROVE  Shaped(x)
  BY <1>3 DEF Shaped
<1> USE <1>3
<1>4. \A m : Shaped(EscrowPda(m)) /\ Shaped(CyesPda(m)) /\ Shaped(CnoPda(m))
             /\ Shaped(LpVaultPda(m)) /\ Shaped(EventAuthority(m))
  BY DEF EscrowPda, CyesPda, CnoPda, LpVaultPda, EventAuthority
<1>5. \A i, m : Shaped(QuestionPda(i, m)) /\ Shaped(VaultPda(i, m))
                /\ Shaped(TokenMintPda(i, m)) /\ Shaped(AmmPda(i, m))
  BY DEF QuestionPda, VaultPda, TokenMintPda, AmmPda
<1>6. \A a : Shaped(LpMintPda(a))
  BY DEF LpMintPda
<1>7. Shaped(ConfigPda) /\ Shaped(Subject) /\ Shaped(OtherSubject) /\ Shaped(Here)
  BY DEF ConfigPda, Subject, OtherSubject, SubjectPda, Here, MarketPda
<1>8. /\ Shaped(BaseMint) /\ Shaped(TokenProgram) /\ Shaped(SystemProgram)
      /\ Shaped(CvProgram) /\ Shaped(AmmProgram)
  BY DEF BaseMint, TokenProgram, SystemProgram, CvProgram, AmmProgram
<1>9. \A u \in Members : Shaped(u)
  BY DEF Members, Wallet
<1>10. QED
  BY <1>1, <1>2, <1>4, <1>5, <1>6, <1>7, <1>8, <1>9

\* A wallet's token account of a mint is the one derived from the two.
LEMMA WalletToken ==
    ASSUME NEW who \in Members, NEW x, Shaped(x), IsToken(x), TokenOwner(x) = who
    PROVE  x = Ata(who, TokenMint(x))
<1>1. ~Present(who) /\ ~Activated(who)
  BY DEF Present, Activated, Status, Members, Wallet, Here, There, Settled, Called, MarketPda
<1>2. x[1] = "ata"
  BY <1>1 DEF IsToken, TokenOwner
<1>3. QED
  BY <1>2 DEF Shaped, TokenOwner, TokenMint

\* Where a stranger to an unsigned slot comes from.
LEMMA StrangersShaped ==
    ASSUME NEW ix, NEW a, NEW s \in DOMAIN a, ~a[s].signer,
           \A m : \A u \in Members : Shaped(Named(ix, Built(ix, m, u))[s].key),
           \A t \in DOMAIN a : Shaped(a[t].key)
    PROVE  \A x \in Strangers(ix, a, s) : Shaped(x)
  BY AddressesShaped DEF Strangers, FeeAccount

\* A list that would be taken is taken with nobody else in it.
Refuses(ix, who) ==
    LET a == Named(ix, Built(ix, Here, who))
    IN  \A s \in DOMAIN a \ Open(ix) : \A x \in Strangers(ix, a, s) :
            ~Takes(ix, [a EXCEPT ![s].key = x])

\* The list of an UpdateConfig is taken where it is due, and with nobody else in it.
LEMMA UpdateConfigStands ==
    ASSUME NEW who \in Members, destination \in Treasuries, Due("UpdateConfig", who)
    PROVE  Taken("UpdateConfig", who) /\ Refuses("UpdateConfig", who)
<1> DEFINE a == Named("UpdateConfig", Built("UpdateConfig", Here, who))
           k == [s \in DOMAIN a |-> a[s].key]
<1>1. DOMAIN a = {"config", "authority", "fee_destination"}
  BY UpdateConfigBuilt
<1>2. /\ a.config = W(ConfigPda) /\ a.authority = Signer(Authority)
      /\ a.fee_destination = Ro(FeeAccount(NextTreasury))
  BY UpdateConfigBuilt
<1> HIDE DEF a
<1>3. /\ k.config = ConfigPda /\ k.authority = Authority
      /\ k.fee_destination = FeeAccount(NextTreasury)
  BY <1>1, <1>2 DEF W, Ro, Payer, Signer
<1>4. Permitted("UpdateConfig", a, k)
  BY <1>1, <1>2 DEF Permitted, Writes, Signs, PoolWrites, VaultWrites, W, Ro, Payer, Signer
<1>5. DOMAIN k = DOMAIN a
  OBVIOUS
<1> HIDE DEF k
<1>6. FixedMatch(k)
  BY <1>1, <1>3, <1>5 DEF FixedMatch, Fixed, ConfigPda
<1>7. NextTreasury \in Treasuries
  BY NextIsOther
<1>8. IsToken(k.fee_destination) /\ TokenMint(k.fee_destination) = BaseMint
  BY <1>3, <1>7 DEF IsToken, TokenMint, FeeAccount, Ata, Due
<1>9. TakesUpdateConfig(k)
  BY <1>3, <1>7, <1>8, <1>7 DEF TakesUpdateConfig
<1>10. Taken("UpdateConfig", who)
  BY <1>4, <1>6, <1>9 DEF Taken, Takes, k, a
<1>11. \A t \in DOMAIN a : "key" \in DOMAIN a[t] /\ k[t] = a[t].key
  BY <1>1, <1>2 DEF W, Ro, Payer, Signer, k
<1>12. Refuses("UpdateConfig", who)
  <2>1. SUFFICES ASSUME NEW s \in DOMAIN a \ Open("UpdateConfig"),
                        NEW x \in Strangers("UpdateConfig", a, s),
                        Takes("UpdateConfig", [a EXCEPT ![s].key = x])
                 PROVE  FALSE
    BY DEF Refuses, a
  <2> DEFINE b == [a EXCEPT ![s].key = x]
             l == [t \in DOMAIN b |-> b[t].key]
  <2>2. DOMAIN l = DOMAIN k /\ l[s] = x /\ \A t \in DOMAIN k \ {s} : l[t] = k[t]
    BY <1>5, <1>11, Replaced
  <2>3. FixedMatch(l) /\ TakesUpdateConfig(l)
    BY <2>1 DEF Takes
  <2>4. x # k[s]
    BY <1>11 DEF Strangers
  <2> HIDE DEF b, l
  <2>5. QED
    BY <1>1, <1>5, <1>6, <1>9, <2>2, <2>3, <2>4, UpdateConfigOne
<1>13. QED
  BY <1>10, <1>12

\* The list of a CreateSubject is taken where it is due, and with nobody else in it.
LEMMA CreateSubjectStands ==
    ASSUME NEW who \in Members, destination \in Treasuries, Due("CreateSubject", who)
    PROVE  Taken("CreateSubject", who) /\ Refuses("CreateSubject", who)
<1> DEFINE a == Named("CreateSubject", Built("CreateSubject", Here, who))
           k == [s \in DOMAIN a |-> a[s].key]
<1>1. DOMAIN a = {"payer", "subject", "system"}
  BY CreateSubjectBuilt
<1>2. /\ a.payer = Payer(who) /\ a.subject = W(SubjectPda(2)) /\ a.system = Ro(SystemProgram)
  BY CreateSubjectBuilt
<1> HIDE DEF a
<1>3. /\ k.payer = who /\ k.subject = SubjectPda(2) /\ k.system = SystemProgram
  BY <1>1, <1>2 DEF W, Ro, Payer, Signer
<1>4. Permitted("CreateSubject", a, k)
  BY <1>1, <1>2 DEF Permitted, Writes, Signs, PoolWrites, VaultWrites, W, Ro, Payer, Signer
<1>5. DOMAIN k = DOMAIN a
  OBVIOUS
<1> HIDE DEF k
<1>6. FixedMatch(k)
  BY <1>1, <1>3, <1>5 DEF FixedMatch, Fixed, ConfigPda
<1>7. TakesCreateSubject(k)
  BY <1>3, HereRead DEF TakesCreateSubject, Due, InPhase
<1>8. Taken("CreateSubject", who)
  BY <1>4, <1>6, <1>7 DEF Taken, Takes, k, a
<1>9. \A t \in DOMAIN a : "key" \in DOMAIN a[t] /\ k[t] = a[t].key
  BY <1>1, <1>2 DEF W, Ro, Payer, Signer, k
<1>10. Refuses("CreateSubject", who)
  <2>1. SUFFICES ASSUME NEW s \in DOMAIN a \ Open("CreateSubject"),
                        NEW x \in Strangers("CreateSubject", a, s),
                        Takes("CreateSubject", [a EXCEPT ![s].key = x])
                 PROVE  FALSE
    BY DEF Refuses, a
  <2> DEFINE b == [a EXCEPT ![s].key = x]
             l == [t \in DOMAIN b |-> b[t].key]
  <2>2. DOMAIN l = DOMAIN k /\ l[s] = x /\ \A t \in DOMAIN k \ {s} : l[t] = k[t]
    BY <1>5, <1>9, Replaced
  <2>3. FixedMatch(l) /\ TakesCreateSubject(l)
    BY <2>1 DEF Takes
  <2>4. x # k[s]
    BY <1>9 DEF Strangers
  <2> HIDE DEF b, l
  <2>5. s # "payer"
    BY DEF Open
  <2>6. QED
    BY <1>1, <1>5, <1>6, <1>7, <2>2, <2>3, <2>4, <2>5, CreateSubjectOne
<1>11. QED
  BY <1>8, <1>10

\* The list of a RequestAi is taken where it is due, and with nobody else in it.
LEMMA RequestAiStands ==
    ASSUME NEW who \in Members, destination \in Treasuries, Due("RequestAi", who)
    PROVE  Taken("RequestAi", who) /\ Refuses("RequestAi", who)
<1> DEFINE a == Named("RequestAi", Built("RequestAi", Here, who))
           k == [s \in DOMAIN a |-> a[s].key]
<1>1. DOMAIN a = {"subject", "payer", "system", "gpt", "interaction", "context"}
  BY RequestAiBuilt
<1>2. /\ a.subject = Ro(Subject) /\ a.payer = Payer(who) /\ a.system = Ro(SystemProgram)
      /\ a.gpt = Ro(GptProgram) /\ a.interaction = W(InteractionPda(who, LlmContext))
      /\ a.context = Ro(LlmContext)
  BY RequestAiBuilt
<1> HIDE DEF a
<1>3. /\ k.subject = Subject /\ k.payer = who /\ k.system = SystemProgram /\ k.gpt = GptProgram
      /\ k.interaction = InteractionPda(who, LlmContext) /\ k.context = LlmContext
  BY <1>1, <1>2 DEF W, Ro, Payer, Signer
<1>4. Permitted("RequestAi", a, k)
  BY <1>1, <1>2 DEF Permitted, Writes, Signs, PoolWrites, VaultWrites, W, Ro, Payer, Signer
<1>5. DOMAIN k = DOMAIN a
  OBVIOUS
<1> HIDE DEF k
<1>6. FixedMatch(k)
  BY <1>1, <1>3, <1>5 DEF FixedMatch, Fixed, ConfigPda
<1>7. TakesRequestAi(k)
  BY <1>3, HereRead DEF TakesRequestAi, Due, OpenSubject, GptProgram, LlmContext
<1>8. Taken("RequestAi", who)
  BY <1>4, <1>6, <1>7 DEF Taken, Takes, k, a
<1>9. \A t \in DOMAIN a : "key" \in DOMAIN a[t] /\ k[t] = a[t].key
  BY <1>1, <1>2 DEF W, Ro, Payer, Signer, k
<1>10. Refuses("RequestAi", who)
  <2>1. SUFFICES ASSUME NEW s \in DOMAIN a \ Open("RequestAi"),
                        NEW x \in Strangers("RequestAi", a, s),
                        Takes("RequestAi", [a EXCEPT ![s].key = x])
                 PROVE  FALSE
    BY DEF Refuses, a
  <2> DEFINE b == [a EXCEPT ![s].key = x]
             l == [t \in DOMAIN b |-> b[t].key]
  <2>2. DOMAIN l = DOMAIN k /\ l[s] = x /\ \A t \in DOMAIN k \ {s} : l[t] = k[t]
    BY <1>5, <1>9, Replaced
  <2>3. FixedMatch(l) /\ TakesRequestAi(l)
    BY <2>1 DEF Takes
  <2>4. x # k[s]
    BY <1>9 DEF Strangers
  <2> HIDE DEF b, l
  <2>5. QED
    BY <1>1, <1>5, <1>6, <1>7, <2>2, <2>3, <2>4, RequestAiOne
<1>11. QED
  BY <1>8, <1>10

\* The list of a CreateMarket is taken where it is due, and with nobody else in it.
LEMMA CreateMarketStands ==
    ASSUME NEW who \in Members, destination \in Treasuries, Due("CreateMarket", who)
    PROVE  Taken("CreateMarket", who) /\ Refuses("CreateMarket", who)
<1> DEFINE a == Named("CreateMarket", Built("CreateMarket", Here, who))
           k == [s \in DOMAIN a |-> a[s].key]
<1>1. DOMAIN a = {"config", "oracle", "market", "escrow", "base_mint", "member", "source",
                  "contribution", "token", "system"}
  BY CreateMarketBuilt
<1>2. /\ a.config = W(ConfigPda) /\ a.oracle = Ro(Here[2]) /\ a.market = W(Here)
      /\ a.escrow = W(EscrowPda(Here)) /\ a.base_mint = Ro(BaseMint)
      /\ a.member = Payer(Wallet(Founder)) /\ a.source = W(Ata(Wallet(Founder), BaseMint))
      /\ a.contribution = W(ContributionPda(Here, Wallet(Founder))) /\ a.token = Ro(TokenProgram)
      /\ a.system = Ro(SystemProgram)
  BY CreateMarketBuilt
<1> HIDE DEF a
<1>3. /\ k.config = ConfigPda /\ k.oracle = Here[2] /\ k.market = Here
      /\ k.escrow = EscrowPda(Here) /\ k.base_mint = BaseMint /\ k.member = Wallet(Founder)
      /\ k.source = Ata(Wallet(Founder), BaseMint)
      /\ k.contribution = ContributionPda(Here, Wallet(Founder)) /\ k.token = TokenProgram
      /\ k.system = SystemProgram
  BY <1>1, <1>2 DEF W, Ro, Payer, Signer
<1>4. Permitted("CreateMarket", a, k)
  BY <1>1, <1>2 DEF Permitted, Writes, Signs, PoolWrites, VaultWrites, W, Ro, Payer, Signer
<1>5. DOMAIN k = DOMAIN a
  OBVIOUS
<1> HIDE DEF k
<1>6. FixedMatch(k)
  BY <1>1, <1>3, <1>5 DEF FixedMatch, Fixed, ConfigPda
<1>7. OpenSubject(k.oracle)
  BY <1>3, HereRead DEF OpenSubject, Due
<1>8. IsToken(k.source) /\ TokenMint(k.source) = BaseMint /\ TokenOwner(k.source) = k.member
  BY <1>3 DEF IsToken, TokenOwner, TokenMint, Ata, Members
<1>9. TakesCreateMarket(k)
  BY <1>3, <1>7, <1>8, HereRead DEF TakesCreateMarket, Due, Present
<1>10. Taken("CreateMarket", who)
  BY <1>4, <1>6, <1>9 DEF Taken, Takes, k, a
<1>11. \A t \in DOMAIN a : "key" \in DOMAIN a[t] /\ k[t] = a[t].key
  BY <1>1, <1>2 DEF W, Ro, Payer, Signer, k
<1>12. /\ \A t \in DOMAIN a : Shaped(a[t].key)
      /\ \A s \in {"source"} : ~a[s].signer
  BY <1>1, <1>2, AddressesShaped, HereRead DEF W, Ro, Payer, Signer, Members
<1>13. ASSUME NEW m, NEW u \in Members, NEW s \in {"source"}
      PROVE  Shaped(Named("CreateMarket", Built("CreateMarket", m, u))[s].key)
  <2> DEFINE c == Named("CreateMarket", Built("CreateMarket", m, u))
  <2>1. c.source = W(Ata(Wallet(Founder), BaseMint))
    BY CreateMarketBuilt
  <2> HIDE DEF c
  <2>2. Shaped(c[s].key)
    BY <2>1, AddressesShaped DEF W
  <2>3. QED
    BY <2>2 DEF c
<1>14. Refuses("CreateMarket", who)
  <2>1. SUFFICES ASSUME NEW s \in DOMAIN a \ Open("CreateMarket"),
                        NEW x \in Strangers("CreateMarket", a, s),
                        Takes("CreateMarket", [a EXCEPT ![s].key = x])
                 PROVE  FALSE
    BY DEF Refuses, a
  <2> DEFINE b == [a EXCEPT ![s].key = x]
             l == [t \in DOMAIN b |-> b[t].key]
  <2>2. DOMAIN l = DOMAIN k /\ l[s] = x /\ \A t \in DOMAIN k \ {s} : l[t] = k[t]
    BY <1>5, <1>11, Replaced
  <2>3. FixedMatch(l) /\ TakesCreateMarket(l)
    BY <2>1 DEF Takes
  <2>4. x # k[s]
    BY <1>11 DEF Strangers
  <2> HIDE DEF b, l
  <2>5. CASE s = "source"
    <3>1. Shaped(x)
      BY <1>12, <1>13, <2>5, StrangersShaped
    <3>2. IsToken(x) /\ TokenMint(x) = BaseMint /\ TokenOwner(x) = Wallet(Founder)
      BY <1>1, <1>3, <1>5, <2>2, <2>3, <2>5 DEF TakesCreateMarket
    <3>3. QED
      BY <1>3, <2>4, <2>5, <3>1, <3>2, WalletToken DEF Members
  <2>6. QED
    BY <1>1, <1>5, <1>6, <1>9, <2>2, <2>3, <2>4, <2>5, CreateMarketOne
<1>15. QED
  BY <1>10, <1>14

\* The list of a Contribute is taken where it is due, and with nobody else in it.
LEMMA ContributeStands ==
    ASSUME NEW who \in Members, destination \in Treasuries, Due("Contribute", who)
    PROVE  Taken("Contribute", who) /\ Refuses("Contribute", who)
<1> DEFINE a == Named("Contribute", Built("Contribute", Here, who))
           k == [s \in DOMAIN a |-> a[s].key]
<1>1. DOMAIN a = {"market", "escrow", "member", "source", "contribution", "token", "callee"}
  BY ContributeBuilt
<1>2. /\ a.market = W(Here) /\ a.escrow = W(EscrowPda(Here)) /\ a.member = Payer(who)
      /\ a.source = W(Ata(who, BaseMint)) /\ a.contribution = W(ContributionPda(Here, who))
      /\ a.token = Ro(TokenProgram) /\ a.callee = Ro(SystemProgram)
  BY ContributeBuilt
<1> HIDE DEF a
<1>3. /\ k.market = Here /\ k.escrow = EscrowPda(Here) /\ k.member = who
      /\ k.source = Ata(who, BaseMint) /\ k.contribution = ContributionPda(Here, who)
      /\ k.token = TokenProgram /\ k.callee = SystemProgram
  BY <1>1, <1>2 DEF W, Ro, Payer, Signer
<1>4. Permitted("Contribute", a, k)
  BY <1>1, <1>2 DEF Permitted, Writes, Signs, PoolWrites, VaultWrites, W, Ro, Payer, Signer
<1>5. DOMAIN k = DOMAIN a
  OBVIOUS
<1> HIDE DEF k
<1>6. FixedMatch(k)
  BY <1>1, <1>3, <1>5 DEF FixedMatch, Fixed, ConfigPda
<1>7. k.market = Here /\ InPhase(k.market, {"Funding"})
  <2>1. k.market = Here
    BY <1>3
  <2>2. QED
    BY <2>1, HereRead DEF Due, InPhase, Present
<1>8. CanTransfer(k.source, k.escrow, k.member)
  <2>1. IsToken(k.source) /\ TokenMint(k.source) = BaseMint /\ TokenOwner(k.source) = who
    BY <1>3, <1>7 DEF IsToken, TokenOwner, TokenMint, Ata
  <2>2. IsToken(k.escrow) /\ TokenMint(k.escrow) = BaseMint
    BY <1>3, <1>7 DEF IsToken, TokenMint, EscrowPda, InPhase, IsMarket
  <2>3. QED
    BY <1>3, <2>1, <2>2 DEF CanTransfer
<1>9. TakesContribute(k)
  BY <1>3, <1>7, <1>8 DEF TakesContribute, TakesDeposit
<1>10. Taken("Contribute", who)
  BY <1>4, <1>6, <1>9 DEF Taken, Takes, k, a
<1>11. \A t \in DOMAIN a : "key" \in DOMAIN a[t] /\ k[t] = a[t].key
  BY <1>1, <1>2 DEF W, Ro, Payer, Signer, k
<1>12. /\ \A t \in DOMAIN a : Shaped(a[t].key)
      /\ \A s \in {"source"} : ~a[s].signer
  BY <1>1, <1>2, AddressesShaped, HereRead DEF W, Ro, Payer, Signer
<1>13. ASSUME NEW m, NEW u \in Members, NEW s \in {"source"}
      PROVE  Shaped(Named("Contribute", Built("Contribute", m, u))[s].key)
  <2> DEFINE c == Named("Contribute", Built("Contribute", m, u))
  <2>1. c.source = W(Ata(u, BaseMint))
    BY ContributeBuilt
  <2> HIDE DEF c
  <2>2. Shaped(c[s].key)
    BY <2>1, AddressesShaped DEF W
  <2>3. QED
    BY <2>2 DEF c
<1>14. Refuses("Contribute", who)
  <2>1. SUFFICES ASSUME NEW s \in DOMAIN a \ Open("Contribute"),
                        NEW x \in Strangers("Contribute", a, s),
                        Takes("Contribute", [a EXCEPT ![s].key = x])
                 PROVE  FALSE
    BY DEF Refuses, a
  <2> DEFINE b == [a EXCEPT ![s].key = x]
             l == [t \in DOMAIN b |-> b[t].key]
  <2>2. DOMAIN l = DOMAIN k /\ l[s] = x /\ \A t \in DOMAIN k \ {s} : l[t] = k[t]
    BY <1>5, <1>11, Replaced
  <2>3. FixedMatch(l) /\ TakesContribute(l)
    BY <2>1 DEF Takes
  <2>4. x # k[s]
    BY <1>11 DEF Strangers
  <2> HIDE DEF b, l
  <2>5. CASE s = "source"
    <3>1. Shaped(x)
      BY <1>12, <1>13, <2>5, StrangersShaped
    <3>2. l.member = who /\ l.escrow = k.escrow /\ l.source = x
      BY <1>1, <1>3, <1>5, <2>2, <2>5
    <3>3. TokenMint(k.escrow) = BaseMint
      BY <1>3 DEF TokenMint, EscrowPda
    <3>4. CanTransfer(x, k.escrow, who)
      BY <2>3, <3>2 DEF TakesContribute, TakesDeposit
    <3>5. IsToken(x) /\ TokenMint(x) = BaseMint /\ TokenOwner(x) = who
      BY <3>3, <3>4 DEF CanTransfer
    <3>6. QED
      BY <1>3, <2>4, <2>5, <3>1, <3>5, WalletToken
  <2>6. s # "callee"
    BY DEF Open
  <2>7. QED
    BY <1>1, <1>5, <1>6, <1>9, <2>2, <2>3, <2>4, <2>5, <2>6, ContributeOne
<1>15. QED
  BY <1>10, <1>14

\* The list of a Cancel is taken where it is due, and with nobody else in it.
LEMMA CancelStands ==
    ASSUME NEW who \in Members, destination \in Treasuries, Due("Cancel", who)
    PROVE  Taken("Cancel", who) /\ Refuses("Cancel", who)
<1> DEFINE a == Named("Cancel", Built("Cancel", Here, who))
           k == [s \in DOMAIN a |-> a[s].key]
<1>1. DOMAIN a = {"market", "oracle"}
  BY CancelBuilt
<1>2. /\ a.market = W(Here) /\ a.oracle = Ro(Here[2])
  BY CancelBuilt
<1> HIDE DEF a
<1>3. /\ k.market = Here /\ k.oracle = Here[2]
  BY <1>1, <1>2 DEF W, Ro, Payer, Signer
<1>4. Permitted("Cancel", a, k)
  BY <1>1, <1>2 DEF Permitted, Writes, Signs, PoolWrites, VaultWrites, W, Ro, Payer, Signer
<1>5. DOMAIN k = DOMAIN a
  OBVIOUS
<1> HIDE DEF k
<1>6. FixedMatch(k)
  BY <1>1, <1>3, <1>5 DEF FixedMatch, Fixed, ConfigPda
<1>7. k.market = Here /\ InPhase(k.market, {"Funding"})
  <2>1. k.market = Here
    BY <1>3
  <2>2. QED
    BY <2>1, HereRead DEF Due, InPhase, Present
<1>8. TakesCancel(k)
  BY <1>3, <1>7, HereRead DEF TakesCancel, Due
<1>9. Taken("Cancel", who)
  BY <1>4, <1>6, <1>8 DEF Taken, Takes, k, a
<1>10. \A t \in DOMAIN a : "key" \in DOMAIN a[t] /\ k[t] = a[t].key
  BY <1>1, <1>2 DEF W, Ro, Payer, Signer, k
<1>11. Refuses("Cancel", who)
  <2>1. SUFFICES ASSUME NEW s \in DOMAIN a \ Open("Cancel"),
                        NEW x \in Strangers("Cancel", a, s),
                        Takes("Cancel", [a EXCEPT ![s].key = x])
                 PROVE  FALSE
    BY DEF Refuses, a
  <2> DEFINE b == [a EXCEPT ![s].key = x]
             l == [t \in DOMAIN b |-> b[t].key]
  <2>2. DOMAIN l = DOMAIN k /\ l[s] = x /\ \A t \in DOMAIN k \ {s} : l[t] = k[t]
    BY <1>5, <1>10, Replaced
  <2>3. FixedMatch(l) /\ TakesCancel(l)
    BY <2>1 DEF Takes
  <2>4. x # k[s]
    BY <1>10 DEF Strangers
  <2> HIDE DEF b, l
  <2>5. QED
    BY <1>1, <1>5, <1>6, <1>8, <2>2, <2>3, <2>4, CancelOne
<1>12. QED
  BY <1>9, <1>11

\* The list of a Refund is taken where it is due, and with nobody else in it.
LEMMA RefundStands ==
    ASSUME NEW who \in Members, destination \in Treasuries, Due("Refund", who)
    PROVE  Taken("Refund", who) /\ Refuses("Refund", who)
<1> DEFINE a == Named("Refund", Built("Refund", Here, who))
           k == [s \in DOMAIN a |-> a[s].key]
<1>1. DOMAIN a = {"market", "escrow", "contribution", "paid", "member", "token"}
  BY RefundBuilt
<1>2. /\ a.market = W(Here) /\ a.escrow = W(EscrowPda(Here))
      /\ a.contribution = W(ContributionPda(Here, who)) /\ a.paid = W(Ata(who, BaseMint))
      /\ a.member = W(who) /\ a.token = Ro(TokenProgram)
  BY RefundBuilt
<1> HIDE DEF a
<1>3. /\ k.market = Here /\ k.escrow = EscrowPda(Here)
      /\ k.contribution = ContributionPda(Here, who) /\ k.paid = Ata(who, BaseMint)
      /\ k.member = who /\ k.token = TokenProgram
  BY <1>1, <1>2 DEF W, Ro, Payer, Signer
<1>4. Permitted("Refund", a, k)
  BY <1>1, <1>2 DEF Permitted, Writes, Signs, PoolWrites, VaultWrites, W, Ro, Payer, Signer
<1>5. DOMAIN k = DOMAIN a
  OBVIOUS
<1> HIDE DEF k
<1>6. FixedMatch(k)
  BY <1>1, <1>3, <1>5 DEF FixedMatch, Fixed, ConfigPda
<1>7. k.market = Here /\ InPhase(k.market, {"Cancelled"})
  <2>1. k.market = Here
    BY <1>3
  <2>2. QED
    BY <2>1, HereRead DEF Due, InPhase, Present
<1>8. IsContribution(k.contribution) /\ k.contribution[2] = Here /\ k.contribution[3] = who
  BY <1>3, <1>7, HereRead DEF IsContribution, ContributionPda, InPhase, IsMarket, Due
<1>9. IsToken(k.paid) /\ TokenMint(k.paid) = BaseMint /\ TokenOwner(k.paid) = who
  BY <1>3 DEF IsToken, TokenOwner, TokenMint, Ata
<1>10. CanTransfer(k.escrow, k.paid, k.market)
  <2>1. IsToken(k.escrow) /\ TokenMint(k.escrow) = BaseMint /\ TokenOwner(k.escrow) = Here
    BY <1>3, <1>7 DEF IsToken, TokenMint, TokenOwner, EscrowPda, InPhase, IsMarket
  <2>2. QED
    BY <1>3, <1>9, <2>1 DEF CanTransfer
<1>11. TakesRefund(k)
  BY <1>3, <1>7, <1>8, <1>9, <1>10, HereRead DEF TakesRefund
<1>12. Taken("Refund", who)
  BY <1>4, <1>6, <1>11 DEF Taken, Takes, k, a
<1>13. \A t \in DOMAIN a : "key" \in DOMAIN a[t] /\ k[t] = a[t].key
  BY <1>1, <1>2 DEF W, Ro, Payer, Signer, k
<1>14. /\ \A t \in DOMAIN a : Shaped(a[t].key)
      /\ \A s \in {"paid", "contribution"} : ~a[s].signer
  BY <1>1, <1>2, AddressesShaped, HereRead DEF W, Ro, Payer, Signer
<1>15. ASSUME NEW m, NEW u \in Members, NEW s \in {"paid", "contribution"}
      PROVE  Shaped(Named("Refund", Built("Refund", m, u))[s].key)
  <2> DEFINE c == Named("Refund", Built("Refund", m, u))
  <2>1. c.contribution = W(ContributionPda(m, u))
    BY RefundBuilt
  <2>2. c.paid = W(Ata(u, BaseMint))
    BY RefundBuilt
  <2> HIDE DEF c
  <2>3. Shaped(c[s].key)
    BY <2>1, <2>2, AddressesShaped DEF W
  <2>4. QED
    BY <2>3 DEF c
<1>16. Refuses("Refund", who)
  <2>1. SUFFICES ASSUME NEW s \in DOMAIN a \ Open("Refund"),
                        NEW x \in Strangers("Refund", a, s),
                        Takes("Refund", [a EXCEPT ![s].key = x])
                 PROVE  FALSE
    BY DEF Refuses, a
  <2> DEFINE b == [a EXCEPT ![s].key = x]
             l == [t \in DOMAIN b |-> b[t].key]
  <2>2. DOMAIN l = DOMAIN k /\ l[s] = x /\ \A t \in DOMAIN k \ {s} : l[t] = k[t]
    BY <1>5, <1>13, Replaced
  <2>3. FixedMatch(l) /\ TakesRefund(l)
    BY <2>1 DEF Takes
  <2>4. x # k[s]
    BY <1>13 DEF Strangers
  <2> HIDE DEF b, l
  <2>5. CASE s = "paid"
    <3>1. Shaped(x)
      BY <1>14, <1>15, <2>5, StrangersShaped
    <3>2. l.contribution = k.contribution /\ l.market = Here /\ l.paid = x /\ l.escrow = k.escrow
      BY <1>1, <1>3, <1>5, <2>2, <2>5
    <3>3. IsToken(x) /\ TokenOwner(x) = who
      BY <1>3, <2>3, <3>2 DEF TakesRefund, ContributionPda
    <3>4. TokenMint(x) = BaseMint
      <4>1. TokenMint(k.escrow) = BaseMint
        BY <1>3 DEF TokenMint, EscrowPda
      <4>2. QED
        BY <2>3, <3>2, <4>1 DEF TakesRefund, CanTransfer
    <3>5. QED
      BY <1>3, <2>4, <2>5, <3>1, <3>3, <3>4, WalletToken
  <2>6. CASE s = "contribution"
    <3>1. Shaped(x)
      BY <1>14, <1>15, <2>6, StrangersShaped
    <3>2. l.member = who /\ l.market = Here /\ l.contribution = x
      BY <1>1, <1>3, <1>5, <2>2, <2>6
    <3>3. x[1] = "contribution" /\ x[2] = Here /\ x[3] = who
      BY <2>3, <3>2 DEF TakesRefund, IsContribution
    <3>4. QED
      BY <1>3, <2>4, <2>6, <3>1, <3>3 DEF Shaped
  <2>7. QED
    BY <1>1, <1>5, <1>6, <1>11, <2>2, <2>3, <2>4, <2>5, <2>6, RefundOne
<1>17. QED
  BY <1>12, <1>16

\* The list of an Activate is taken where it is due, and with nobody else in it.
LEMMA ActivateStands ==
    ASSUME NEW who \in Members, destination \in Treasuries, Due("Activate", who)
    PROVE  Taken("Activate", who) /\ Refuses("Activate", who)
<1> DEFINE a == Named("Activate", Built("Activate", Here, who))
           k == [s \in DOMAIN a |-> a[s].key]
           r == MarketRefs(Here)
<1>1. DOMAIN a = {"market", "oracle", "payer", "question", "vault", "underlying", "escrow",
                  "yes", "no", "cyes", "cno", "amm", "lp_mint", "lp_vault", "amm_base",
                  "amm_quote", "cv_events", "cv", "amm_events", "ammp", "token", "system"}
  BY ActivateBuilt
<1>2. /\ a.market = W(r.market) /\ a.oracle = Ro(r.oracle) /\ a.payer = Payer(who)
      /\ a.question = Ro(r.question) /\ a.vault = W(r.vault) /\ a.underlying = W(r.underlying)
      /\ a.escrow = W(EscrowPda(r.market)) /\ a.yes = W(r.yes) /\ a.no = W(r.no)
      /\ a.cyes = W(r.cyes) /\ a.cno = W(r.cno) /\ a.amm = W(r.amm) /\ a.lp_mint = W(r.lp_mint)
      /\ a.lp_vault = W(r.lp_vault) /\ a.amm_base = W(r.amm_base) /\ a.amm_quote = W(r.amm_quote)
      /\ a.cv_events = Ro(r.cv_events) /\ a.cv = Ro(CvProgram) /\ a.amm_events = Ro(r.amm_events)
      /\ a.ammp = Ro(AmmProgram) /\ a.token = Ro(TokenProgram) /\ a.system = Ro(SystemProgram)
  BY ActivateBuilt
<1> HIDE DEF a
<1>3. /\ k.market = r.market /\ k.oracle = r.oracle /\ k.payer = who /\ k.question = r.question
      /\ k.vault = r.vault /\ k.underlying = r.underlying /\ k.escrow = EscrowPda(r.market)
      /\ k.yes = r.yes /\ k.no = r.no /\ k.cyes = r.cyes /\ k.cno = r.cno /\ k.amm = r.amm
      /\ k.lp_mint = r.lp_mint /\ k.lp_vault = r.lp_vault /\ k.amm_base = r.amm_base
      /\ k.amm_quote = r.amm_quote /\ k.cv_events = r.cv_events /\ k.cv = CvProgram
      /\ k.amm_events = r.amm_events /\ k.ammp = AmmProgram /\ k.token = TokenProgram
      /\ k.system = SystemProgram
  BY <1>1, <1>2 DEF W, Ro, Payer, Signer
<1>4. Permitted("Activate", a, k)
  BY <1>1, <1>2 DEF Permitted, Writes, Signs, PoolWrites, VaultWrites, W, Ro, Payer, Signer
<1>5. DOMAIN k = DOMAIN a
  OBVIOUS
<1> HIDE DEF k
<1> HIDE DEF r
<1>6. FixedMatch(k)
  <2>1. r.cv_events = EventAuthority(CvProgram) /\ r.amm_events = EventAuthority(AmmProgram)
    BY RefsAre DEF r
  <2>2. QED
    BY <1>1, <1>3, <1>5, <2>1 DEF FixedMatch, Fixed, ConfigPda
<1>7. k.market = Here /\ InPhase(k.market, {"Funding"})
  <2>1. k.market = Here
    BY <1>3, RefsAre DEF r
  <2>2. QED
    BY <2>1, HereRead DEF Due, InPhase, Present
<1>8. k.oracle = k.market[2] /\ OpenSubject(k.oracle)
  BY <1>3, HereRead, RefsAre DEF OpenSubject, Due, r
<1>9. IsQuestion(k.question) /\ k.question = QuestionPda(k.oracle, k.market)
  <2>1. k.question = QuestionPda(Subject, Here) /\ k.market = Here /\ k.oracle = Subject
    BY <1>3, HereRead, RefsAre DEF r
  <2>2. QED
    BY <2>1, HereRead DEF IsQuestion, QuestionPda, Due
<1>10. IsVault(k.vault) /\ k.vault = VaultPda(k.question, BaseMint)
  <2>1. k.vault = VaultPda(k.question, BaseMint)
    BY <1>3, RefsAre DEF r
  <2>2. QED
    BY <2>1, <1>9 DEF IsVault, VaultPda
<1>11. k.yes = TokenMintPda(k.vault, 0) /\ k.no = TokenMintPda(k.vault, 1)
  BY <1>3, RefsAre DEF r
<1>12. IsAmm(k.amm) /\ k.amm = AmmPda(k.yes, k.no)
  <2>1. k.amm = AmmPda(k.yes, k.no) /\ k.yes = TokenMintPda(k.vault, 0)
    BY <1>3, RefsAre DEF r
  <2>2. QED
    BY <2>1, <1>10 DEF IsAmm, AmmPda, TokenMintPda
<1>13. TakesActivate(k)
  BY <1>3, <1>7, <1>8, <1>9, <1>10, <1>11, <1>12, RefsAre DEF TakesActivate, r
<1>14. Taken("Activate", who)
  BY <1>4, <1>6, <1>13 DEF Taken, Takes, k, a
<1>15. \A t \in DOMAIN a : "key" \in DOMAIN a[t] /\ k[t] = a[t].key
  BY <1>1, <1>2 DEF W, Ro, Payer, Signer, k
<1>16. Refuses("Activate", who)
  <2>1. SUFFICES ASSUME NEW s \in DOMAIN a \ Open("Activate"),
                        NEW x \in Strangers("Activate", a, s),
                        Takes("Activate", [a EXCEPT ![s].key = x])
                 PROVE  FALSE
    BY DEF Refuses, a
  <2> DEFINE b == [a EXCEPT ![s].key = x]
             l == [t \in DOMAIN b |-> b[t].key]
  <2>2. DOMAIN l = DOMAIN k /\ l[s] = x /\ \A t \in DOMAIN k \ {s} : l[t] = k[t]
    BY <1>5, <1>15, Replaced
  <2>3. FixedMatch(l) /\ TakesActivate(l)
    BY <2>1 DEF Takes
  <2>4. x # k[s]
    BY <1>15 DEF Strangers
  <2> HIDE DEF b, l
  <2>5. s # "payer"
    BY DEF Open
  <2>6. QED
    BY <1>1, <1>5, <1>6, <1>13, <2>2, <2>3, <2>4, <2>5, ActivateOne
<1>17. QED
  BY <1>14, <1>16

\* The list of an AddLiquidity is taken where it is due, and with nobody else in it.
LEMMA AddLiquidityStands ==
    ASSUME NEW who \in Members, destination \in Treasuries, Due("AddLiquidity", who)
    PROVE  Taken("AddLiquidity", who) /\ Refuses("AddLiquidity", who)
<1> DEFINE a == Named("AddLiquidity", Built("AddLiquidity", Here, who))
           k == [s \in DOMAIN a |-> a[s].key]
           r == MarketRefs(Here)
<1>1. DOMAIN a = {"market", "oracle", "member", "source", "escrow", "question", "vault",
                  "underlying", "yes", "no", "cyes", "cno", "member_cyes", "member_cno", "amm",
                  "lp_mint", "lp_vault", "amm_base", "amm_quote", "contribution", "cv_events",
                  "cv", "amm_events", "ammp", "token", "system"}
  BY AddLiquidityBuilt
<1>2. /\ a.market = W(r.market) /\ a.oracle = Ro(r.oracle) /\ a.member = Payer(who)
      /\ a.source = W(Ata(who, BaseMint)) /\ a.escrow = W(EscrowPda(r.market))
      /\ a.question = Ro(r.question) /\ a.vault = W(r.vault) /\ a.underlying = W(r.underlying)
      /\ a.yes = W(r.yes) /\ a.no = W(r.no) /\ a.cyes = W(CyesPda(r.market))
      /\ a.cno = W(CnoPda(r.market)) /\ a.member_cyes = W(Ata(who, r.yes))
      /\ a.member_cno = W(Ata(who, r.no)) /\ a.amm = W(r.amm) /\ a.lp_mint = W(r.lp_mint)
      /\ a.lp_vault = W(LpVaultPda(r.market)) /\ a.amm_base = W(r.amm_base)
      /\ a.amm_quote = W(r.amm_quote) /\ a.contribution = W(ContributionPda(r.market, who))
      /\ a.cv_events = Ro(r.cv_events) /\ a.cv = Ro(CvProgram) /\ a.amm_events = Ro(r.amm_events)
      /\ a.ammp = Ro(AmmProgram) /\ a.token = Ro(TokenProgram) /\ a.system = Ro(SystemProgram)
  BY AddLiquidityBuilt
<1> HIDE DEF a
<1>3. /\ k.market = r.market /\ k.oracle = r.oracle /\ k.member = who
      /\ k.source = Ata(who, BaseMint) /\ k.escrow = EscrowPda(r.market)
      /\ k.question = r.question /\ k.vault = r.vault /\ k.underlying = r.underlying
      /\ k.yes = r.yes /\ k.no = r.no /\ k.cyes = CyesPda(r.market) /\ k.cno = CnoPda(r.market)
      /\ k.member_cyes = Ata(who, r.yes) /\ k.member_cno = Ata(who, r.no) /\ k.amm = r.amm
      /\ k.lp_mint = r.lp_mint /\ k.lp_vault = LpVaultPda(r.market) /\ k.amm_base = r.amm_base
      /\ k.amm_quote = r.amm_quote /\ k.contribution = ContributionPda(r.market, who)
      /\ k.cv_events = r.cv_events /\ k.cv = CvProgram /\ k.amm_events = r.amm_events
      /\ k.ammp = AmmProgram /\ k.token = TokenProgram /\ k.system = SystemProgram
  BY <1>1, <1>2 DEF W, Ro, Payer, Signer
<1>4. Permitted("AddLiquidity", a, k)
  BY <1>1, <1>2 DEF Permitted, Writes, Signs, PoolWrites, VaultWrites, W, Ro, Payer, Signer
<1>5. DOMAIN k = DOMAIN a
  OBVIOUS
<1> HIDE DEF k
<1> HIDE DEF r
<1>6. FixedMatch(k)
  <2>1. r.cv_events = EventAuthority(CvProgram) /\ r.amm_events = EventAuthority(AmmProgram)
    BY RefsAre DEF r
  <2>2. QED
    BY <1>1, <1>3, <1>5, <2>1 DEF FixedMatch, Fixed, ConfigPda
<1>7. k.market = Here /\ InPhase(k.market, {"Active"})
  <2>1. k.market = Here
    BY <1>3, RefsAre DEF r
  <2>2. QED
    BY <2>1, HereRead DEF Due, InPhase, Present
<1>8. k.oracle = k.market[2] /\ OpenSubject(k.oracle)
  BY <1>3, HereRead, RefsAre DEF OpenSubject, Due, r
<1>9. RecordedMatch(k)
  BY <1>1, <1>3, <1>5, RefsAre DEF RecordedMatch, Recorded, r
<1>10. CanTransfer(k.source, k.escrow, k.member)
  <2>1. IsToken(k.source) /\ TokenMint(k.source) = BaseMint /\ TokenOwner(k.source) = who
    BY <1>3, <1>7 DEF IsToken, TokenOwner, TokenMint, Ata
  <2>2. IsToken(k.escrow) /\ TokenMint(k.escrow) = BaseMint
    BY <1>3, <1>7, RefsAre DEF IsToken, TokenMint, EscrowPda, InPhase, IsMarket
  <2>3. QED
    BY <1>3, <2>1, <2>2 DEF CanTransfer
<1>11. TakesAddLiquidity(k)
  BY <1>3, <1>7, <1>8, <1>9, <1>10 DEF TakesAddLiquidity, TakesDeposit
<1>12. Taken("AddLiquidity", who)
  BY <1>4, <1>6, <1>11 DEF Taken, Takes, k, a
<1>13. \A t \in DOMAIN a : "key" \in DOMAIN a[t] /\ k[t] = a[t].key
  BY <1>1, <1>2 DEF W, Ro, Payer, Signer, k
<1>14. /\ \A t \in DOMAIN a : Shaped(a[t].key)
      /\ \A s \in {"source"} : ~a[s].signer
  BY <1>1, <1>2, AddressesShaped, RefsAre, HereRead, SMTT(60) DEF W, Ro, Payer, Signer, r
<1>15. ASSUME NEW m, NEW u \in Members, NEW s \in {"source"}
      PROVE  Shaped(Named("AddLiquidity", Built("AddLiquidity", m, u))[s].key)
  <2> DEFINE c == Named("AddLiquidity", Built("AddLiquidity", m, u))
  <2>1. c.source = W(Ata(u, BaseMint))
    BY AddLiquidityBuilt
  <2> HIDE DEF c
  <2>2. Shaped(c[s].key)
    BY <2>1, AddressesShaped DEF W
  <2>3. QED
    BY <2>2 DEF c
<1>16. Refuses("AddLiquidity", who)
  <2>1. SUFFICES ASSUME NEW s \in DOMAIN a \ Open("AddLiquidity"),
                        NEW x \in Strangers("AddLiquidity", a, s),
                        Takes("AddLiquidity", [a EXCEPT ![s].key = x])
                 PROVE  FALSE
    BY DEF Refuses, a
  <2> DEFINE b == [a EXCEPT ![s].key = x]
             l == [t \in DOMAIN b |-> b[t].key]
  <2>2. DOMAIN l = DOMAIN k /\ l[s] = x /\ \A t \in DOMAIN k \ {s} : l[t] = k[t]
    BY <1>5, <1>13, Replaced
  <2>3. FixedMatch(l) /\ TakesAddLiquidity(l)
    BY <2>1 DEF Takes
  <2>4. x # k[s]
    BY <1>13 DEF Strangers
  <2> HIDE DEF b, l
  <2>5. CASE s = "source"
    <3>1. Shaped(x)
      BY <1>14, <1>15, <2>5, StrangersShaped
    <3>2. l.member = who /\ l.escrow = k.escrow /\ l.source = x
      BY <1>1, <1>3, <1>5, <2>2, <2>5
    <3>3. TokenMint(k.escrow) = BaseMint
      BY <1>3, RefsAre DEF TokenMint, EscrowPda, r
    <3>4. CanTransfer(x, k.escrow, who)
      BY <2>3, <3>2 DEF TakesAddLiquidity, TakesDeposit
    <3>5. IsToken(x) /\ TokenMint(x) = BaseMint /\ TokenOwner(x) = who
      BY <3>3, <3>4 DEF CanTransfer
    <3>6. QED
      BY <1>3, <2>4, <2>5, <3>1, <3>5, WalletToken
  <2>6. QED
    BY <1>1, <1>5, <1>6, <1>11, <2>2, <2>3, <2>4, <2>5, AddLiquidityOne
<1>17. QED
  BY <1>12, <1>16

\* The list of a ResolveMarket is taken where it is due, and with nobody else in it.
LEMMA ResolveMarketStands ==
    ASSUME NEW who \in Members, destination \in Treasuries, Due("ResolveMarket", who)
    PROVE  Taken("ResolveMarket", who) /\ Refuses("ResolveMarket", who)
<1> DEFINE a == Named("ResolveMarket", Built("ResolveMarket", Here, who))
           k == [s \in DOMAIN a |-> a[s].key]
           r == MarketRefs(Here)
<1>1. DOMAIN a = {"market", "oracle", "question", "cv_events", "cv"}
  BY ResolveMarketBuilt
<1>2. /\ a.market = W(r.market) /\ a.oracle = Ro(r.oracle) /\ a.question = W(r.question)
      /\ a.cv_events = Ro(r.cv_events) /\ a.cv = Ro(CvProgram)
  BY ResolveMarketBuilt
<1> HIDE DEF a
<1>3. /\ k.market = r.market /\ k.oracle = r.oracle /\ k.question = r.question
      /\ k.cv_events = r.cv_events /\ k.cv = CvProgram
  BY <1>1, <1>2 DEF W, Ro, Payer, Signer
<1>4. Permitted("ResolveMarket", a, k)
  BY <1>1, <1>2 DEF Permitted, Writes, Signs, PoolWrites, VaultWrites, W, Ro, Payer, Signer
<1>5. DOMAIN k = DOMAIN a
  OBVIOUS
<1> HIDE DEF k
<1> HIDE DEF r
<1>6. FixedMatch(k)
  <2>1. r.cv_events = EventAuthority(CvProgram)
    BY RefsAre DEF r
  <2>2. QED
    BY <1>1, <1>3, <1>5, <2>1 DEF FixedMatch, Fixed, ConfigPda
<1>7. k.market = Here /\ InPhase(k.market, {"Active"})
  <2>1. k.market = Here
    BY <1>3, RefsAre DEF r
  <2>2. QED
    BY <2>1, HereRead DEF Due, InPhase, Present
<1>8. RecordedMatch(k)
  BY <1>1, <1>3, <1>5, RefsAre DEF RecordedMatch, Recorded, r
<1>9. k.oracle = k.market[2] /\ IsTerminal(k.oracle)
  <2>1. k.oracle = Subject
    BY <1>3, HereRead, RefsAre DEF r
  <2>2. QED
    BY <2>1, <1>7, HereRead DEF Due
<1>10. TakesResolveMarket(k)
  BY <1>3, <1>7, <1>8, <1>9 DEF TakesResolveMarket
<1>11. Taken("ResolveMarket", who)
  BY <1>4, <1>6, <1>10 DEF Taken, Takes, k, a
<1>12. \A t \in DOMAIN a : "key" \in DOMAIN a[t] /\ k[t] = a[t].key
  BY <1>1, <1>2 DEF W, Ro, Payer, Signer, k
<1>13. Refuses("ResolveMarket", who)
  <2>1. SUFFICES ASSUME NEW s \in DOMAIN a \ Open("ResolveMarket"),
                        NEW x \in Strangers("ResolveMarket", a, s),
                        Takes("ResolveMarket", [a EXCEPT ![s].key = x])
                 PROVE  FALSE
    BY DEF Refuses, a
  <2> DEFINE b == [a EXCEPT ![s].key = x]
             l == [t \in DOMAIN b |-> b[t].key]
  <2>2. DOMAIN l = DOMAIN k /\ l[s] = x /\ \A t \in DOMAIN k \ {s} : l[t] = k[t]
    BY <1>5, <1>12, Replaced
  <2>3. FixedMatch(l) /\ TakesResolveMarket(l)
    BY <2>1 DEF Takes
  <2>4. x # k[s]
    BY <1>12 DEF Strangers
  <2> HIDE DEF b, l
  <2>5. QED
    BY <1>1, <1>5, <1>6, <1>10, <2>2, <2>3, <2>4, ResolveMarketOne
<1>14. QED
  BY <1>11, <1>13

\* The list of a CollectFee is taken where it is due, and with nobody else in it.
LEMMA CollectFeeStands ==
    ASSUME NEW who \in Members, destination \in Treasuries, Due("CollectFee", who)
    PROVE  Taken("CollectFee", who) /\ Refuses("CollectFee", who)
<1> DEFINE a == Named("CollectFee", Built("CollectFee", Here, who))
           k == [s \in DOMAIN a |-> a[s].key]
           r == MarketRefs(Here)
<1>1. DOMAIN a = {"market", "config", "fee_destination", "question", "vault", "underlying",
                  "escrow", "yes", "no", "cyes", "cno", "amm", "lp_mint", "lp_vault",
                  "amm_base", "amm_quote", "cv_events", "cv", "amm_events", "ammp", "token"}
  BY CollectFeeBuilt
<1>2. /\ a.market = W(r.market) /\ a.config = Ro(ConfigPda)
      /\ a.fee_destination = W(FeeAccount(destination)) /\ a.question = Ro(r.question)
      /\ a.vault = W(r.vault) /\ a.underlying = W(r.underlying)
      /\ a.escrow = W(EscrowPda(r.market)) /\ a.yes = W(r.yes) /\ a.no = W(r.no)
      /\ a.cyes = W(r.cyes) /\ a.cno = W(r.cno) /\ a.amm = W(r.amm) /\ a.lp_mint = W(r.lp_mint)
      /\ a.lp_vault = W(r.lp_vault) /\ a.amm_base = W(r.amm_base) /\ a.amm_quote = W(r.amm_quote)
      /\ a.cv_events = Ro(r.cv_events) /\ a.cv = Ro(CvProgram) /\ a.amm_events = Ro(r.amm_events)
      /\ a.ammp = Ro(AmmProgram) /\ a.token = Ro(TokenProgram)
  BY CollectFeeBuilt
<1> HIDE DEF a
<1>3. /\ k.market = r.market /\ k.config = ConfigPda
      /\ k.fee_destination = FeeAccount(destination) /\ k.question = r.question
      /\ k.vault = r.vault /\ k.underlying = r.underlying /\ k.escrow = EscrowPda(r.market)
      /\ k.yes = r.yes /\ k.no = r.no /\ k.cyes = r.cyes /\ k.cno = r.cno /\ k.amm = r.amm
      /\ k.lp_mint = r.lp_mint /\ k.lp_vault = r.lp_vault /\ k.amm_base = r.amm_base
      /\ k.amm_quote = r.amm_quote /\ k.cv_events = r.cv_events /\ k.cv = CvProgram
      /\ k.amm_events = r.amm_events /\ k.ammp = AmmProgram /\ k.token = TokenProgram
  BY <1>1, <1>2 DEF W, Ro, Payer, Signer
<1>4. Permitted("CollectFee", a, k)
  BY <1>1, <1>2 DEF Permitted, Writes, Signs, PoolWrites, VaultWrites, W, Ro, Payer, Signer
<1>5. DOMAIN k = DOMAIN a
  OBVIOUS
<1> HIDE DEF k
<1> HIDE DEF r
<1>6. FixedMatch(k)
  <2>1. r.cv_events = EventAuthority(CvProgram) /\ r.amm_events = EventAuthority(AmmProgram)
    BY RefsAre DEF r
  <2>2. QED
    BY <1>1, <1>3, <1>5, <2>1 DEF FixedMatch, Fixed, ConfigPda
<1>7. k.market = Here /\ InPhase(k.market, {"Resolved"})
  <2>1. k.market = Here
    BY <1>3, RefsAre DEF r
  <2>2. QED
    BY <2>1, HereRead DEF Due, InPhase, Present
<1>8. RecordedMatch(k)
  BY <1>1, <1>3, <1>5, RefsAre DEF RecordedMatch, Recorded, r
<1>9. IsToken(k.fee_destination) /\ TokenMint(k.fee_destination) = BaseMint
  BY <1>3 DEF IsToken, TokenMint, FeeAccount, Ata, Due
<1>10. ~FeeDone(k.market)
  BY <1>7, HereRead DEF Due
<1>11. TakesCollectFee(k)
  BY <1>3, <1>7, <1>8, <1>9, <1>10 DEF TakesCollectFee
<1>12. Taken("CollectFee", who)
  BY <1>4, <1>6, <1>11 DEF Taken, Takes, k, a
<1>13. \A t \in DOMAIN a : "key" \in DOMAIN a[t] /\ k[t] = a[t].key
  BY <1>1, <1>2 DEF W, Ro, Payer, Signer, k
<1>14. Refuses("CollectFee", who)
  <2>1. SUFFICES ASSUME NEW s \in DOMAIN a \ Open("CollectFee"),
                        NEW x \in Strangers("CollectFee", a, s),
                        Takes("CollectFee", [a EXCEPT ![s].key = x])
                 PROVE  FALSE
    BY DEF Refuses, a
  <2> DEFINE b == [a EXCEPT ![s].key = x]
             l == [t \in DOMAIN b |-> b[t].key]
  <2>2. DOMAIN l = DOMAIN k /\ l[s] = x /\ \A t \in DOMAIN k \ {s} : l[t] = k[t]
    BY <1>5, <1>13, Replaced
  <2>3. FixedMatch(l) /\ TakesCollectFee(l)
    BY <2>1 DEF Takes
  <2>4. x # k[s]
    BY <1>13 DEF Strangers
  <2> HIDE DEF b, l
  <2>5. QED
    BY <1>1, <1>5, <1>6, <1>11, <2>2, <2>3, <2>4, CollectFeeOne
<1>15. QED
  BY <1>12, <1>14

\* The list of a ClaimLp is taken where it is due, and with nobody else in it.
LEMMA ClaimLpStands ==
    ASSUME NEW who \in Members, destination \in Treasuries, Due("ClaimLp", who)
    PROVE  Taken("ClaimLp", who) /\ Refuses("ClaimLp", who)
<1> DEFINE a == Named("ClaimLp", Built("ClaimLp", Here, who))
           k == [s \in DOMAIN a |-> a[s].key]
           r == MarketRefs(Here)
<1>1. DOMAIN a = {"market", "lp_vault", "contribution", "paid", "member", "token"}
  BY ClaimLpBuilt
<1>2. /\ a.market = W(Here) /\ a.lp_vault = W(LpVaultPda(Here))
      /\ a.contribution = W(ContributionPda(Here, who)) /\ a.paid = W(Ata(who, r.lp_mint))
      /\ a.member = W(who) /\ a.token = Ro(TokenProgram)
  BY ClaimLpBuilt
<1> HIDE DEF a
<1>3. /\ k.market = Here /\ k.lp_vault = LpVaultPda(Here)
      /\ k.contribution = ContributionPda(Here, who) /\ k.paid = Ata(who, r.lp_mint)
      /\ k.member = who /\ k.token = TokenProgram
  BY <1>1, <1>2 DEF W, Ro, Payer, Signer
<1>4. Permitted("ClaimLp", a, k)
  BY <1>1, <1>2 DEF Permitted, Writes, Signs, PoolWrites, VaultWrites, W, Ro, Payer, Signer
<1>5. DOMAIN k = DOMAIN a
  OBVIOUS
<1> HIDE DEF k
<1> HIDE DEF r
<1>6. FixedMatch(k)
  BY <1>1, <1>3, <1>5 DEF FixedMatch, Fixed, ConfigPda
<1>7. k.market = Here /\ InPhase(k.market, {"Resolved"})
  <2>1. k.market = Here
    BY <1>3
  <2>2. QED
    BY <2>1, HereRead DEF Due, InPhase, Present
<1>8. IsContribution(k.contribution) /\ k.contribution[2] = Here /\ k.contribution[3] = who
  BY <1>3, <1>7, HereRead DEF IsContribution, ContributionPda, InPhase, IsMarket, Due
<1>9. RecordedMatch(k)
  BY <1>1, <1>3, <1>5, RefsAre DEF RecordedMatch, Recorded, r
<1>10. IsToken(k.paid) /\ TokenMint(k.paid) = MarketRefs(Here).lp_mint /\ TokenOwner(k.paid) = who
  BY <1>3 DEF IsToken, TokenOwner, TokenMint, Ata, r
<1>11. TakesClaimLp(k)
  BY <1>3, <1>7, <1>8, <1>9, <1>10, HereRead DEF TakesClaimLp, Due
<1>12. Taken("ClaimLp", who)
  BY <1>4, <1>6, <1>11 DEF Taken, Takes, k, a
<1>13. \A t \in DOMAIN a : "key" \in DOMAIN a[t] /\ k[t] = a[t].key
  BY <1>1, <1>2 DEF W, Ro, Payer, Signer, k
<1>14. /\ \A t \in DOMAIN a : Shaped(a[t].key)
      /\ \A s \in {"paid", "contribution"} : ~a[s].signer
  BY <1>1, <1>2, AddressesShaped, RefsAre, HereRead DEF W, Ro, Payer, Signer, r
<1>15. ASSUME NEW m, NEW u \in Members, NEW s \in {"paid", "contribution"}
      PROVE  Shaped(Named("ClaimLp", Built("ClaimLp", m, u))[s].key)
  <2> DEFINE c == Named("ClaimLp", Built("ClaimLp", m, u))
  <2>1. c.contribution = W(ContributionPda(m, u))
    BY ClaimLpBuilt
  <2>2. c.paid = W(Ata(u, MarketRefs(m).lp_mint))
    BY ClaimLpBuilt
  <2> HIDE DEF c
  <2>3. Shaped(c[s].key)
    BY <2>1, <2>2, AddressesShaped DEF W
  <2>4. QED
    BY <2>3 DEF c
<1>16. Refuses("ClaimLp", who)
  <2>1. SUFFICES ASSUME NEW s \in DOMAIN a \ Open("ClaimLp"),
                        NEW x \in Strangers("ClaimLp", a, s),
                        Takes("ClaimLp", [a EXCEPT ![s].key = x])
                 PROVE  FALSE
    BY DEF Refuses, a
  <2> DEFINE b == [a EXCEPT ![s].key = x]
             l == [t \in DOMAIN b |-> b[t].key]
  <2>2. DOMAIN l = DOMAIN k /\ l[s] = x /\ \A t \in DOMAIN k \ {s} : l[t] = k[t]
    BY <1>5, <1>13, Replaced
  <2>3. FixedMatch(l) /\ TakesClaimLp(l)
    BY <2>1 DEF Takes
  <2>4. x # k[s]
    BY <1>13 DEF Strangers
  <2> HIDE DEF b, l
  <2>5. CASE s = "paid"
    <3>1. Shaped(x)
      BY <1>14, <1>15, <2>5, StrangersShaped
    <3>2. l.contribution = k.contribution /\ l.market = Here /\ l.paid = x
      BY <1>1, <1>3, <1>5, <2>2, <2>5
    <3>3. IsToken(x) /\ TokenOwner(x) = who
      BY <1>3, <2>3, <3>2 DEF TakesClaimLp, ContributionPda
    <3>4. TokenMint(x) = r.lp_mint
      BY <2>3, <3>2 DEF TakesClaimLp, r
    <3>5. QED
      BY <1>3, <2>4, <2>5, <3>1, <3>3, <3>4, WalletToken
  <2>6. CASE s = "contribution"
    <3>1. Shaped(x)
      BY <1>14, <1>15, <2>6, StrangersShaped
    <3>2. l.member = who /\ l.market = Here /\ l.contribution = x
      BY <1>1, <1>3, <1>5, <2>2, <2>6
    <3>3. x[1] = "contribution" /\ x[2] = Here /\ x[3] = who
      BY <2>3, <3>2 DEF TakesClaimLp, IsContribution
    <3>4. QED
      BY <1>3, <2>4, <2>6, <3>1, <3>3 DEF Shaped
  <2>7. QED
    BY <1>1, <1>5, <1>6, <1>11, <2>2, <2>3, <2>4, <2>5, <2>6, ClaimLpOne
<1>17. QED
  BY <1>12, <1>16

\* The list of a CloseMarket is taken where it is due, and with nobody else in it.
LEMMA CloseMarketStands ==
    ASSUME NEW who \in Members, destination \in Treasuries, Due("CloseMarket", who)
    PROVE  Taken("CloseMarket", who) /\ Refuses("CloseMarket", who)
<1> DEFINE a == Named("CloseMarket", Built("CloseMarket", Here, who))
           k == [s \in DOMAIN a |-> a[s].key]
           r == MarketRefs(Here)
<1>1. DOMAIN a = {"market", "creator", "escrow", "cyes", "cno", "lp_vault", "token"}
  BY CloseMarketBuilt
<1>2. /\ a.market = W(Here) /\ a.creator = W(Wallet(Founder)) /\ a.escrow = W(EscrowPda(Here))
      /\ a.cyes = W(CyesPda(Here)) /\ a.cno = W(CnoPda(Here)) /\ a.lp_vault = W(LpVaultPda(Here))
      /\ a.token = Ro(TokenProgram)
  BY CloseMarketBuilt
<1> HIDE DEF a
<1>3. /\ k.market = Here /\ k.creator = Wallet(Founder) /\ k.escrow = EscrowPda(Here)
      /\ k.cyes = CyesPda(Here) /\ k.cno = CnoPda(Here) /\ k.lp_vault = LpVaultPda(Here)
      /\ k.token = TokenProgram
  BY <1>1, <1>2 DEF W, Ro, Payer, Signer
<1>4. Permitted("CloseMarket", a, k)
  BY <1>1, <1>2 DEF Permitted, Writes, Signs, PoolWrites, VaultWrites, W, Ro, Payer, Signer
<1>5. DOMAIN k = DOMAIN a
  OBVIOUS
<1> HIDE DEF k
<1> HIDE DEF r
<1>6. FixedMatch(k)
  BY <1>1, <1>3, <1>5 DEF FixedMatch, Fixed, ConfigPda
<1>7. k.market = Here /\ InPhase(k.market, {"Resolved", "Cancelled"})
  <2>1. k.market = Here
    BY <1>3
  <2>2. QED
    BY <2>1, HereRead DEF Due, InPhase, Present
<1>8. RecordedMatch(k)
  BY <1>1, <1>3, <1>5, RefsAre DEF RecordedMatch, Recorded, r
<1>9. Activated(k.market) => FeeDone(k.market)
  BY <1>3, HereRead DEF Activated, Due
<1>10. TakesCloseMarket(k)
  BY <1>3, <1>7, <1>8, <1>9, HereRead DEF TakesCloseMarket, Due
<1>11. Taken("CloseMarket", who)
  BY <1>4, <1>6, <1>10 DEF Taken, Takes, k, a
<1>12. \A t \in DOMAIN a : "key" \in DOMAIN a[t] /\ k[t] = a[t].key
  BY <1>1, <1>2 DEF W, Ro, Payer, Signer, k
<1>13. Refuses("CloseMarket", who)
  <2>1. SUFFICES ASSUME NEW s \in DOMAIN a \ Open("CloseMarket"),
                        NEW x \in Strangers("CloseMarket", a, s),
                        Takes("CloseMarket", [a EXCEPT ![s].key = x])
                 PROVE  FALSE
    BY DEF Refuses, a
  <2> DEFINE b == [a EXCEPT ![s].key = x]
             l == [t \in DOMAIN b |-> b[t].key]
  <2>2. DOMAIN l = DOMAIN k /\ l[s] = x /\ \A t \in DOMAIN k \ {s} : l[t] = k[t]
    BY <1>5, <1>12, Replaced
  <2>3. FixedMatch(l) /\ TakesCloseMarket(l)
    BY <2>1 DEF Takes
  <2>4. x # k[s]
    BY <1>12 DEF Strangers
  <2> HIDE DEF b, l
  <2>5. k.market = Here /\ phase \in {"Resolved", "Cancelled"}
    BY <1>3 DEF Due
  <2>6. phase # "Cancelled" \/ s \notin {"cyes", "cno", "lp_vault"}
    BY DEF Open
  <2>7. QED
    BY <1>1, <1>5, <1>6, <1>10, <2>2, <2>3, <2>4, <2>5, <2>6, CloseMarketOne
<1>14. QED
  BY <1>11, <1>13

\* The list of a Delegate is taken where it is due, and with nobody else in it.
LEMMA DelegateStands ==
    ASSUME NEW who \in Members, destination \in Treasuries, Due("Delegate", who)
    PROVE  Taken("Delegate", who) /\ Refuses("Delegate", who)
<1> DEFINE a == Named("Delegate", Built("Delegate", Here, who))
           k == [s \in DOMAIN a |-> a[s].key]
<1>1. DOMAIN a = {"market", "session", "payer", "system"}
  BY DelegateBuilt
<1>2. /\ a.market = W(Here) /\ a.session = W(SessionPda(Here)) /\ a.payer = Payer(who)
      /\ a.system = Ro(SystemProgram)
  BY DelegateBuilt
<1> HIDE DEF a
<1>3. /\ k.market = Here /\ k.session = SessionPda(Here) /\ k.payer = who
      /\ k.system = SystemProgram
  BY <1>1, <1>2 DEF W, Ro, Payer, Signer
<1>4. Permitted("Delegate", a, k)
  BY <1>1, <1>2 DEF Permitted, Writes, Signs, PoolWrites, VaultWrites, W, Ro, Payer, Signer
<1>5. DOMAIN k = DOMAIN a
  OBVIOUS
<1> HIDE DEF k
<1>6. FixedMatch(k)
  BY <1>1, <1>3, <1>5 DEF FixedMatch, Fixed, ConfigPda
<1>7. TakesDelegate(k)
  BY <1>3, HereRead DEF TakesDelegate, Due
<1>8. Taken("Delegate", who)
  BY <1>4, <1>6, <1>7 DEF Taken, Takes, k, a
<1>9. \A t \in DOMAIN a : "key" \in DOMAIN a[t] /\ k[t] = a[t].key
  BY <1>1, <1>2 DEF W, Ro, Payer, Signer, k
<1>10. Refuses("Delegate", who)
  <2>1. SUFFICES ASSUME NEW s \in DOMAIN a \ Open("Delegate"),
                        NEW x \in Strangers("Delegate", a, s),
                        Takes("Delegate", [a EXCEPT ![s].key = x])
                 PROVE  FALSE
    BY DEF Refuses, a
  <2> DEFINE b == [a EXCEPT ![s].key = x]
             l == [t \in DOMAIN b |-> b[t].key]
  <2>2. DOMAIN l = DOMAIN k /\ l[s] = x /\ \A t \in DOMAIN k \ {s} : l[t] = k[t]
    BY <1>5, <1>9, Replaced
  <2>3. FixedMatch(l) /\ TakesDelegate(l)
    BY <2>1 DEF Takes
  <2>4. x # k[s]
    BY <1>9 DEF Strangers
  <2> HIDE DEF b, l
  <2>5. s # "payer"
    BY DEF Open
  <2>6. QED
    BY <1>1, <1>5, <1>6, <1>7, <2>2, <2>3, <2>4, <2>5, DelegateOne
<1>11. QED
  BY <1>8, <1>10

\* The list of a Commit is taken where it is due, and with nobody else in it.
LEMMA CommitStands ==
    ASSUME NEW who \in Members, destination \in Treasuries, Due("Commit", who)
    PROVE  Taken("Commit", who) /\ Refuses("Commit", who)
<1> DEFINE a == Named("Commit", Built("Commit", Here, who))
           k == [s \in DOMAIN a |-> a[s].key]
<1>1. DOMAIN a = {"market", "session"}
  BY CommitBuilt
<1>2. /\ a.market = W(Here) /\ a.session = W(SessionPda(Here))
  BY CommitBuilt
<1> HIDE DEF a
<1>3. /\ k.market = Here /\ k.session = SessionPda(Here)
  BY <1>1, <1>2 DEF W, Ro, Payer, Signer
<1>4. Permitted("Commit", a, k)
  BY <1>1, <1>2 DEF Permitted, Writes, Signs, PoolWrites, VaultWrites, W, Ro, Payer, Signer
<1>5. DOMAIN k = DOMAIN a
  OBVIOUS
<1> HIDE DEF k
<1>6. FixedMatch(k)
  BY <1>1, <1>3, <1>5 DEF FixedMatch, Fixed, ConfigPda
<1>7. TakesSession(k)
  BY <1>3, HereRead DEF TakesSession, Due
<1>8. Taken("Commit", who)
  BY <1>4, <1>6, <1>7 DEF Taken, Takes, k, a
<1>9. \A t \in DOMAIN a : "key" \in DOMAIN a[t] /\ k[t] = a[t].key
  BY <1>1, <1>2 DEF W, Ro, Payer, Signer, k
<1>10. Refuses("Commit", who)
  <2>1. SUFFICES ASSUME NEW s \in DOMAIN a \ Open("Commit"),
                        NEW x \in Strangers("Commit", a, s),
                        Takes("Commit", [a EXCEPT ![s].key = x])
                 PROVE  FALSE
    BY DEF Refuses, a
  <2> DEFINE b == [a EXCEPT ![s].key = x]
             l == [t \in DOMAIN b |-> b[t].key]
  <2>2. DOMAIN l = DOMAIN k /\ l[s] = x /\ \A t \in DOMAIN k \ {s} : l[t] = k[t]
    BY <1>5, <1>9, Replaced
  <2>3. FixedMatch(l) /\ TakesSession(l)
    BY <2>1 DEF Takes
  <2>4. x # k[s]
    BY <1>9 DEF Strangers
  <2> HIDE DEF b, l
  <2>5. QED
    BY <1>1, <1>5, <1>6, <1>7, <2>2, <2>3, <2>4, CommitOne
<1>11. QED
  BY <1>8, <1>10

\* The list of an Undelegate is taken where it is due, and with nobody else in it.
LEMMA UndelegateStands ==
    ASSUME NEW who \in Members, destination \in Treasuries, Due("Undelegate", who)
    PROVE  Taken("Undelegate", who) /\ Refuses("Undelegate", who)
<1> DEFINE a == Named("Undelegate", Built("Undelegate", Here, who))
           k == [s \in DOMAIN a |-> a[s].key]
<1>1. DOMAIN a = {"market", "session"}
  BY UndelegateBuilt
<1>2. /\ a.market = W(Here) /\ a.session = W(SessionPda(Here))
  BY UndelegateBuilt
<1> HIDE DEF a
<1>3. /\ k.market = Here /\ k.session = SessionPda(Here)
  BY <1>1, <1>2 DEF W, Ro, Payer, Signer
<1>4. Permitted("Undelegate", a, k)
  BY <1>1, <1>2 DEF Permitted, Writes, Signs, PoolWrites, VaultWrites, W, Ro, Payer, Signer
<1>5. DOMAIN k = DOMAIN a
  OBVIOUS
<1> HIDE DEF k
<1>6. FixedMatch(k)
  BY <1>1, <1>3, <1>5 DEF FixedMatch, Fixed, ConfigPda
<1>7. TakesSession(k)
  BY <1>3, HereRead DEF TakesSession, Due
<1>8. Taken("Undelegate", who)
  BY <1>4, <1>6, <1>7 DEF Taken, Takes, k, a
<1>9. \A t \in DOMAIN a : "key" \in DOMAIN a[t] /\ k[t] = a[t].key
  BY <1>1, <1>2 DEF W, Ro, Payer, Signer, k
<1>10. Refuses("Undelegate", who)
  <2>1. SUFFICES ASSUME NEW s \in DOMAIN a \ Open("Undelegate"),
                        NEW x \in Strangers("Undelegate", a, s),
                        Takes("Undelegate", [a EXCEPT ![s].key = x])
                 PROVE  FALSE
    BY DEF Refuses, a
  <2> DEFINE b == [a EXCEPT ![s].key = x]
             l == [t \in DOMAIN b |-> b[t].key]
  <2>2. DOMAIN l = DOMAIN k /\ l[s] = x /\ \A t \in DOMAIN k \ {s} : l[t] = k[t]
    BY <1>5, <1>9, Replaced
  <2>3. FixedMatch(l) /\ TakesSession(l)
    BY <2>1 DEF Takes
  <2>4. x # k[s]
    BY <1>9 DEF Strangers
  <2> HIDE DEF b, l
  <2>5. QED
    BY <1>1, <1>5, <1>6, <1>7, <2>2, <2>3, <2>4, UndelegateOne
<1>11. QED
  BY <1>8, <1>10

\* Every list the SDK builds is taken where its instruction is due, and with a
\* stranger in one of its slots none is, whatever the market has been through.
LEMMA ListsStandHere == destination \in Treasuries => ListsAccepted /\ NoStrangerAccepted
<1> SUFFICES ASSUME destination \in Treasuries, NEW ix \in Instructions, NEW who \in Members,
                    Due(ix, who)
             PROVE  Taken(ix, who) /\ Refuses(ix, who)
  BY DEF ListsAccepted, NoStrangerAccepted, Refuses
<1>1. ix \in {"UpdateConfig", "CreateSubject", "RequestAi", "CreateMarket", "Contribute",
              "Cancel", "Refund", "Activate", "AddLiquidity", "ResolveMarket", "CollectFee",
              "ClaimLp", "CloseMarket", "Delegate", "Commit", "Undelegate"}
  BY DEF Instructions, Slots
<1>2. QED
  BY <1>1, UpdateConfigStands, CreateSubjectStands, RequestAiStands, CreateMarketStands,
           ContributeStands, CancelStands, RefundStands, ActivateStands, AddLiquidityStands,
           ResolveMarketStands, CollectFeeStands, ClaimLpStands, CloseMarketStands,
           DelegateStands, CommitStands, UndelegateStands

\* Fees are always routed to a treasury.
LEMMA DestinationStays == AccountsSpec => [](destination \in Treasuries)
<1>1. AccountsInit => destination \in Treasuries
  BY DEF AccountsInit, ListInit
<1>2. destination \in Treasuries /\ [AccountsNext]_<<vars, sessionVars, listVars>>
          => (destination \in Treasuries)'
  <2>1. SUFFICES ASSUME destination \in Treasuries, [AccountsNext]_<<vars, sessionVars, listVars>>
                 PROVE  destination' = destination \/ destination' = NextTreasury
    BY NextIsOther
  <2>2. CASE ListNext
    BY <2>2 DEF ListNext, SendCreate, SendDeposit, SendExit, SendPhase, SendCollectFee,
       SendSession, SendUpdateConfig, Compose, AnswerArrives, TreasuryMoves
  <2>3. CASE UNCHANGED listVars
    BY <2>3 DEF listVars
  <2>4. QED
    BY <2>1, <2>2, <2>3 DEF AccountsNext
<1>3. QED
  BY <1>1, <1>2, PTL DEF AccountsSpec

\* The order, the addresses and the marks of every list the SDK builds are what
\* the program expects wherever the documentation says the instruction is due
\* ("a mismatch is a silent runtime failure", instructions/market/lifecycle.ts):
\* for any members and treasuries, wherever fees are routed and whoever has
\* closed their account, in every phase the market goes through.
THEOREM ListsAreAccepted == AccountsSpec => []ListsStand
<1>1. destination \in Treasuries => ListsStand
  BY ListsStandHere DEF ListsStand
<1>2. QED
  BY <1>1, DestinationStays, PTL

\* No account can stand in for another: the handlers' checks refuse every list
\* of a due instruction that has another market's, another member's, another
\* slot's or a former treasury's account in one of its slots.  So the checks are
\* enough, one by one: each slot is left exactly one key by the other slots'.
THEOREM StrangersAreRefused == AccountsSpec => []StrangersRefused
<1>1. destination \in Treasuries => StrangersRefused
  BY ListsStandHere DEF StrangersRefused
<1>2. QED
  BY <1>1, DestinationStays, PTL
=============================================================================
