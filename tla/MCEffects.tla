----------------------------- MODULE MCEffects -----------------------------
(***************************************************************************)
(* Every handler of the catalogue on every small board.  Each promise of   *)
(* EffectScript takes a list of handlers that break it: those are          *)
(* departures of the code, found by checking the promise without the       *)
(* exception, and no other handler may join them.                          *)
(***************************************************************************)
EXTENDS EffectShapes, AttackEffects1, AttackEffects2, AttackEffects3, AttackEffects4, CardEffects

MCAttacks == AttackScripts1 \cup AttackScripts2 \cup AttackScripts3 \cup AttackScripts4
MCCards == CardScripts
NoCards == {}

(* They build an EnergyAttachment with fields it does not have, or call a module *)
(* that is not imported, whatever the state; or they use a reference to the    *)
(* Active Pokemon, or the first of a Bench, which the attack itself or a       *)
(* retaliation has taken away.                                                 *)
MCRaising == {
    Abilities2777._golden_flame, Abilities3026._x_boot, Attacks4719._metronome,
    Attacks6350._garland_ray, Attacks6600._inferno_x_charizard, Attacks10238._grass_kagura,
    Attacks10385._fire_kagura, Attacks10530._crescendo_wave, Attacks10678._water_kagura,
    Attacks11405._rock_kagura_attach, Attacks12136._frigid_fluttering,
    Attacks14595._swelling_power, Attacks15537._full_heart, Attacks20435._suction,
    Attacks26693._hex_hurl_b3, Attacks26838._tricolor_pump_b3}

(* They deal damage after a step that may have ended the game.                   *)
MCReopening == {
    Abilities3026._biting_spree, Attacks1347._ground_melter, Attacks5344._somersault_dive,
    Attacks6350._wreck, Attacks10385._inferno_kick_flurry, Attacks10530._aqua_split,
    Attacks10678._crushing_press, Attacks10798._dual_bolt, Attacks10932._flash_impact,
    Attacks18829._world_ender, Attacks22821._ground_crasher}

(* It wins by its text.                                                         *)
MCVictorious == {
    Attacks12437._victory_symbol}

(* They move damage counters, hurt the attacker, or put an Evolution with less   *)
(* HP on a damaged Pokemon, and do not call check_ko.                          *)
MCUnexamined == {
    Abilities2897._rocket_brain, Attacks2191._ascension, Attacks4787._ascension_misdreavus,
    Attacks10678._dynamic_dive, Attacks11262._explosive_ascension,
    Attacks14164._precocious_evolution_flag, Trainers1529._rare_candy,
    Trainers5199._salvatore_b20, Trainers5473._ogres_mask}

(* They put a Pokemon back into the hand or the deck, which may have been the    *)
(* last of its side; only check_ko looks for that.                             *)
MCEmptying == {
    Abilities848._run_away_draw, Abilities3438._beckoning_tail_b4, Abilities4232._flustered_leap,
    Attacks2046._tuck_tail, Attacks6266._jumping_shot, Attacks7078._reversing_gust,
    Attacks11538._assassins_return, Attacks12437._fade_out, Attacks18334._surf_back,
    Attacks19268._breezy_gift, Attacks20685._mystical_return_flag, Attacks21464._slowing_perfume,
    Attacks21886._jumping_uppercut, Attacks25666._mystical_return_flag_b17,
    Attacks26978._angelite_b3, Attacks27828._expelling_tornado_b5,
    Attacks28074._balloon_return_b5, Trainers5607._scoop_up_cyclone}

(* They call check_ko again for a Benched Pokemon that _apply_bench_damage has   *)
(* already examined, or hit a target of a list made before it was knocked out. *)
MCPayingTwice == {
    Attacks1613._mirage_barrage, Attacks14993._crimson_blaster,
    Attacks19701._everyone_explode_now, Attacks22426._dual_headbutt, Attacks23407._spit_out_shot,
    Attacks25666._everyone_explode_now_b17}

(* The shapes for which EffectProofs proves the promises are those of nearly all *)
(* handlers, and of none that breaks the promise.                              *)
Shaped(Shape(_)) == {sc \in MCAttacks \cup MCCards : Shape(sc)}
ASSUME ShapesAreCommon ==
    /\ \A sc \in MCAttacks \cup MCCards : Orderly(sc)
    /\ Cardinality(Shaped(Still)) >= 530 /\ Shaped(Still) \cap MCEmptying = {}
    /\ Cardinality(Shaped(Examining)) >= 470 /\ Shaped(Examining) \cap MCUnexamined = {}
    /\ Cardinality(Shaped(Paying)) >= 430 /\ Shaped(Paying) \cap MCPayingTwice = {}
    /\ Cardinality(Shaped(Modest)) >= 565 /\ Shaped(Modest) \cap MCVictorious = {}
    /\ Cardinality(Shaped(Heeding)) >= 545 /\ Shaped(Heeding) \cap MCReopening = {}
    /\ Cardinality(Shaped(Careful)) >= 505 /\ Shaped(Careful) \cap MCRaising = {}

(* The knock-out of a Pokemon is carried out once, whatever the handler.        *)
EveryKnockOutOnce == \A m \in Mons : payments[m] <= 1
=============================================================================
