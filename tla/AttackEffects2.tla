--------------------------- MODULE AttackEffects2 ---------------------------
(***************************************************************************)
(* The scripts of the attack handlers of effects/attacks.py, lines 7078 to *)
(* 14009, in their order: one record per run of consecutive handlers, one  *)
(* field per handler, named as in the code. EffectOps explains the         *)
(* operations.                                                             *)
(***************************************************************************)
EXTENDS EffectOps, Functions

(* effects/attacks.py:7078-7217 *)
Attacks7078 == [
  _jam_packed |-> <<OnlyIf({Is("own"), Some}), Perhaps(<<Piles, Quit>>), Piles, Attach("own"),
        Piles>>,
  _stomping_wood |-> <<Strike>>,
  _poison_powder_tangela |-> <<When({Is("foe"), Some}, <<Inflict("foe")>>)>>,
  _pumped_up_whip |-> <<When({No("own")}, <<Strike, Quit>>), Strike>>,
  _reversing_gust |-> <<StopIf(Some), StopIf(No("foe")), Bind("t", "foe"), Away("t"), Lift("foe"),
        When({Is("foe bench")}, <<Choose("u", "foe bench"), Leave("foe", "u"), Seat("foe", "u")>>),
        Piles>>,
  _perplex_shiftry |-> <<Blow, StopIf(Ended), When({Is("foe")}, <<Inflict("foe")>>)>>,
  _traverse_time |-> <<StopIf(Some), Perhaps(<<Piles, Quit>>), Piles>>,
  _earthen_power |-> <<Strike>>,
  _roasting_heat_camerupt |-> <<Strike>>]

(* effects/attacks.py:7220-7335 *)
Attacks7220 == [
  _volcanic_meteor |-> <<Blow, StopIf(Ended), When({Is("own")}, <<Perhaps(<<Strip("own")>>)>>)>>,
  _singe_only |-> <<When({Is("foe"), Some}, <<Inflict("foe")>>)>>,
  _backfire |-> <<Blow, StopIf(Ended), Perhaps(<<Piles>>)>>,
  _jumping_kick_raboot |-> <<StopIf(No("foe play")), When({No("foe bench")}, <<Strike, Quit>>),
        Clear("t"), Perhaps(<<Maybe("t", "foe play")>>), When({No("t")}, <<Bind("t", "foe"),
        When({No("t")}, <<Choose("t", "foe bench")>>)>>), IfSame("t", "foe", <<Strike>>,
        <<Splash("t")>>)>>,
  _turbo_flare |-> <<Blow, StopIf(Ended), OnlyIf({Is("own bench"), Some}), Perhaps(<<Piles, Quit>>),
        Repeat(<<Perhaps(<<Break>>), Perhaps(<<Piles, Choose("t", "own bench"), Attach("t")>>)>>),
        Piles>>]

(* effects/attacks.py:7370-7489 *)
Attacks7370 == [
  _electrified_incisors |-> <<Strike, StopIf(Ended), When({Is("foe"), Some}, <<Mark("foe")>>)>>,
  _coiling_crush |-> <<Blow, StopIf(Ended), Repeat(<<Perhaps(<<When({Is("foe"), Some},
        <<Strip("foe")>>)>>)>>)>>,
  _scorching_earth |-> <<Blow, StopIf(Ended), Perhaps(<<Note, Stadium>>)>>,
  _riptide |-> <<Perhaps(<<Strike>>), Piles>>,
  _swirling_waves |-> <<Blow, StopIf(Ended), When({Is("own")}, <<Perhaps(<<Strip("own")>>)>>)>>,
  _hammer_lanche |-> <<Perhaps(<<Piles>>), Perhaps(<<Strike>>)>>,
  _aqua_launcher |-> <<Blow, StopIf(Ended), When({Is("own")}, <<Strip("own")>>)>>,
  _double_stab |-> <<Perhaps(<<Strike>>)>>]

(* effects/attacks.py:7492-7604 *)
Attacks7492 == [
  _bring_down |-> <<StopIf(No("others")), Choose("t", "others"), Fell("t"), Check("t")>>,
  _water_shot |-> <<Blow, StopIf(Ended), When({Is("own"), Some}, <<Strip("own")>>)>>,
  _chilling_wings |-> <<When({Is("foe")}, <<Strike, StopIf(Ended)>>), Each("t", "foe bench",
        <<Splash("t"), StopIf(Ended)>>)>>,
  _upper_spark |-> <<Strike>>,
  _electro_fall |-> <<Strike>>,
  _riotous_blasting |-> <<Perhaps(<<Strip("own")>>), Strike>>,
  _damage_beat |-> <<Perhaps(<<Strike>>)>>]

(* effects/attacks.py:7618-7752 *)
Attacks7618 == [
  _geo_gate |-> <<StopIf(Some), Perhaps(<<Piles, Quit>>), Repeat(<<When({Among("own bench")},
        <<Break>>), Perhaps(<<Piles, Recruit("own")>>)>>), Piles>>,
  _horrifying_bite |-> <<Piles>>,
  _jynx_psychic |-> <<Strike>>,
  _gale_thrust |-> <<Strike>>,
  _spiky_hopper |-> <<Strike>>,
  _pow_pow_punching |-> <<Strike>>,
  _wild_press |-> <<Blow, StopIf(Ended), When({Is("own")}, <<Hurt("own"), Check("own")>>)>>,
  _reckless_charge_toxicroak |-> <<Blow, StopIf(Ended), When({Is("own")}, <<Hurt("own"),
        Check("own")>>)>>,
  _shadowy_side_kick |-> <<Bind("t", "foe"), Blow, StopIf(Ended), When({Is("t")}, <<If({No("foe")},
        <<When({Is("own")}, <<Mark("own")>>)>>, <<IfSame("t", "foe", <<>>, <<When({Is("own")},
        <<Mark("own")>>)>>)>>)>>)>>]

(* effects/attacks.py:7755-7772 *)
Attacks7755 == [
  _stony_kick |-> <<Blow, StopIf(Ended), When({Is("foe bench")}, <<Choose("t", "foe bench"),
        Splash("t")>>)>>]

(* effects/attacks.py:7787-7926 *)
Attacks7787 == [
  _naclstack_rock_hurl |-> <<Strike>>,
  _gobble_down |-> <<StopIf(Some), Strike>>,
  _huge_bite |-> <<Strike>>,
  _greedy_hunt |-> <<Blow, StopIf(Ended), Perhaps(<<Piles>>)>>,
  _miraculous_paint |-> <<Blow, StopIf(Ended), Perhaps(<<When({Is("foe")}, <<Inflict("foe")>>)>>)>>,
  _welcoming_tail |-> <<Strike>>,
  _mountain_breaker |-> <<Blow, StopIf(Ended), Perhaps(<<Piles>>)>>,
  _windup_swing |-> <<StopIf(Some), Strike>>,
  _all_you_can_grab |-> <<StopIf(Some), Piles>>,
  _illusory_impulse |-> <<Blow, StopIf(Ended), When({Is("own")}, <<Strip("own")>>)>>]

(* effects/attacks.py:7929-8059 *)
Attacks7929 == [
  _pluck |-> <<When({Is("foe"), Some}, <<Strip("foe")>>), Strike>>,
  _repeating_drill |-> <<Perhaps(<<Strike>>)>>,
  _quick_gift |-> <<StopIf(Some), Piles>>,
  _charm |-> <<When({Is("foe")}, <<Mark("foe")>>)>>,
  _dashing_kick |-> <<StopIf(No("foe bench")), Choose("t", "foe bench"), Splash("t")>>,
  _bellyful_of_milk |-> <<Perhaps(<<When({Among("own play")}, <<Choose("t", "own play"), Clear("u"),
        Perhaps(<<Maybe("u", "own play")>>), When({No("u")}, <<Bind("u", "t")>>), Heal("u")>>)>>)>>,
  _hyper_lariat |-> <<Strike>>]

(* effects/attacks.py:8062-8197 *)
Attacks8062 == [
  _chrono_burst |-> <<If({Is("own"), Some}, <<Either(<<Strip("own"), Piles, Strike>>, <<Strike>>)>>,
        <<Strike>>)>>,
  _cutting_riposte |-> <<Strike>>,
  _venoshock_30 |-> <<Strike>>,
  _venoshock_90 |-> <<Strike>>,
  _command_the_grass |-> <<Blow, StopIf(Ended), StopIf(Some), Piles>>,
  _lively_needles |-> <<Repeat(<<Perhaps(<<When({Is("own"), Some}, <<Break>>)>>)>>), Strike>>,
  _bemusing_aroma |-> <<Blow, StopIf(Ended), When({Is("foe")}, <<Inflict("foe")>>)>>,
  _dangerous_reaction |-> <<Strike>>,
  _v_force |-> <<StopIf(NoneAmong("own bench")), Strike>>]

(* effects/attacks.py:8215-8358 *)
Attacks8215 == [
  _round_player_20 |-> <<StopIf(Some), Strike>>,
  _round_player_40 |-> <<StopIf(Some), Strike>>,
  _round_player_70 |-> <<StopIf(Some), Strike>>,
  _ancient_seaweed |-> <<StopIf(Some), Strike>>,
  _snotted_up |-> <<Blow, StopIf(Ended), When({Is("foe")}, <<Mark("foe")>>)>>,
  _carracosta_big_bite |-> <<Blow, StopIf(Ended), When({Is("foe")}, <<Mark("foe")>>)>>,
  _continuous_headbutt |-> <<Perhaps(<<Strike>>)>>,
  _beartic_sheer_cold |-> <<Blow, StopIf(Ended), When({Is("foe")}, <<Mark("foe")>>)>>,
  _drag_off |-> <<When({No("foe bench")}, <<Strike, Quit>>), Choose("t", "foe bench"), Swap("foe",
        "t"), Strike>>,
  _blizzard_burst |-> <<Blow, StopIf(Ended), Perhaps(<<Each("t", "foe bench", <<Splash("t"),
        StopIf(Ended)>>)>>)>>]

(* effects/attacks.py:8361-8476 *)
Attacks8361 == [
  _charge_thundurus |-> <<StopIf(No("own")), Perhaps(<<Piles, Quit>>), Piles, Attach("own"), Piles>>,
  _disaster_volt |-> <<Blow, StopIf(Ended), When({Is("own"), Some}, <<Strip("own")>>)>>,
  _buzz_flip |-> <<Perhaps(<<Strike>>)>>,
  _rest_munna |-> <<When({Is("own")}, <<Inflict("own"), Perhaps(<<Heal("own")>>)>>)>>,
  _dream_calling |-> <<Piles>>,
  _sleep_pulse |-> <<Blow, StopIf(Ended), When({Is("foe")}, <<Inflict("foe")>>)>>,
  _calm_mind |-> <<When({Is("own")}, <<Perhaps(<<Heal("own")>>)>>)>>,
  _beheeyem_psychic |-> <<Strike>>]

(* effects/attacks.py:8479-8624 *)
Attacks8479 == [
  _slight_shift |-> <<OnlyIf({Among("foe play")}), Perhaps(<<Maybe("t", "foe play")>>),
        When({No("t")}, <<Choose("t", "foe play")>>), Choose("u", "foe play"), Strip("t"),
        Attach("u")>>,
  _evo_lariat |-> <<Strike>>,
  _golett_best_punch |-> <<Perhaps(<<Strike>>)>>,
  _double_smash_golurk |-> <<Perhaps(<<Strike>>)>>,
  _echoed_voice |-> <<Strike>>,
  _swing_around |-> <<Strike>>,
  _hammer_arm |-> <<Blow, StopIf(Ended), Perhaps(<<Piles>>)>>,
  _piercing_drill |-> <<Blow, StopIf(Ended), StopIf(NoneAmong("foe bench")), Choose("t",
        "foe bench"), Splash("t")>>,
  _excadrill_rock_tumble |-> <<Strike>>]

(* effects/attacks.py:8627-8743 *)
Attacks8627 == [
  _shoulder_throw |-> <<StopIf(Some), Strike>>,
  _flail_dwebble |-> <<StopIf(Some), Strike>>,
  _stone_edge |-> <<Strike>>,
  _abundant_harvest |-> <<StopIf(No("own")), StopIf(Some), Attach("own")>>,
  _earthquake_landorus |-> <<Blow, StopIf(Ended), Each("t", "own bench", <<Hurt("t"), Check("t"),
        StopIf(Ended)>>)>>,
  _sandile_tighten_up |-> <<Blow, StopIf(Ended), Perhaps(<<Piles>>)>>,
  _krokorok_tighten_up |-> <<Blow, StopIf(Ended), Perhaps(<<Piles>>)>>,
  _voltage_burst |-> <<Strike, StopIf(Ended), When({Is("own")}, <<Hurt("own"), Check("own")>>)>>]

(* effects/attacks.py:8746-8892 *)
Attacks8746 == [
  _cellular_evolution |-> <<Perhaps(<<Piles, Quit>>), Maybe("u", "own play"), When({Is("u")},
        <<Rise("u")>>), Piles>>,
  _cellular_evolution_noop |-> <<>>,
  _cellular_ascension_noop |-> <<>>,
  _cursed_slug |-> <<Strike>>,
  _wild_lances |-> <<Blow, StopIf(Ended), When({Is("own")}, <<Hurt("own"), Check("own")>>)>>,
  _klink_hard_gears |-> <<Blow, StopIf(Ended), When({Is("own")}, <<Mark("own")>>)>>,
  _klang_hard_gears |-> <<Blow, StopIf(Ended), When({Is("own")}, <<Mark("own")>>)>>,
  _finishing_blow |-> <<Strike>>,
  _righteous_edge |-> <<Blow, StopIf(Ended), StopIf(No("foe")), Perhaps(<<Strip("foe")>>)>>,
  _metal_arms |-> <<Strike>>,
  _protect_charge |-> <<Blow, StopIf(Ended), When({Is("own")}, <<Mark("own")>>)>>]

(* effects/attacks.py:8895-9038 *)
Attacks8895 == [
  _gather_strength |-> <<StopIf(Some), Piles>>,
  _cross_cut |-> <<Strike>>,
  _axe_blast |-> <<StopIf(No("foe")), Perhaps(<<Fell("foe"), Check("foe")>>)>>,
  _scout |-> <<>>,
  _fly_tranquill |-> <<Perhaps(<<Strike, StopIf(Ended), When({Is("own")}, <<Mark("own")>>)>>)>>,
  _add_on |-> <<Piles>>,
  _swift_flight |-> <<Blow, StopIf(Ended), Perhaps(<<When({Is("own")}, <<Mark("own")>>)>>)>>,
  _return_audino |-> <<Blow, StopIf(Ended), Perhaps(<<Piles>>)>>,
  _tail_slap |-> <<Perhaps(<<Strike>>)>>,
  _do_the_wave |-> <<Strike>>,
  _do_the_wave_dipplin |-> <<StopIf(Some), Strike>>,
  _aerial_ace |-> <<Blow, StopIf(Ended), Perhaps(<<Strike>>)>>]

(* effects/attacks.py:9041-9189 *)
Attacks9041 == [
  _healing_wrapping |-> <<Each("t", "own play", <<Perhaps(<<Heal("t")>>)>>)>>,
  _x_scissor |-> <<Blow, StopIf(Ended), Perhaps(<<Strike>>)>>,
  _absorb |-> <<Blow, StopIf(Ended), When({Is("own"), Some}, <<Heal("own")>>)>>,
  _energy_gift_whimsicott |-> <<StopIf(Some), Repeat(<<Unless({Is("own play"), Some}, <<Continue>>),
        Piles, Choose("t", "own play"), Attach("t")>>), Piles>>,
  _wondrous_cotton |-> <<Perhaps(<<Strike>>)>>,
  _acid_spray |-> <<Blow, StopIf(Ended), Perhaps(<<When({Is("foe"), Some}, <<Strip("foe")>>)>>)>>,
  _giga_drain |-> <<Strike, OnlyIf({No("over"), Some}), When({Is("own"), Some}, <<Heal("own")>>)>>,
  _brighten_and_burn |-> <<StopIf(Some), Perhaps(<<Piles>>)>>]

(* effects/attacks.py:9192-9339 *)
Attacks9192 == [
  _lampent_fire_blast |-> <<Blow, StopIf(Ended), When({Is("own"), Some}, <<Strip("own")>>)>>,
  _incendiary_pillar |-> <<Strike>>,
  _burn_it_all_up |-> <<Blow, StopIf(Ended), When({Is("own"), Some}, <<Strip("own")>>)>>,
  _licking_catch |-> <<StopIf(Some), Piles>>,
  _blazing_burst |-> <<Strike, StopIf(Ended), When({Is("own"), Some}, <<Strip("own")>>)>>,
  _energized_shell |-> <<Perhaps(<<Strike>>)>>,
  _energized_slash |-> <<Strike>>,
  _bared_fangs |-> <<OnlyIf({Is("foe"), Some}), Blow>>,
  _ducklett_firefighting |-> <<StopIf(No("foe")), Perhaps(<<Strip("foe")>>)>>,
  _swanna_air_slash |-> <<Blow, StopIf(Ended), When({Is("own"), Some}, <<Strip("own")>>)>>,
  _ice_edge |-> <<Blow, StopIf(Ended), Perhaps(<<Strike>>)>>]

(* effects/attacks.py:9342-9488 *)
Attacks9342 == [
  _ice_beam_vanillish |-> <<Blow, StopIf(Ended), Perhaps(<<When({Is("foe")},
        <<Inflict("foe")>>)>>)>>,
  _double_freeze |-> <<Perhaps(<<Strike, When({Is("foe")}, <<Inflict("foe")>>)>>)>>,
  _keldeo_gale_thrust |-> <<Strike>>,
  _sonic_edge_keldeo |-> <<Strike>>,
  _zebstrika_electrobullet |-> <<Blow, StopIf(Ended), When({Is("foe bench")}, <<Choose("t",
        "foe bench"), Splash("t")>>)>>,
  _joltik_surprise |-> <<Perhaps(<<Blow>>)>>,
  _galvantula_discharge |-> <<StopIf(No("own")), Perhaps(<<Strip("own")>>), Perhaps(<<Strike>>)>>,
  _stunfisk_muddy_bolt |-> <<Blow, StopIf(Ended), Perhaps(<<Strike>>)>>,
  _swoobat_happy_return |-> <<StopIf(No("own bench")), Choose("t", "own bench"), Remove("own", "t"),
        Perhaps(<<Piles>>), Strip("t"), Away("t")>>,
  _sigilyph_reflect |-> <<When({Is("own")}, <<Mark("own")>>)>>]

(* effects/attacks.py:9491-9627 *)
Attacks9491 == [
  _sigilyph_telekinesis |-> <<StopIf(No("foe")), Clear("t"), Perhaps(<<Maybe("t", "foe play")>>),
        When({No("t")}, <<Bind("t", "foe")>>), IfSame("t", "foe", <<Strike>>, <<Splash("t")>>)>>,
  _cofagrigus_extended_damagriiigus |-> <<OnlyIf({Among("own bench"), Is("foe")}), Choose("t",
        "own bench"), Heal("t"), Clear("u"), Perhaps(<<Maybe("u", "foe play")>>), When({No("u")},
        <<Bind("u", "foe")>>), Hurt("u"), Check("u")>>,
  _cofagrigus_perplex |-> <<Blow, StopIf(Ended), When({Is("foe")}, <<Inflict("foe")>>)>>,
  _gothorita_fortunate_eye |-> <<>>,
  _synchro_shot |-> <<Strike>>,
  _oceanic_gloom |-> <<Blow, StopIf(Ended), Note>>,
  _power_press |-> <<Strike>>,
  _roggenrola_harden |-> <<When({Is("own")}, <<Mark("own")>>)>>,
  _boldore_smack_down |-> <<Strike>>]

(* effects/attacks.py:9630-9765 *)
Attacks9630 == [
  _gigalith_vengeful_cannon |-> <<Perhaps(<<Strike>>)>>,
  _sawk_rising_chop |-> <<StopIf(Some), Strike>>,
  _archen_acrobatics |-> <<Strike>>,
  _mienshao_smash_uppercut |-> <<Strike>>,
  _purrloin_invite_evil |-> <<StopIf(Some), Piles>>,
  _liepard_knock_off |-> <<Blow, StopIf(Ended), Perhaps(<<Piles>>)>>,
  _scrafty_ruffians |-> <<Perhaps(<<Strike>>)>>,
  _gunk_shot |-> <<Blow, StopIf(Ended), When({Is("foe")}, <<Inflict("foe")>>)>>,
  _zorua_take_down |-> <<Blow, StopIf(Ended), When({Is("own")}, <<Hurt("own"), Check("own")>>)>>,
  _zoroark_mind_jack |-> <<Perhaps(<<Strike>>)>>]

(* effects/attacks.py:9808-9939 *)
Attacks9808 == [
  _body_slam_deino |-> <<Blow, StopIf(Ended), Perhaps(<<When({Is("foe")}, <<Inflict("foe")>>)>>)>>,
  _double_hit_zweilous |-> <<Perhaps(<<Strike>>)>>,
  _hydreigon_dark_bite |-> <<Blow, StopIf(Ended), When({Is("foe")}, <<Mark("foe")>>)>>,
  _ferrothorn_power_whip |-> <<OnlyIf({Is("foe"), Some}), Clear("t"), Perhaps(<<Maybe("t",
        "foe play")>>), When({No("t")}, <<Bind("t", "foe")>>), IfSame("t", "foe", <<Strike>>,
        <<Splash("t")>>)>>,
  _durant_bite_together |-> <<Strike>>,
  _druddigon_shred |-> <<Strike>>,
  _druddigon_ambush |-> <<Blow, StopIf(Ended), Perhaps(<<Strike>>)>>,
  _patrat_procurement |-> <<StopIf(Some), Piles>>,
  _watchog_hyper_fang |-> <<Perhaps(<<Strike>>)>>,
  _lillipup_play_rough |-> <<Blow, StopIf(Ended), Perhaps(<<Strike>>)>>]

(* effects/attacks.py:9942-10091 *)
Attacks9942 == [
  _force_switch_no_damage |-> <<StopIf(No("foe bench")), Bind("t", "foe"), Lift("foe"),
        When({Is("t")}, <<Join("foe", "t")>>), Clear("u"), Perhaps(<<Maybe("u", "foe bench")>>),
        When({Is("foe bench"), No("u")}, <<Choose("u", "foe bench")>>), When({Is("u")},
        <<Remove("foe", "u"), Seat("foe", "u")>>)>>,
  _stoutland_odor_sleuth |-> <<StopIf(Some), Perhaps(<<Piles>>)>>,
  _stoutland_special_fang |-> <<Strike>>,
  _bouffalant_gold_breaker |-> <<Strike>>,
  _tornadus_wrapped_in_wind |-> <<StopIf(No("own")), StopIf(Some), Perhaps(<<Piles,
        Attach("own")>>)>>,
  _tornadus_hurricane |-> <<Blow, StopIf(Ended), OnlyIf({Is("own"), Is("own bench")}), StopIf(Some),
        Strip("own"), Choose("t", "own bench"), Attach("t")>>,
  _damage_rush |-> <<Strike>>,
  _mega_drain_30_breloom |-> <<Blow, When({Is("own")}, <<Heal("own")>>)>>]

(* effects/attacks.py:10094-10235 *)
Attacks10094 == [
  _trimming_mower |-> <<Blow, Perhaps(<<Note, Stadium>>)>>,
  _lurantis_petal_blade |-> <<StopIf(Some), Perhaps(<<Piles>>), Strike>>,
  _searching_eyes |-> <<>>,
  _mini_drain |-> <<Blow, When({Is("own")}, <<Heal("own")>>)>>,
  _energy_loop_steenee |-> <<Blow, OnlyIf({Is("own"), Some}), Perhaps(<<Strip("own"),
        Perhaps(<<Piles>>)>>)>>,
  _hydra_breath |-> <<StopIf(Some), Perhaps(<<Piles>>), When({Is("foe")}, <<Fell("foe"),
        Check("foe")>>)>>,
  _jet_cyclone |-> <<Blow, StopIf(Ended), OnlyIf({Is("own"), Is("own bench"), Some}), StopIf(Some),
        Choose("t", "own bench"), Perhaps(<<Strip("own"), Attach("t")>>)>>]

(* effects/attacks.py:10238-10382 *)
Attacks10238 == [
  _grass_kagura |-> <<StopIf(Some), StopIf(No("own play")), Maybe("t", "own play"), When({No("t")},
        <<Bind("t", "own")>>), Piles, Raise>>,
  _ogres_hammer |-> <<Blow, StopIf(Ended), When({Is("own")}, <<Mark("own")>>)>>,
  _punishing_fang |-> <<Strike>>,
  _double_headbutt |-> <<Strike>>,
  _flame_screen |-> <<Blow, When({Is("own")}, <<Mark("own")>>)>>,
  _ember_discard |-> <<Blow, When({Is("own"), Some}, <<Strip("own")>>)>>,
  _buddy_blast |-> <<Strike>>,
  _lava_burst |-> <<StopIf(Some), Repeat(<<When({Is("own"), Some}, <<Strip("own")>>)>>), Strike>>,
  _cruel_coal |-> <<When({Is("foe")}, <<Inflict("foe")>>)>>]

(* effects/attacks.py:10385-10527 *)
Attacks10385 == [
  _scorching_fire |-> <<Blow, When({Is("own"), Some}, <<Strip("own")>>)>>,
  _shining_feathers |-> <<Blow, Each("t", "own play", <<Heal("t")>>)>>,
  _inferno_kick_flurry |-> <<Blow, When({Is("own")}, <<Perhaps(<<Strip("own")>>)>>),
        StopIf(No("foe bench")), Choose("t", "foe bench"), Splash("t")>>,
  _singe |-> <<When({Is("foe")}, <<Inflict("foe")>>)>>,
  _fire_kagura |-> <<StopIf(Some), StopIf(No("own play")), Maybe("t", "own play"), When({No("t")},
        <<Bind("t", "own")>>), Piles, Raise>>,
  _bubble_beam |-> <<Blow, Perhaps(<<When({Is("foe")}, <<Inflict("foe")>>)>>)>>,
  _abrupt_flash |-> <<Strike>>,
  _splashing_panic |-> <<Piles, Strike>>]

(* effects/attacks.py:10530-10664 *)
Attacks10530 == [
  _swim_together |-> <<StopIf(Some), Piles>>,
  _undulate |-> <<Blow, Perhaps(<<When({Is("own")}, <<Mark("own")>>)>>)>>,
  _aqua_split |-> <<Blow, Each("t", "foe bench", <<Splash("t")>>)>>,
  _shell_press |-> <<Blow, When({Is("own")}, <<Mark("own")>>)>>,
  _crescendo_wave |-> <<Perhaps(<<When({Is("own")}, <<Repeat(<<Piles, Raise>>)>>)>>), Strike>>,
  _whirlpool_30 |-> <<Blow, When({Is("foe"), Some}, <<Strip("foe")>>)>>,
  _aqua_slash_140 |-> <<Blow, When({Is("own")}, <<Mark("own")>>)>>,
  _frozen_wood |-> <<Strike>>,
  _manual_wash |-> <<Blow, Each("t", "own play", <<Heal("t")>>)>>]

(* effects/attacks.py:10678-10795 *)
Attacks10678 == [
  _dive_60 |-> <<Blow, Perhaps(<<When({Is("own")}, <<Mark("own")>>)>>)>>,
  _crushing_press |-> <<Perhaps(<<Strike, Quit>>), Either(<<Note, Stadium, Strike>>, <<Strike>>)>>,
  _avenging_billow |-> <<Strike>>,
  _dynamic_dive |-> <<Either(<<When({Is("own")}, <<Recount("own")>>), Strike>>, <<Strike>>)>>,
  _water_kagura |-> <<StopIf(Some), StopIf(No("own play")), Maybe("t", "own play"), When({No("t")},
        <<Bind("t", "own")>>), Piles, Raise>>,
  _bubble_drain |-> <<Blow, When({Is("own")}, <<Heal("own")>>)>>]

(* effects/attacks.py:10798-10929 *)
Attacks10798 == [
  _dual_bolt |-> <<Each("t", "foe play", <<If({Is("foe")}, <<IfSame("t", "foe", <<Strike>>,
        <<Splash("t")>>)>>, <<Splash("t")>>)>>)>>,
  _high_voltage_press |-> <<Strike>>,
  _jamming_wing |-> <<Blow, OnlyIf({Is("foe"), Is("foe bench"), Some}), StopIf(Some), Choose("t",
        "foe bench"), Strip("foe"), Attach("t")>>,
  _wicked_thunder |-> <<Strike>>,
  _zapping_draw |-> <<Blow, Piles>>,
  _procurement_item |-> <<StopIf(Some), Piles>>,
  _thunder_shock_50 |-> <<Blow, Perhaps(<<When({Is("foe")}, <<Inflict("foe")>>)>>)>>]

(* effects/attacks.py:10932-10949 *)
Attacks10932 == [
  _flash_impact |-> <<Blow, StopIf(No("own bench")), Choose("t", "own bench"), Splash("t")>>]

(* effects/attacks.py:10968-11102 *)
Attacks10968 == [
  _thunder_raid |-> <<When({Is("own")}, <<Strip("own")>>), StopIf(NoneAmong("foe bench")),
        Choose("t", "foe bench"), Splash("t")>>,
  _hypnotic_ray |-> <<Blow, When({Is("foe")}, <<Inflict("foe")>>)>>,
  _bench_manipulation |-> <<StopIf(No("foe bench")), Perhaps(<<Strike>>)>>,
  _rocket_mirror |-> <<OnlyIf({Among("own bench"), Is("foe")}), Choose("t", "own bench"), Heal("t"),
        Recount("foe"), Check("foe")>>,
  _summoning_sign |-> <<StopIf(Some), Repeat(<<Piles, Recruit("own")>>), Perhaps(<<Piles>>)>>,
  _eerie_light |-> <<Blow, When({Is("foe")}, <<Inflict("foe")>>)>>,
  _clay_blast |-> <<Blow, When({Is("own")}, <<Strip("own")>>)>>]

(* effects/attacks.py:11105-11212 *)
Attacks11105 == [
  _chiming_commotion |-> <<StopIf(Some), Piles>>,
  _disruptive_radar |-> <<StopIf(Some), Perhaps(<<Piles>>)>>,
  _orbeetle_psychic |-> <<Strike>>,
  _wild_kick |-> <<Perhaps(<<Strike>>)>>,
  _primeape_drag_off |-> <<When({No("foe bench")}, <<Strike, Quit>>), Choose("t", "foe bench"),
        Bind("u", "foe"), Remove("foe", "t"), When({Is("u")}, <<Join("foe", "u")>>), Seat("foe",
        "t"), Strike>>,
  _impact_blow |-> <<Blow, When({Is("own")}, <<Mark("own")>>)>>,
  _impound |-> <<Blow, When({Is("foe")}, <<Mark("foe")>>)>>]

(* effects/attacks.py:11262-11402 *)
Attacks11262 == [
  _mountain_munch |-> <<Blow, Perhaps(<<Piles>>)>>,
  _explosive_ascension |-> <<Blow, StopIf(No("own")), StopIf(Some), Piles, Bind("t", "own"),
        Evolve("own"), Piles>>,
  _demolition_tackle |-> <<Blow, When({Is("foe"), Some}, <<Strip("foe")>>)>>,
  _mountain_drop |-> <<Strike>>,
  _steady_punch |-> <<Strike>>,
  _larvesta_peck_off |-> <<When({Is("foe"), Some}, <<Strip("foe")>>), Strike>>,
  _upside_down_draw |-> <<Perhaps(<<Piles>>)>>,
  _rabsca_ex_psychic |-> <<Strike>>,
  _harmonious_spirit_palm |-> <<Strike>>,
  _super_sandstorm |-> <<Blow, StopIf(Ended), Each("t", "all bench", <<Perhaps(<<Splash("t"),
        StopIf(Ended)>>)>>)>>]

(* effects/attacks.py:11405-11535 *)
Attacks11405 == [
  _running_charge |-> <<StopIf(Some), Strike>>,
  _pull_bench_to_active |-> <<StopIf(No("foe bench")), Choose("t", "foe bench"), Remove("foe", "t"),
        When({Is("foe")}, <<Join("foe", "foe")>>), Seat("foe", "t")>>,
  _reckless_charge_recoil30 |-> <<Blow, StopIf(Ended), When({Is("own")}, <<Hurt("own"),
        Check("own")>>)>>,
  _rock_kagura_attach |-> <<Perhaps(<<Raise>>), When({No("own play")}, <<Raise>>), Clear("t"),
        Perhaps(<<Maybe("t", "own play")>>), When({No("t")}, <<Bind("t", "own"), When({No("t")},
        <<Choose("t", "own bench")>>)>>), Piles, Attach("t"), Raise>>,
  _drag_down_paralyze |-> <<Perhaps(<<When({Is("foe")}, <<Cure("foe"), Inflict("foe")>>)>>)>>,
  _spinning_tail_all_opp |-> <<When({Is("foe")}, <<Strike, StopIf(Ended)>>), Each("t", "foe bench",
        <<Splash("t"), StopIf(Ended)>>)>>,
  _surprise_attack_30 |-> <<Perhaps(<<Strike>>)>>]

(* effects/attacks.py:11538-11682 *)
Attacks11538 == [
  _dark_awakening |-> <<When({NoneAmong("own play")}, <<Piles, Quit>>), Each("t", "own play",
        <<Perhaps(<<Continue>>), Perhaps(<<Continue>>), Maybe("u", "own play"), When({Is("u")},
        <<Rise("u"), When({Ended}, <<Break>>)>>)>>), Piles>>,
  _love_impact |-> <<Strike>>,
  _horn_rend |-> <<Strike>>,
  _tainted_horn |-> <<Blow, StopIf(Ended), When({Is("foe")}, <<Inflict("foe"), Mark("foe")>>)>>,
  _confuse_ray_30 |-> <<Blow, StopIf(Ended), When({Is("foe")}, <<Inflict("foe")>>)>>,
  _assassins_return |-> <<Blow, StopIf(Ended), StopIf(No("own")), Perhaps(<<Bind("t", "own"),
        Perhaps(<<Piles>>), Strip("t"), Perhaps(<<Piles>>), Strip("t"), Lift("own"), Away("t")>>)>>,
  _gooped_up |-> <<Blow, StopIf(Ended), When({Is("foe")}, <<Inflict("foe"), Mark("foe")>>)>>,
  _hazardous_venom |-> <<StopIf(No("foe")), StopIf(Some), Strike>>]

(* effects/attacks.py:11685-11834 *)
Attacks11685 == [
  _explode_together_now |-> <<StopIf(Some), Strike>>,
  _pointy_nails |-> <<Strike>>,
  _pointy_claws |-> <<Strike>>,
  _crunch_discard_energy |-> <<Blow, StopIf(Ended), When({Is("foe"), Some}, <<Strip("foe")>>)>>,
  _spiky_wheel |-> <<Strike>>,
  _vigorous_tackle |-> <<Strike>>,
  _boss_headbutt |-> <<Blow, When({Is("own")}, <<Mark("own")>>)>>,
  _hurricane_of_needles |-> <<StopIf(Some), Strike>>,
  _roost_skarmory |-> <<When({Is("own"), Some}, <<Heal("own")>>), When({Is("own")},
        <<Mark("own")>>)>>,
  _sonic_double |-> <<StopIf(No("foe play")), When({NoneAmong("foe play")}, <<Each("t", "foe play",
        <<IfSame("t", "foe", <<Strike>>, <<Splash("t")>>), StopIf(Ended)>>), Quit>>), Each("t",
        "foe play", <<Perhaps(<<Continue>>), IfSame("t", "foe", <<Strike>>, <<Splash("t")>>),
        StopIf(Ended)>>)>>,
  _dangerous_incisors |-> <<Blow, StopIf(Ended), When({Is("foe")}, <<Inflict("foe")>>)>>]

(* effects/attacks.py:11837-11981 *)
Attacks11837 == [
  _reckless_abandon |-> <<Blow, StopIf(Ended), Perhaps(<<When({Is("own")}, <<Hurt("own"),
        Check("own")>>)>>)>>,
  _cruel_slash |-> <<Blow, StopIf(Ended), When({Is("foe")}, <<Inflict("foe")>>)>>,
  _dizzy_punch |-> <<StopIf(Some), Strike>>,
  _clean_hit_tauros |-> <<Strike>>,
  _hacking |-> <<StopIf(Some), Perhaps(<<Piles>>), Perhaps(<<Piles>>)>>,
  _r_command |-> <<StopIf(Some), Strike>>,
  _add_on_draw3 |-> <<Piles>>,
  _gnaw_through |-> <<When({Is("foe"), Some}, <<Strip("foe")>>), Blow>>,
  _harden_prevent_60 |-> <<When({Is("own")}, <<Mark("own")>>)>>,
  _scale_hurricane |-> <<StopIf(Some), Strike, StopIf(Ended), Perhaps(<<When({Is("foe")},
        <<Cure("foe"), Inflict("foe")>>)>>)>>]

(* effects/attacks.py:11984-12133 *)
Attacks11984 == [
  _leech_life |-> <<Strike, StopIf(Ended), When({Is("own"), Some}, <<Heal("own")>>)>>,
  _spore_asleep |-> <<Blow, StopIf(Ended), When({Is("foe")}, <<Cure("foe"), Inflict("foe")>>)>>,
  _scissor_swing |-> <<Strike>>,
  _corner_cant_retreat |-> <<Blow, StopIf(Ended), When({Is("foe")}, <<Mark("foe")>>)>>,
  _champignon_swing |-> <<Strike>>,
  _shell_smack |-> <<Blow, StopIf(Ended), Perhaps(<<When({Is("own")}, <<Mark("own")>>)>>)>>,
  _poisonous_ploy |-> <<Blow, StopIf(Ended), When({Is("foe")}, <<Inflict("foe")>>),
        When({Is("own bench")}, <<Choose("t", "own bench"), Swap("own", "t")>>)>>,
  _leaf_drain |-> <<Blow, StopIf(Ended), When({Is("own"), Some}, <<Heal("own")>>)>>,
  _tons_of_treading |-> <<StopIf(Some), Strike>>,
  _magical_leaf |-> <<Blow, StopIf(Ended), Perhaps(<<Strike, StopIf(Ended), When({Is("own"), Some},
        <<Heal("own")>>)>>)>>]

(* effects/attacks.py:12136-12282 *)
Attacks12136 == [
  _rising_bloom |-> <<Strike>>,
  _searing_flame_flip |-> <<Blow, StopIf(Ended), Perhaps(<<When({Is("foe")},
        <<Inflict("foe")>>)>>)>>,
  _scorching_cyclone |-> <<Blow, StopIf(Ended), OnlyIf({Is("own"), Is("own bench"), Some}),
        StopIf(Some), Choose("t", "own bench"), Strip("own"), Attach("t")>>,
  _frigid_fluttering |-> <<Unless({Is("own"), Some}, <<Raise>>), Repeat(<<When({Is("own"), Some},
        <<Piles, Attach("own")>>)>>), Raise>>,
  _flail_damage_counters |-> <<StopIf(Some), Strike>>,
  _aqua_wash |-> <<Blow, StopIf(Ended), OnlyIf({Is("foe"), Some}), StopIf(Some), Strip("foe"),
        Perhaps(<<Piles>>)>>]

(* effects/attacks.py:12285-12434 *)
Attacks12285 == [
  _octo_beatdown |-> <<StopIf(Some), Strike>>,
  _hydro_pump_w_energy |-> <<Strike>>,
  _blizzard_regice |-> <<Strike, StopIf(Ended), Each("t", "foe bench", <<Splash("t"),
        StopIf(Ended)>>)>>,
  _purging_strike |-> <<Perhaps(<<Piles>>), Strike>>,
  _electromagnetic_catapult |-> <<Perhaps(<<Strike>>)>>,
  _megaton_fall |-> <<Blow, StopIf(Ended), When({Is("own")}, <<Hurt("own"), Check("own")>>)>>,
  _voltaic_chain |-> <<Strike>>,
  _thump_thump_boom |-> <<When({Is("own")}, <<Hurt("own"), Check("own")>>), StopIf(Ended),
        Perhaps(<<When({Is("foe")}, <<Fell("foe"), Check("foe")>>)>>)>>,
  _zapping_short |-> <<When({Is("foe"), Some}, <<Strip("foe")>>), Blow, StopIf(Ended),
        When({Is("foe"), Some}, <<Cure("foe")>>)>>,
  _toge_spark |-> <<Blow, StopIf(Ended), Perhaps(<<When({Is("own")}, <<Mark("own")>>)>>)>>,
  _linked_lightning |-> <<Strike>>]

(* effects/attacks.py:12437-12585 *)
Attacks12437 == [
  _retaliate_marowak |-> <<Strike>>,
  _mimic |-> <<Piles>>,
  _psy_bolt_flip |-> <<Blow, StopIf(Ended), Perhaps(<<When({Is("foe")}, <<Inflict("foe")>>)>>)>>,
  _conjoined_beams |-> <<Strike>>,
  _victory_symbol |-> <<Perhaps(<<Win("own")>>)>>,
  _hold_still |-> <<When({Is("own"), Some}, <<Heal("own")>>)>>,
  _inviting_flowers |-> <<StopIf(Some), Perhaps(<<Piles, Quit>>), Repeat(<<Perhaps(<<Continue>>),
        When({Among("own bench")}, <<Break>>), Perhaps(<<Piles, Recruit("own")>>)>>), Piles>>,
  _fade_out |-> <<Blow, StopIf(Ended), StopIf(No("own")), Bind("t", "own"), Perhaps(<<Piles>>),
        Strip("t"), Lift("own"), Away("t")>>]

(* effects/attacks.py:12588-12737 *)
Attacks12588 == [
  _mischievous_hands |-> <<StopIf(No("foe play")), When({NoneAmong("foe play")}, <<Each("t",
        "foe play", <<Hurt("t"), Check("t"), StopIf(Ended)>>), Quit>>), Each("t", "foe play",
        <<Perhaps(<<Continue>>), Hurt("t"), Check("t"), StopIf(Ended)>>)>>,
  _shadowy_knot |-> <<StopIf(No("foe")), StopIf(Some), Strike>>,
  _rumbling_march |-> <<Strike>>,
  _crunch_energy_discard |-> <<Blow, StopIf(Ended), Perhaps(<<When({Is("foe"), Some},
        <<Strip("foe")>>)>>)>>,
  _take_down_recoil |-> <<Blow, StopIf(Ended), When({Is("own")}, <<Hurt("own"), Check("own")>>)>>,
  _breaching_lariat |-> <<Strike>>,
  _focus_fist |-> <<Perhaps(<<Blow>>)>>,
  _dig_it_up |-> <<StopIf(Some), Perhaps(<<Piles>>)>>,
  _clamping_fangs |-> <<Strike>>]

(* effects/attacks.py:12740-12867 *)
Attacks12740 == [
  _turf_maker |-> <<Perhaps(<<Piles, Quit>>), Piles>>,
  _break_ground |-> <<Blow, StopIf(Ended), Each("t", "own bench", <<Hurt("t"), Check("t"),
        StopIf(Ended)>>)>>,
  _snipping_pincers |-> <<StopIf(No("foe")), Perhaps(<<Strip("foe")>>)>>,
  _crazy_blast |-> <<Strike>>,
  _cracking_stomp |-> <<Blow, StopIf(Ended), Perhaps(<<Piles>>)>>,
  _thieving_swipe |-> <<Blow, StopIf(Ended), StopIf(Some), Perhaps(<<Piles>>)>>,
  _torment_pangoro |-> <<Blow, StopIf(Ended), StopIf(No("foe")), StopIf(Some), Mark("foe")>>]

(* effects/attacks.py:12870-13016 *)
Attacks12870 == [
  _drop_shot |-> <<When({Is("own"), Some}, <<Strip("own")>>), StopIf(No("foe play")),
        When({No("foe bench")}, <<Strike, Quit>>), Clear("t"), Perhaps(<<Maybe("t", "foe play")>>),
        When({No("t")}, <<Bind("t", "foe"), When({No("t")}, <<Choose("t", "foe bench")>>)>>),
        IfSame("t", "foe", <<Strike>>, <<Splash("t")>>)>>,
  _double_spin |-> <<Perhaps(<<Strike>>)>>,
  _triple_smash |-> <<Perhaps(<<Strike>>)>>,
  _bounding_bite |-> <<Blow, StopIf(Ended), When({Is("own")}, <<Hurt("own"), Check("own")>>)>>,
  _spike_draw |-> <<Blow, StopIf(Ended), Piles>>,
  _shoot_through |-> <<Blow, StopIf(Ended), StopIf(No("foe bench")), Choose("t", "foe bench"),
        Splash("t")>>,
  _steel_wing_corviknight |-> <<Blow, StopIf(Ended), When({Is("own")}, <<Mark("own")>>)>>,
  _insta_strike |-> <<Blow, StopIf(Ended), StopIf(No("foe bench")), Choose("t", "foe bench"),
        Splash("t")>>,
  _brave_slash |-> <<Blow, When({Is("own")}, <<Mark("own")>>)>>]

(* effects/attacks.py:13019-13166 *)
Attacks13019 == [
  _reckless_charge |-> <<Blow, StopIf(Ended), When({Is("own")}, <<Hurt("own"), Check("own")>>)>>,
  _guard_press_shelgon |-> <<Blow, StopIf(Ended), When({Is("own")}, <<Mark("own")>>)>>,
  _wide_blast |-> <<StopIf(No("foe bench")), Each("t", "foe bench", <<Splash("t"),
        StopIf(Ended)>>)>>,
  _dragon_impact |-> <<When({Is("own")}, <<Perhaps(<<Strip("own")>>)>>), Strike>>,
  _dragons_fury |-> <<Blow, StopIf(Ended), StopIf(Some), StopIf(NoneAmong("own play")),
        Perhaps(<<Maybe("u", "own play")>>), When({No("u")}, <<Choose("u", "own play")>>), Piles,
        Attach("u")>>,
  _dynamic_press |-> <<Blow, StopIf(Ended), When({Is("own")}, <<Hurt("own"), Check("own")>>)>>,
  _tenacious_tail |-> <<StopIf(Some), Strike>>,
  _destructive_drill |-> <<Strike>>,
  _stealth_attack |-> <<Blow, StopIf(Ended), Perhaps(<<When({Is("own")}, <<Mark("own")>>)>>)>>]

(* effects/attacks.py:13169-13311 *)
Attacks13169 == [
  _fruit_bearing |-> <<StopIf(Some), Piles>>,
  _beckon |-> <<StopIf(Some), Perhaps(<<Piles>>)>>,
  _rapid_draw_attack |-> <<Blow, StopIf(Ended), Piles>>,
  _slumbering_smack |-> <<Strike, StopIf(Ended), When({Is("foe")}, <<Inflict("foe")>>),
        When({Is("own")}, <<Inflict("own")>>)>>,
  _gluttonous_tail |-> <<Blow, StopIf(Ended), Piles>>,
  _intimidating_stare |-> <<When({Is("foe")}, <<Mark("foe")>>)>>,
  _ceaseless_spitting |-> <<Perhaps(<<Strike>>)>>,
  _fickle_spitting |-> <<Perhaps(<<Blow>>)>>,
  _aromatic_stomps |-> <<Blow, StopIf(Ended), Perhaps(<<When({Is("foe")}, <<Mark("foe")>>)>>)>>,
  _add_on_draw2 |-> <<Piles>>]

(* effects/attacks.py:13329-13413 *)
Attacks13329 == [
  _leaflet_blessings |-> <<StopIf(No("own bench")), StopIf(Some), Choose("t", "own bench"), Piles,
        Attach("t"), Perhaps(<<Heal("t")>>)>>,
  _verdant_storm |-> <<StopIf(Some), Strike>>,
  _moss_agate |-> <<Blow, StopIf(Ended), Each("t", "own bench", <<Perhaps(<<Heal("t")>>)>>)>>]

(* effects/attacks.py:13427-13487 *)
Attacks13427 == [
  _burning_charge |-> <<Blow, StopIf(Ended), Unless({Is("own play"), Some}, <<Piles, Quit>>),
        Perhaps(<<Piles, Quit>>), Perhaps(<<Piles, Quit>>), Clear("t"), Perhaps(<<Maybe("t",
        "own play")>>), When({No("t")}, <<Bind("t", "own"), When({No("t")}, <<Choose("t",
        "own bench")>>)>>), Perhaps(<<Piles, Attach("t")>>), Piles>>]

(* effects/attacks.py:13501-13650 *)
Attacks13501 == [
  _dynamic_blaze |-> <<Strike, When({Is("own"), Some}, <<Strip("own")>>)>>,
  _wash_the_slate_clean |-> <<Blow, StopIf(Ended), OnlyIf({Is("foe"), Some}),
        Perhaps(<<Strip("foe")>>)>>,
  _whirlpool_b10 |-> <<Blow, StopIf(Ended), Perhaps(<<When({Is("foe"), Some}, <<Strip("foe")>>)>>)>>,
  _seaking_rapid_draw |-> <<Blow, StopIf(Ended), Piles>>,
  _severe_squall |-> <<Each("t", "foe play", <<Perhaps(<<Continue>>), IfSame("t", "foe", <<Strike>>,
        <<Splash("t")>>), StopIf(Ended)>>)>>,
  _overrun_b10 |-> <<Blow, StopIf(Ended), StopIf(No("foe bench")), Choose("t", "foe bench"),
        Splash("t")>>,
  _permeating_chill_b10 |-> <<Blow, StopIf(Ended), StopIf(No("foe")), Note>>,
  _frost_bullet |-> <<Blow, StopIf(Ended), StopIf(No("foe bench")), Choose("t", "foe bench"),
        Splash("t")>>]

(* effects/attacks.py:13653-13790 *)
Attacks13653 == [
  _euclase |-> <<StopIf(NoneAmong("foe play")), Choose("t", "foe play"), Fell("t"), Check("t")>>,
  _thunder_220 |-> <<Blow, StopIf(Ended), When({Is("own")}, <<Hurt("own"), Check("own")>>)>>,
  _flashing_spear |-> <<Blow, StopIf(Ended), StopIf(Some), Perhaps(<<Strike>>)>>,
  _volt_cyclone |-> <<Blow, StopIf(Ended), OnlyIf({Is("own"), Is("own bench"), Some}), StopIf(Some),
        Choose("t", "own bench"), Strip("own"), Attach("t")>>,
  _psych_out |-> <<Blow, StopIf(Ended), Perhaps(<<Piles>>)>>]

(* effects/attacks.py:13793-13854 *)
Attacks13793 == [
  _amazez |-> <<Each("t", "foe play", <<Fall("t")>>), Perhaps(<<Piles>>)>>,
  _magical_charm |-> <<Blow, StopIf(Ended), When({Is("foe")}, <<Mark("foe")>>)>>,
  _angelite_flag |-> <<>>,
  _hex_hurl |-> <<Blow, StopIf(Ended), StopIf(No("foe bench")), Repeat(<<When({No("foe bench")},
        <<Break>>), Clear("t"), Perhaps(<<Maybe("t", "foe bench")>>), When({Is("foe bench"),
        No("t")}, <<Choose("t", "foe bench")>>), When({Is("t")}, <<Splash("t")>>),
        StopIf(Ended)>>)>>]

(* effects/attacks.py:13868-14009 *)
Attacks13868 == [
  _tornado_rush_b10 |-> <<Strike>>,
  _land_collapse |-> <<Perhaps(<<Piles>>)>>,
  _moon_mirage |-> <<Blow, When({Is("foe"), No("over")}, <<Inflict("foe")>>)>>,
  _onyx |-> <<StopIf(No("own")), Strip("own"), Prize({"own"})>>,
  _call_to_muster |-> <<Perhaps(<<Piles, Quit>>), Repeat(<<Perhaps(<<Continue>>),
        When({No("own play")}, <<Break>>), Clear("t"), Perhaps(<<Maybe("t", "own play")>>),
        When({No("t")}, <<Bind("t", "own"), When({No("t")}, <<Choose("t", "own play")>>)>>), Piles,
        Attach("t")>>), Piles>>,
  _tyranitar_grind |-> <<StopIf(Some), Strike>>,
  _tyranitar_crush |-> <<Blow, StopIf(Ended), Perhaps(<<Piles>>)>>]

(* All of them.                                                             *)
AttackScripts2 == UNION {Range(Attacks7078), Range(Attacks7220), Range(Attacks7370),
    Range(Attacks7492), Range(Attacks7618), Range(Attacks7755), Range(Attacks7787),
    Range(Attacks7929), Range(Attacks8062), Range(Attacks8215), Range(Attacks8361),
    Range(Attacks8479), Range(Attacks8627), Range(Attacks8746), Range(Attacks8895),
    Range(Attacks9041), Range(Attacks9192), Range(Attacks9342), Range(Attacks9491),
    Range(Attacks9630), Range(Attacks9808), Range(Attacks9942), Range(Attacks10094),
    Range(Attacks10238), Range(Attacks10385), Range(Attacks10530), Range(Attacks10678),
    Range(Attacks10798), Range(Attacks10932), Range(Attacks10968), Range(Attacks11105),
    Range(Attacks11262), Range(Attacks11405), Range(Attacks11538), Range(Attacks11685),
    Range(Attacks11837), Range(Attacks11984), Range(Attacks12136), Range(Attacks12285),
    Range(Attacks12437), Range(Attacks12588), Range(Attacks12740), Range(Attacks12870),
    Range(Attacks13019), Range(Attacks13169), Range(Attacks13329), Range(Attacks13427),
    Range(Attacks13501), Range(Attacks13653), Range(Attacks13793), Range(Attacks13868)}
=============================================================================
