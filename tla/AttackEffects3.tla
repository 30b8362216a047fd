--------------------------- MODULE AttackEffects3 ---------------------------
(***************************************************************************)
(* The scripts of the attack handlers of effects/attacks.py, lines 14012   *)
(* to 21080, in their order: one record per run of consecutive handlers,   *)
(* one field per handler, named as in the code. EffectOps explains the     *)
(* operations.                                                             *)
(***************************************************************************)
EXTENDS EffectOps, Functions

(* effects/attacks.py:14012-14161 *)
Attacks14012 == [
  _vengeance_fletching |-> <<Strike>>,
  _raging_hammer_duraludon |-> <<Strike>>,
  _reckless_charge_eevee |-> <<Blow, StopIf(Ended), When({Is("own")}, <<Hurt("own"),
        Check("own")>>)>>,
  _toss_and_turn_press |-> <<StopIf(Some), Strike>>,
  _dig_b10 |-> <<Blow, StopIf(Ended), Perhaps(<<When({Is("own")}, <<Mark("own")>>)>>)>>,
  _moomoo_rolling |-> <<When({Is("own"), Some}, <<Strike>>)>>,
  _hyper_whirlpool |-> <<Blow, StopIf(Ended), Repeat(<<If({Is("foe"), Some}, <<Strip("foe")>>,
        <<Break>>)>>)>>,
  _assault_landing |-> <<Perhaps(<<Blow>>)>>,
  _jewel_breaker |-> <<Strike>>,
  _reflect_energy |-> <<Blow, StopIf(Ended), OnlyIf({Is("own"), Is("own bench"), Some}),
        StopIf(Some), Choose("t", "own bench"), Strip("own"), Attach("t")>>]

(* effects/attacks.py:14164-14310 *)
Attacks14164 == [
  _rising_tackle |-> <<Strike>>,
  _unified_beatdown_b10 |-> <<Strike>>,
  _precocious_evolution_flag |-> <<StopIf(No("own")), Bind("t", "own"), StopIf(Some),
        Repeat(<<When({Is("own"), Some}, <<Bind("u", "own"), Piles, Evolve("own"), Piles>>)>>)>>,
  _barrage_oclock |-> <<StopIf(Some), Strike>>,
  _vengeful_crush_durant |-> <<Strike>>,
  _wander_about |-> <<StopIf(No("own bench")), Choose("t", "own bench"), Swap("own", "t")>>,
  _evo_powder_flag |-> <<>>,
  _spiral_rush_b10 |-> <<Blow, StopIf(Ended), Perhaps(<<Strike>>)>>]

(* effects/attacks.py:14313-14449 *)
Attacks14313 == [
  _rescue_kedge |-> <<StopIf(Some), Perhaps(<<Piles>>)>>,
  _annihilating_anchor |-> <<When({Is("foe"), Some}, <<Strip("foe")>>), Blow>>,
  _zarude_leaf_drain |-> <<Blow, StopIf(Ended), When({Is("own"), Some}, <<Heal("own")>>)>>,
  _jungle_whip |-> <<Blow, StopIf(Ended), OnlyIf({Is("own"), Some}), StopIf(Some),
        Perhaps(<<Piles>>), Strip("own"), Strike>>,
  _counterturn |-> <<Strike>>,
  _hazardous_greed |-> <<Blow, StopIf(Ended), StopIf(Some), StopIf(No("foe bench")),
        Repeat(<<When({No("foe bench")}, <<Break>>), Clear("t"), Perhaps(<<Maybe("t",
        "foe bench")>>), When({Is("foe bench"), No("t")}, <<Choose("t", "foe bench")>>),
        When({Is("t")}, <<Splash("t")>>), StopIf(Ended)>>)>>]

(* effects/attacks.py:14452-14592 *)
Attacks14452 == [
  _entangling_whip |-> <<Blow, StopIf(Ended), Perhaps(<<Piles>>)>>,
  _rock_hurl |-> <<Strike>>,
  _corrosive_shards |-> <<Blow, StopIf(Ended), When({Is("foe")}, <<Inflict("foe")>>)>>,
  _destructive_flame |-> <<Blow, StopIf(Ended), Perhaps(<<When({Is("foe"), Some},
        <<Strip("foe")>>)>>)>>,
  _fighting_ex_bonus_90 |-> <<Strike>>,
  _spiral_drain_b11 |-> <<Blow, When({Is("own")}, <<Heal("own")>>)>>,
  _linear_attack_b11 |-> <<StopIf(No("foe play")), When({No("foe bench")}, <<Strike, Quit>>),
        Clear("t"), Perhaps(<<Maybe("t", "foe play")>>), When({No("t")}, <<Bind("t", "foe"),
        When({No("t")}, <<Choose("t", "foe bench")>>)>>), IfSame("t", "foe", <<Strike>>,
        <<Splash("t")>>)>>,
  _amp_you_very_much |-> <<Bind("t", "foe"), Blow, StopIf(Ended), When({Is("t"), Some},
        <<Prize({"own"})>>)>>,
  _psychic_assault_b11 |-> <<Strike>>]

(* effects/attacks.py:14595-14729 *)
Attacks14595 == [
  _psy_bolt_b11 |-> <<Blow, StopIf(Ended), Perhaps(<<When({Is("foe")}, <<Cure("foe"),
        Inflict("foe")>>)>>)>>,
  _roaring_scream |-> <<StopIf(Some), StopIf(No("foe play")), When({No("foe bench")},
        <<When({Is("foe")}, <<Strike>>), Quit>>), Clear("t"), Perhaps(<<Maybe("t", "foe play")>>),
        When({No("t")}, <<Bind("t", "foe"), When({No("t")}, <<Choose("t", "foe bench")>>)>>),
        IfSame("t", "foe", <<Strike>>, <<Splash("t")>>)>>,
  _swelling_power |-> <<StopIf(Some), Piles, When({Is("own")}, <<Raise>>)>>,
  _magma_purge |-> <<Each("t", "own play", <<Perhaps(<<Strip("t")>>), Perhaps(<<Break>>)>>),
        StopIf(Some), Strike>>,
  _earthen_spike |-> <<Blow, When({Is("own")}, <<Mark("own")>>)>>,
  _feint_attack_b11 |-> <<StopIf(No("foe play")), When({No("foe bench")}, <<Strike, Quit>>),
        Clear("t"), Perhaps(<<Maybe("t", "foe play")>>), When({No("t")}, <<Bind("t", "foe"),
        When({No("t")}, <<Choose("t", "foe bench")>>)>>), IfSame("t", "foe", <<Strike>>,
        <<Splash("t")>>)>>]

(* effects/attacks.py:14746-14861 *)
Attacks14746 == [
  _fire_soul |-> <<Blow, StopIf(Ended), StopIf(No("foe bench")), Clear("t"), Perhaps(<<Maybe("t",
        "foe bench")>>), When({Is("foe bench"), No("t")}, <<Choose("t", "foe bench")>>),
        When({Is("t")}, <<Splash("t")>>)>>,
  _spirited_tackle |-> <<Strike>>,
  _shining_blaze |-> <<Each("t", "own bench", <<Perhaps(<<Break>>)>>), Strike>>,
  _sunny_assist_flag |-> <<Blow, StopIf(Ended), OnlyIf({Is("own"), Is("own bench"), Some}),
        Choose("t", "own bench"), Strip("own"), Attach("t")>>,
  _double_smash |-> <<Perhaps(<<Strike>>)>>,
  _leech_life_30 |-> <<Strike, StopIf(Ended), When({Is("own"), Some}, <<Heal("own")>>)>>,
  _turbulent_wings |-> <<Blow, StopIf(Ended), When({Is("own")}, <<Hurt("own"), Check("own")>>)>>]

(* effects/attacks.py:14864-14990 *)
Attacks14864 == [
  _energy_assist_b12 |-> <<StopIf(No("own bench")), StopIf(Some), Choose("t", "own bench"),
        Perhaps(<<Piles, Attach("t")>>)>>,
  _fireworks_b12 |-> <<Blow, StopIf(Ended), When({Is("own"), Some}, <<Strip("own")>>)>>,
  _billowing_heat_wave |-> <<Blow, StopIf(Ended), Each("t", "own bench", <<Hurt("t"), Check("t"),
        StopIf(Ended)>>)>>,
  _heat_burn_b12 |-> <<Blow, StopIf(Ended), When({Is("foe")}, <<Inflict("foe")>>)>>,
  _crocalor_heat_breath |-> <<Strike>>,
  _torcherto |-> <<Strike>>,
  _charcadet_flamethrower |-> <<Blow, StopIf(Ended), When({Is("own"), Some}, <<Strip("own")>>)>>]

(* effects/attacks.py:14993-15129 *)
Attacks14993 == [
  _crimson_blaster |-> <<When({Is("own")}, <<Perhaps(<<Strip("own")>>)>>), StopIf(No("foe bench")),
        Choose("t", "foe bench"), Splash("t"), Check("t")>>,
  _cursed_edge |-> <<Each("t", "foe play", <<Perhaps(<<Strip("t")>>)>>)>>,
  _black_blaze_slash |-> <<Blow, StopIf(Ended), When({Is("own")}, <<Mark("own")>>)>>,
  _abyssal_flames |-> <<Strike>>,
  _raging_amethyst |-> <<Blow, StopIf(Ended), When({Is("own"), Some}, <<Strip("own")>>)>>,
  _spicy_rage |-> <<Strike>>,
  _blazing_charge |-> <<Strike>>,
  _upthrusting_horns |-> <<Blow, StopIf(Ended), OnlyIf({Is("foe"), Some}), StopIf(Some),
        Perhaps(<<Strip("foe"), Perhaps(<<Piles>>)>>)>>]

(* effects/attacks.py:15132-15270 *)
Attacks15132 == [
  _aqua_dive_50 |-> <<StopIf(No("foe play")), When({No("foe bench")}, <<Strike, Quit>>), Choose("t",
        "foe play"), IfSame("t", "foe", <<Strike>>, <<Splash("t")>>)>>,
  _leap_out_b12 |-> <<StopIf(No("own bench")), Choose("t", "own bench"), Swap("own", "t")>>,
  _hypno_splash |-> <<Blow, StopIf(Ended), When({Is("foe")}, <<Cure("foe"), Inflict("foe")>>)>>,
  _powder_snow_b12 |-> <<Blow, StopIf(Ended), When({Is("foe")}, <<Cure("foe"), Inflict("foe")>>)>>,
  _frigid_fangs_flag |-> <<Blow>>,
  _walrein_megaton |-> <<Blow, StopIf(Ended), When({Is("own")}, <<Hurt("own"), Check("own")>>)>>,
  _cryogonal_call_sign |-> <<StopIf(Some), Perhaps(<<Piles, Quit>>), Piles>>,
  _ice_beam_b12 |-> <<Blow, StopIf(Ended), Perhaps(<<When({Is("foe")}, <<Cure("foe"),
        Inflict("foe")>>)>>)>>]

(* effects/attacks.py:15273-15397 *)
Attacks15273 == [
  _ice_age |-> <<Blow, StopIf(Ended), When({Is("foe")}, <<Perhaps(<<Cure("foe"),
        Inflict("foe")>>)>>)>>,
  _black_frost |-> <<Blow, StopIf(Ended), When({Is("own")}, <<Hurt("own"), Check("own")>>)>>,
  _aerial_ace_10 |-> <<Blow, StopIf(Ended), Perhaps(<<Strike>>)>>,
  _draining_fin |-> <<Blow, StopIf(Ended), When({Is("own"), Some}, <<Heal("own")>>)>>,
  _gusting_collision |-> <<StopIf(Some), Strike>>,
  _topaz_bolt |-> <<Blow, StopIf(Ended), When({Is("own"), Some}, <<Perhaps(<<Strip("own")>>)>>)>>,
  _mighty_magnetism |-> <<Blow, StopIf(Ended), When({Is("foe")}, <<Inflict("foe"), Mark("foe")>>)>>,
  _zap_cannon |-> <<Blow, StopIf(Ended), When({Is("own")}, <<Mark("own")>>)>>,
  _crushing_pulse_flag |-> <<>>,
  _energy_short |-> <<StopIf(Some), Strike>>]

(* effects/attacks.py:15400-15534 *)
Attacks15400 == [
  _summon_lightning |-> <<StopIf(Some), Perhaps(<<Piles, Quit>>), Piles>>,
  _prize_count |-> <<Strike>>,
  _storm_bolt_flag |-> <<Blow>>,
  _return_charge_flag |-> <<>>,
  _thunder_lance |-> <<Strike>>,
  _code_protect_flag |-> <<Strike, StopIf(Ended), Note>>,
  _double_edge_azumarill |-> <<Blow, StopIf(Ended), When({Is("own")}, <<Hurt("own"),
        Check("own")>>)>>,
  _delightful_kiss |-> <<OnlyIf({Is("own bench"), Some}), Perhaps(<<Piles, Quit>>), Perhaps(<<Piles,
        Quit>>), Choose("t", "own bench"), Perhaps(<<Piles, Attach("t")>>), Piles>>]

(* effects/attacks.py:15537-15682 *)
Attacks15537 == [
  _painful_memories |-> <<Each("t", "foe play", <<IfSame("t", "foe", <<Strike, StopIf(Ended)>>,
        <<Splash("t"), StopIf(Ended)>>)>>)>>,
  _full_heart |-> <<StopIf(Some), StopIf(No("own play")), Repeat(<<Perhaps(<<Break>>), Choose("t",
        "own play"), Piles, Raise>>)>>,
  _guardian_burst |-> <<Perhaps(<<Strike>>)>>,
  _neurokinesis |-> <<Strike>>,
  _see_through |-> <<>>,
  _law_of_underworld |-> <<Each("t", "all play", <<Perhaps(<<Splash("t"), StopIf(Ended)>>)>>)>>,
  _electromagnetic_sonar |-> <<StopIf(Some), Perhaps(<<Piles>>)>>]

(* effects/attacks.py:15685-15831 *)
Attacks15685 == [
  _giga_impact |-> <<Blow, StopIf(Ended), When({Is("own")}, <<Mark("own")>>)>>,
  _dazzle_dance |-> <<Blow, StopIf(Ended), When({Is("foe")}, <<Inflict("foe")>>)>>,
  _sand_tomb |-> <<Blow, StopIf(Ended), When({Is("foe")}, <<Mark("foe")>>)>>,
  _barite_jail |-> <<Each("t", "foe bench", <<Perhaps(<<Hurt("t"), Check("t"), StopIf(Ended)>>)>>)>>,
  _mental_crush |-> <<Strike>>,
  _splashing_dodge_flag |-> <<Blow>>,
  _mystical_eyes |-> <<StopIf(NoneAmong("foe play")), If({Among("foe play")}, <<Choose("t",
        "foe play"), Fall("t")>>, <<Choose("u", "foe play"), Fall("u")>>)>>,
  _perplexing_transfer_flag |-> <<>>,
  _moonblast |-> <<Blow, StopIf(Ended), When({Is("foe")}, <<Mark("foe")>>)>>,
  _minor_errand_running |-> <<StopIf(Some), Perhaps(<<Piles, Quit>>), Piles>>,
  _dual_chop |-> <<Perhaps(<<Strike>>)>>]

(* effects/attacks.py:15834-15964 *)
Attacks15834 == [
  _sweep_the_leg |-> <<Blow, StopIf(Ended), Perhaps(<<When({Is("foe"), Some}, <<Strip("foe")>>)>>)>>,
  _tantrum |-> <<Blow, StopIf(Ended), When({Is("own")}, <<Inflict("own")>>)>>,
  _destined_fight |-> <<When({Is("foe")}, <<Fell("foe"), Check("foe"), StopIf(Ended)>>),
        When({Is("own")}, <<Fell("own"), Check("own")>>)>>,
  _blocking_stomp |-> <<Blow, StopIf(Ended), When({Is("foe")}, <<Perhaps(<<Mark("foe")>>)>>)>>,
  _knock_flat |-> <<Strike>>,
  _guarded_rolling |-> <<When({Is("own"), Some}, <<Perhaps(<<Strip("own")>>)>>), Blow,
        StopIf(Ended), When({Is("own")}, <<Mark("own")>>)>>,
  _screech_b12 |-> <<When({Is("foe")}, <<Mark("foe")>>)>>,
  _reversing_storm |-> <<Blow, StopIf(Ended), StopIf(No("own bench")), StopIf(Some), Choose("t",
        "own bench"), Swap("own", "t")>>]

(* effects/attacks.py:15967-16113 *)
Attacks15967 == [
  _sonic_peridot |-> <<Each("t", "foe play", <<Perhaps(<<Continue>>), IfSame("t", "foe", <<Strike>>,
        <<Splash("t")>>), StopIf(Ended)>>)>>,
  _burrow_b12 |-> <<Perhaps(<<Piles>>)>>,
  _digging_claw |-> <<Blow, StopIf(Ended), Perhaps(<<Piles>>)>>,
  _drill_smash |-> <<Each("t", "own bench", <<Perhaps(<<Break>>)>>), Strike>>,
  _fist_of_focus |-> <<Blow, StopIf(Ended), StopIf(No("own")), StopIf(Some), Piles, Attach("own")>>,
  _slight_intrusion |-> <<Blow, StopIf(Ended), When({Is("own")}, <<Hurt("own"), Check("own")>>)>>,
  _raging_tentacles_flag |-> <<Blow>>,
  _koraidon_onslaught_flag |-> <<Strike>>,
  _paralyzing_crackle |-> <<Strike, StopIf(Ended), Perhaps(<<When({Is("foe")}, <<Inflict("foe"),
        Perhaps(<<Strip("foe")>>)>>)>>)>>]

(* effects/attacks.py:16116-16138 *)
Attacks16116 == [
  _buster_swing |-> <<Strike>>,
  _corrosive_sludge |-> <<StopIf(No("foe")), Note>>]

(* effects/attacks.py:18334-18478 *)
Attacks18334 == [
  _stomp_off_b12 |-> <<Perhaps(<<Piles>>)>>,
  _crashing_headbutt |-> <<Blow, StopIf(Ended), Perhaps(<<Piles>>)>>,
  _obsidian |-> <<Blow, StopIf(Ended), Each("t", "foe bench", <<Splash("t")>>)>>,
  _surf_back |-> <<Blow, StopIf(Ended), When({Is("own"), Some}, <<Bind("t", "own"), Lift("own"),
        Strip("t"), Heal("t"), Cure("t"), Away("t"), Piles>>)>>,
  _mischievous_painting |-> <<StopIf(Some), StopIf(No("foe play")), Repeat(<<Perhaps(<<Continue>>),
        When({No("foe play")}, <<Break>>), Choose("t", "foe play"), Piles, Attach("t")>>)>>,
  _energized_graffiti |-> <<Strike>>,
  _trio_cheehoo |-> <<Perhaps(<<Strike>>)>>]

(* effects/attacks.py:18481-18582 *)
Attacks18481 == [
  _steel_wing |-> <<Blow, StopIf(Ended), When({Is("own")}, <<Mark("own")>>)>>,
  _raging_hammer |-> <<Strike>>,
  _shield_attack |-> <<Strike>>,
  _double_impact |-> <<Perhaps(<<Strike>>)>>,
  _stick_n_draw |-> <<Perhaps(<<Piles>>)>>,
  _duralubeam |-> <<Blow, StopIf(Ended), When({Is("own")}, <<Perhaps(<<Strip("own")>>)>>)>>,
  _metal_defender |-> <<Blow, StopIf(Ended), When({Is("own")}, <<Mark("own")>>)>>,
  _strike_it_rich |-> <<Strike>>,
  _surf_back_flag |-> <<Blow>>,
  _deleting_slash |-> <<Strike>>]

(* effects/attacks.py:18585-18678 *)
Attacks18585 == [
  _tropical_frenzy |-> <<Strike, StopIf(Ended), StopIf(Some), StopIf(No("own play")),
        Repeat(<<Perhaps(<<Continue>>), When({No("own play")}, <<Break>>), Choose("t", "own play"),
        Piles, Attach("t")>>)>>,
  _swinging_sphene |-> <<Either(<<When({Is("foe")}, <<Perhaps(<<Fell("foe"), Check("foe")>>)>>)>>,
        <<StopIf(No("own bench")), Choose("t", "own bench"), Fell("t"), Check("t")>>)>>]

(* effects/attacks.py:18681-18826 *)
Attacks18681 == [
  _humming_charge |-> <<Perhaps(<<Piles, Quit>>), When({No("own play")}, <<Piles, Quit>>),
        Repeat(<<Perhaps(<<Continue>>), When({No("own play")}, <<Break>>), Choose("t", "own play"),
        Piles, Attach("t")>>), Piles>>,
  _cotton_wings |-> <<Blow, StopIf(Ended), Perhaps(<<When({Is("own")}, <<Mark("own")>>)>>)>>,
  _time_manipulation |-> <<StopIf(Some), Piles>>,
  _space_crash |-> <<Strike>>,
  _fully_singe |-> <<StopIf(No("foe")), Perhaps(<<Strip("foe")>>)>>,
  _nutrients_b12 |-> <<When({Is("own"), Some}, <<Heal("own")>>)>>,
  _trip_over |-> <<Strike>>]

(* effects/attacks.py:18829-18967 *)
Attacks18829 == [
  _acidic_spit |-> <<Strike>>,
  _melting_sweetness |-> <<Blow, StopIf(Ended), When({Is("foe")}, <<Mark("foe")>>)>>,
  _wild_tackle |-> <<Blow, StopIf(Ended), When({Is("own")}, <<Hurt("own"), Check("own")>>)>>,
  _dyna_blast |-> <<Strike>>,
  _world_ender |-> <<StopIf(Some), Note, Stadium, Blow>>,
  _surprise_pump |-> <<Strike>>,
  _cinnabar_lure |-> <<StopIf(Some), Perhaps(<<Piles, Quit>>), Repeat(<<When({Among("own bench")},
        <<Break>>), Perhaps(<<Piles, Recruit("own")>>)>>), Piles>>,
  _take_it_easy |-> <<When({Is("own"), Some}, <<Heal("own")>>), When({Is("own")}, <<Mark("own")>>)>>,
  _great_swing |-> <<Blow, StopIf(Ended), When({Is("own"), Some}, <<Strip("own")>>)>>,
  _disarming_voice |-> <<Blow, StopIf(Ended), When({Is("foe")}, <<Inflict("foe")>>)>>]

(* effects/attacks.py:18970-19119 *)
Attacks18970 == [
  _fury_cutter |-> <<Strike>>,
  _lick_whip |-> <<Strike>>,
  _ready_to_ram |-> <<Blow, StopIf(Ended), When({Is("own")}, <<Mark("own")>>)>>,
  _smashing_headbutt |-> <<Blow, StopIf(Ended), When({Is("own")}, <<Perhaps(<<Strip("own")>>)>>)>>,
  _drag_off_braviary |-> <<When({No("foe bench")}, <<Strike, Quit>>), Choose("t", "foe bench"),
        Swap("foe", "t"), Strike>>,
  _parabolic_charge |-> <<Perhaps(<<Piles, Quit>>), Piles>>,
  _now_power_flag |-> <<Blow>>,
  _play_rough_b12 |-> <<Strike>>,
  _familial_march |-> <<Perhaps(<<Piles, Quit>>), Perhaps(<<Piles, Quit>>),
        Repeat(<<When({Among("own bench")}, <<Break>>), Perhaps(<<Piles, Recruit("own")>>)>>),
        Piles>>]

(* effects/attacks.py:19122-19265 *)
Attacks19122 == [
  _incessant_incisors |-> <<Perhaps(<<Strike>>)>>,
  _break_through |-> <<Blow, StopIf(Ended), When({Is("foe bench")}, <<Choose("t", "foe bench"),
        Splash("t")>>)>>,
  _zircon_road |-> <<Blow, StopIf(Ended), StopIf(Some), Piles>>,
  _precise_beak |-> <<Strike>>,
  _prism_charge |-> <<Unless({Among("own play"), Some}, <<Piles, Quit>>),
        Repeat(<<Perhaps(<<Continue>>), If({Among("own play")}, <<Choose("u", "own play")>>,
        <<Perhaps(<<Maybe("u", "own play")>>), When({No("u")}, <<Choose("u", "own play")>>)>>),
        Piles, Attach("u")>>), Piles>>,
  _swift_b12 |-> <<Strike>>,
  _miasma_wind |-> <<Strike>>]

(* effects/attacks.py:19268-19417 *)
Attacks19268 == [
  _nosh |-> <<When({Is("own"), Some}, <<Heal("own")>>)>>,
  _loom_over |-> <<Strike>>,
  _reaping_dash_flag |-> <<Blow>>,
  _breezy_gift |-> <<StopIf(No("own")), Bind("t", "own"), Perhaps(<<Piles>>), Perhaps(<<Piles>>),
        Strip("t"), Cure("t"), Heal("t"), Lift("own"), Away("t"), Piles, When({Is("own bench")},
        <<Choose("u", "own bench"), Leave("own", "u"), Seat("own", "u")>>), StopIf(Some), Piles>>,
  _coated_attack |-> <<Blow, StopIf(Ended), When({Is("own")}, <<Mark("own")>>)>>,
  _syrup_storm |-> <<Strike>>,
  _burning_run |-> <<Strike>>,
  _ring_of_fire |-> <<Blow, StopIf(Ended), When({Is("foe")}, <<Inflict("foe"), Mark("foe")>>)>>,
  _inferno_onrush |-> <<Blow, StopIf(Ended), When({Is("own")}, <<Hurt("own"), Check("own")>>)>>]

(* effects/attacks.py:19420-19567 *)
Attacks19420 == [
  _quick_attack_b12 |-> <<Strike>>,
  _flare_strike_scr |-> <<Blow, StopIf(Ended), When({Is("own")}, <<Mark("own")>>)>>,
  _garnet_volley_sv07 |-> <<StopIf(No("foe play")), Clear("t"), Perhaps(<<Maybe("t", "foe play")>>),
        When({No("t")}, <<Bind("t", "foe"), When({No("t")}, <<Choose("t", "foe bench")>>)>>),
        IfSame("t", "foe", <<Strike>>, <<Splash("t")>>)>>,
  _power_splash |-> <<Strike>>,
  _larimar_rain |-> <<OnlyIf({Is("own play"), Some}), StopIf(Some), Repeat(<<Perhaps(<<Continue>>),
        Clear("t"), Perhaps(<<Maybe("t", "own play")>>), When({No("t")}, <<If({Is("own")},
        <<Bind("t", "own")>>, <<Choose("t", "own play")>>)>>), Piles, Attach("t")>>), Piles>>,
  _return_b12 |-> <<Blow, StopIf(Ended), Perhaps(<<Piles>>)>>,
  _splashing_turn_flag |-> <<Blow, StopIf(Ended), StopIf(No("own bench")), Choose("t", "own bench"),
        Swap("own", "t")>>,
  _shifting_shuriken |-> <<Strike>>]

(* effects/attacks.py:19570-19698 *)
Attacks19570 == [
  _haymaker_scr |-> <<Blow, StopIf(Ended), When({Is("own")}, <<Mark("own")>>)>>,
  _hard_crunch |-> <<Strike>>,
  _sonic_edge |-> <<Strike>>,
  _unleash_lightning |-> <<Blow, StopIf(Ended), Note>>,
  _double_voltage |-> <<Perhaps(<<Strike>>)>>,
  _disorienting_flash |-> <<When({Is("foe")}, <<Inflict("foe"), Mark("foe")>>)>>,
  _thunderous_bolt |-> <<Blow, StopIf(Ended), When({Is("own")}, <<Mark("own")>>)>>,
  _jolting_charge_flag |-> <<>>,
  _charged_web |-> <<Strike>>,
  _fulgurite_flag |-> <<Blow>>,
  _parallel_placement_flag |-> <<>>,
  _volt_switch_flag |-> <<>>,
  _electrifying_chance |-> <<Blow, StopIf(Ended), When({Is("foe"), Some}, <<Inflict("foe")>>)>>,
  _combat_thunder |-> <<Strike>>,
  _targeted_spark |-> <<Strike>>]

(* effects/attacks.py:19701-19840 *)
Attacks19701 == [
  _dangle_tail |-> <<StopIf(Some), Perhaps(<<Piles>>)>>,
  _seek_inspiration_flag |-> <<>>,
  _expand_b13 |-> <<Blow, StopIf(Ended), When({Is("own")}, <<Mark("own")>>)>>,
  _everyone_explode_now |-> <<KeepSome("balloons", "own play"), Strike, StopIf(Ended), Each("t",
        "balloons", <<Splash("t"), StopIf(Ended)>>)>>,
  _flower_shower |-> <<Piles>>,
  _play_rough_b13 |-> <<Strike>>,
  _call_for_family_1 |-> <<StopIf(Some), Repeat(<<When({Among("own bench")}, <<Break>>),
        Perhaps(<<Piles, Recruit("own")>>)>>), Piles>>,
  _wonder_shine |-> <<Blow, StopIf(Ended), When({Is("foe")}, <<Inflict("foe")>>)>>,
  _adjusted_horn |-> <<StopIf(Some), Blow>>,
  _growl_marowak |-> <<When({Is("foe")}, <<Mark("foe")>>)>>]

(* effects/attacks.py:19843-19988 *)
Attacks19843 == [
  _bone_vengeance |-> <<Strike>>,
  _calm_mind_b13 |-> <<When({Is("own")}, <<Perhaps(<<Heal("own")>>)>>)>>,
  _double_smash_40 |-> <<StopIf(Some), Strike>>,
  _chi_atsu |-> <<StopIf(No("foe")), StopIf(Some), Graze("foe")>>,
  _yoga_kick |-> <<Strike>>,
  _knock_off_b13 |-> <<Blow, StopIf(Ended), Perhaps(<<Piles>>)>>,
  _gale_roundhouse |-> <<Strike>>,
  _leer_b13 |-> <<Perhaps(<<When({Is("foe")}, <<Inflict("foe")>>)>>)>>,
  _diffuse_reflection |-> <<Strike>>,
  _destructive_horn |-> <<Blow, StopIf(Ended), StopIf(Some), When({Is("foe"), Some},
        <<Strip("foe")>>)>>,
  _drill_run |-> <<Blow, StopIf(Ended), When({Is("foe"), Some}, <<Strip("foe")>>)>>,
  _resolute_fang |-> <<Strike>>]

(* effects/attacks.py:19991-20138 *)
Attacks19991 == [
  _super_poison_breath |-> <<Blow, StopIf(Ended), When({Is("foe")}, <<Inflict("foe")>>)>>,
  _devouring_mouth |-> <<Strike>>,
  _venomous_hit |-> <<Blow, StopIf(Ended), When({Is("foe")}, <<Inflict("foe")>>)>>,
  _tantrum_b13 |-> <<Blow, StopIf(Ended), When({Is("own")}, <<Inflict("own")>>)>>,
  _goad_n_grab_flag |-> <<StopIf(No("foe bench")), Bind("t", "foe"), Lift("foe"), When({Is("t")},
        <<Join("foe", "t")>>), Clear("u"), Perhaps(<<Maybe("u", "foe bench")>>),
        When({Is("foe bench"), No("u")}, <<Choose("u", "foe bench")>>), When({Is("u")},
        <<Remove("foe", "u"), Seat("foe", "u")>>), Strike>>,
  _knuckle_sandwich |-> <<Blow, StopIf(Ended), When({Is("own")}, <<Perhaps(<<Strip("own")>>)>>)>>,
  _reckless_charge_recoil20 |-> <<Blow, StopIf(Ended), When({Is("own")}, <<Hurt("own"),
        Check("own")>>)>>,
  _allure_b13 |-> <<Piles>>,
  _iron_tackle |-> <<Blow, StopIf(Ended), When({Is("own")}, <<Hurt("own"), Check("own")>>)>>,
  _hyper_ray |-> <<Blow, StopIf(Ended), When({Is("own"), Some}, <<Strip("own")>>)>>,
  _reforged_axe |-> <<OnlyIf({Is("own"), Some}), Strip("own"), Strike>>]

(* effects/attacks.py:20141-20288 *)
Attacks20141 == [
  _iron_swing |-> <<StopIf(Some), Strike>>,
  _raging_hammer_b13 |-> <<Strike>>,
  _iron_blaster |-> <<Blow, StopIf(Ended), When({Is("own")}, <<Mark("own")>>)>>,
  _rock_tomb |-> <<Blow, StopIf(Ended), When({Is("foe")}, <<Mark("foe")>>)>>,
  _thunderburst_storm |-> <<StopIf(Some), StopIf(No("foe play")), Clear("t"), Perhaps(<<Maybe("t",
        "foe play")>>), When({No("t")}, <<Bind("t", "foe"), When({No("t")}, <<Choose("t",
        "foe bench")>>)>>), IfSame("t", "foe", <<Strike>>, <<Splash("t")>>)>>,
  _triple_stab |-> <<StopIf(Some), Strike>>,
  _nyan_roll |-> <<Blow, StopIf(Ended), Perhaps(<<When({Is("own")}, <<Mark("own")>>)>>)>>,
  _boundless_power |-> <<Blow, StopIf(Ended), When({Is("own")}, <<Mark("own")>>)>>,
  _storm_barrier |-> <<Blow, StopIf(Ended), When({Is("own")}, <<Mark("own")>>)>>,
  _send_back_flag |-> <<Blow, StopIf(Ended), StopIf(No("foe bench")), Bind("t", "foe"), Lift("foe"),
        When({Is("t")}, <<Join("foe", "t")>>), Clear("u"), Perhaps(<<Maybe("u", "foe bench")>>),
        When({Is("foe bench"), No("u")}, <<Choose("u", "foe bench")>>), When({Is("u")},
        <<Remove("foe", "u"), Seat("foe", "u")>>)>>]

(* effects/attacks.py:20291-20432 *)
Attacks20291 == [
  _aero_chase |-> <<Strike>>,
  _knock_over_flag |-> <<Blow, StopIf(Ended), StopIf(Some), Perhaps(<<Note, Stadium>>)>>,
  _unified_beatdown_scr |-> <<Strike>>,
  _crown_opal_scr |-> <<Blow, StopIf(Ended), When({Is("own")}, <<Mark("own")>>)>>,
  _splashing_dodge |-> <<Blow, StopIf(Ended), Perhaps(<<When({Is("own")}, <<Mark("own")>>)>>)>>,
  _shocking_web |-> <<Strike>>,
  _add_on_b13 |-> <<Piles>>,
  _united_wings_flag |-> <<Strike>>,
  _stock_up_on_feathers |-> <<Perhaps(<<Piles>>)>>,
  _power_shot |-> <<StopIf(Some), Piles, Strike>>,
  _wood_hammer_b13 |-> <<Blow, StopIf(Ended), When({Is("own")}, <<Hurt("own"), Check("own")>>)>>,
  _snarl |-> <<Blow, StopIf(Ended), When({Is("foe")}, <<Mark("foe")>>)>>]

(* effects/attacks.py:20435-20582 *)
Attacks20435 == [
  _suction |-> <<Unless({Is("foe"), Is("own")}, <<Blow, Quit>>), Blow, StopIf(Ended), Use("foe"),
        When({Is("own"), Some}, <<Perhaps(<<Heal("own")>>)>>)>>,
  _anachronism_repulsor_flag |-> <<Blow, StopIf(Ended), When({Is("own")}, <<Mark("own")>>)>>,
  _hold_still_b13 |-> <<When({Is("own")}, <<Perhaps(<<Heal("own")>>)>>)>>,
  _call_for_backup |-> <<Perhaps(<<Piles, Quit>>), Piles>>,
  _call_for_backup_flag |-> <<>>,
  _kings_order |-> <<StopIf(Some), Repeat(<<When({Among("own bench")}, <<Break>>), Perhaps(<<Piles,
        Recruit("own")>>)>>)>>,
  _hydro_pump_sfa |-> <<Strike>>,
  _beset |-> <<Blow, StopIf(Ended), When({Is("foe")}, <<Mark("foe")>>)>>,
  _accelerator_flash |-> <<Strike>>]

(* effects/attacks.py:20585-20682 *)
Attacks20585 == [
  _accelerator_flash_flag |-> <<>>,
  _shattering_speed |-> <<Strike, StopIf(Ended), When({Is("own")}, <<Fell("own"), Check("own")>>)>>,
  _shattering_speed_flag |-> <<Blow>>,
  _eerie_gaze |-> <<Blow>>,
  _daydream_flag |-> <<Strike, StopIf(Ended), Note>>,
  _come_and_get_you_flag |-> <<When({Is("foe bench")}, <<Bind("t", "foe"), Lift("foe"),
        When({Is("t")}, <<Join("foe", "t")>>), Clear("u"), Perhaps(<<Maybe("u", "foe bench")>>),
        When({Is("foe bench"), No("u")}, <<Choose("u", "foe bench")>>), When({Is("u")},
        <<Remove("foe", "u"), Seat("foe", "u")>>)>>), Blow>>,
  _shadow_bind_b13 |-> <<Blow, StopIf(Ended), When({Is("foe")}, <<Mark("foe")>>)>>,
  _healing_pirouette |-> <<Each("t", "own play", <<Perhaps(<<Heal("t")>>)>>)>>]

(* effects/attacks.py:20685-20824 *)
Attacks20685 == [
  _mystical_return_flag |-> <<StopIf(Some), StopIf(No("foe bench")), Choose("t", "foe bench"),
        Remove("foe", "t"), Perhaps(<<Piles>>), Perhaps(<<Piles>>), Strip("t"), Heal("t"),
        Cure("t"), Away("t"), Piles>>,
  _crescent_purge_flag |-> <<Blow>>,
  _frog_hop |-> <<Strike>>,
  _clean_hit |-> <<Strike>>,
  _mad_bite_b13 |-> <<StopIf(No("foe")), Strike>>,
  _iron_smasher |-> <<Strike>>,
  _smashing_wing |-> <<Blow, StopIf(Ended), When({Is("own")}, <<Perhaps(<<Strip("own")>>)>>)>>,
  _lead_flag |-> <<>>,
  _pitch_black_blade |-> <<Blow, StopIf(Ended), When({Is("own")}, <<Mark("own")>>)>>,
  _poison_fang_crobat |-> <<Blow, StopIf(Ended), When({Is("foe")}, <<Inflict("foe"),
        Mark("foe")>>)>>]

(* effects/attacks.py:20827-20934 *)
Attacks20827 == [
  _darkfall |-> <<Strike>>,
  _double_scratch |-> <<StopIf(Some), Strike>>,
  _illusory_hijacking |-> <<StopIf(Some), Strike>>,
  _mischievous_tentacles_flag |-> <<StopIf(Some), Perhaps(<<Piles>>)>>,
  _colluding_tentacles_flag |-> <<StopIf(Some), StopIf(No("foe bench")), Choose("t", "foe bench"),
        Bind("u", "foe"), Remove("foe", "t"), Seat("foe", "t"), When({Is("u")}, <<Join("foe",
        "u")>>), Strike>>,
  _all_out_attack_flag |-> <<Strike>>]

(* effects/attacks.py:20937-21080 *)
Attacks20937 == [
  _colorful_confection |-> <<StopIf(No("own")), StopIf(Some), Perhaps(<<Piles, Quit>>), Piles>>,
  _swelling_wish_flag |-> <<StopIf(No("own bench")), StopIf(Some), Choose("t", "own bench"), Piles,
        Attach("t")>>,
  _corrosive_winds |-> <<StopIf(NoneAmong("foe play")), Each("t", "foe play", <<Hurt("t"),
        Check("t"), StopIf(Ended)>>)>>,
  _destructive_beam |-> <<Strike, StopIf(Ended), Perhaps(<<When({Is("foe"), Some},
        <<Strip("foe")>>)>>)>>,
  _chain_crazed |-> <<Strike>>,
  _dirty_headbutt |-> <<Strike, StopIf(Ended), When({Is("own")}, <<Mark("own")>>)>>]

(* All of them.                                                             *)
AttackScripts3 == UNION {Range(Attacks14012), Range(Attacks14164), Range(Attacks14313),
    Range(Attacks14452), Range(Attacks14595), Range(Attacks14746), Range(Attacks14864),
    Range(Attacks14993), Range(Attacks15132), Range(Attacks15273), Range(Attacks15400),
    Range(Attacks15537), Range(Attacks15685), Range(Attacks15834), Range(Attacks15967),
    Range(Attacks16116), Range(Attacks18334), Range(Attacks18481), Range(Attacks18585),
    Range(Attacks18681), Range(Attacks18829), Range(Attacks18970), Range(Attacks19122),
    Range(Attacks19268), Range(Attacks19420), Range(Attacks19570), Range(Attacks19701),
    Range(Attacks19843), Range(Attacks19991), Range(Attacks20141), Range(Attacks20291),
    Range(Attacks20435), Range(Attacks20585), Range(Attacks20685), Range(Attacks20827),
    Range(Attacks20937)}
=============================================================================
