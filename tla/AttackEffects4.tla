--------------------------- MODULE AttackEffects4 ---------------------------
(***************************************************************************)
(* The scripts of the attack handlers of effects/attacks.py, lines 21083   *)
(* to 28913, in their order: one record per run of consecutive handlers,   *)
(* one field per handler, named as in the code. EffectOps explains the     *)
(* operations.                                                             *)
(***************************************************************************)
EXTENDS EffectOps, Functions

(* effects/attacks.py:21083-21219 *)
Attacks21083 == [
  _poisonous_musculature |-> <<StopIf(No("own")), Perhaps(<<Piles, Attach("own")>>), Piles,
        Perhaps(<<Inflict("own")>>)>>,
  _nasal_lariat |-> <<Strike, When({No("over"), Some}, <<When({Is("own")}, <<Mark("own")>>)>>)>>,
  _rigidify |-> <<When({Is("own")}, <<Mark("own")>>)>>,
  _dragon_pulse_discard1 |-> <<Strike, StopIf(Ended), Perhaps(<<Piles>>)>>,
  _bring_down_the_axe |-> <<StopIf(No("foe")), Perhaps(<<Fell("foe"), Check("foe")>>)>>,
  _dragon_pulse_discard3 |-> <<Strike, StopIf(Ended), Perhaps(<<Piles>>)>>,
  _trifrost |-> <<When({Is("own"), Some}, <<Strip("own")>>), Strike, StopIf(Ended), Each("t",
        "foe bench", <<Splash("t"), StopIf(Ended)>>)>>,
  _fury_swipes_50 |-> <<Perhaps(<<Strike>>)>>]

(* effects/attacks.py:21222-21365 *)
Attacks21222 == [
  _colorful_catch_flag |-> <<Piles>>,
  _energy_assist_flag |-> <<Blow, StopIf(Ended), StopIf(No("own bench")), StopIf(Some), Choose("t",
        "own bench"), Piles, Attach("t")>>,
  _power_charger |-> <<Blow, StopIf(Ended), StopIf(No("own")), Perhaps(<<Piles, Quit>>), Piles,
        Attach("own"), Piles>>,
  _loom_over_twm |-> <<Perhaps(<<Strike>>)>>,
  _slow_crunch_flag |-> <<>>,
  _string_bind |-> <<Strike>>]

(* effects/attacks.py:21368-21461 *)
Attacks21368 == [
  _bullet_seed |-> <<Perhaps(<<Strike>>)>>,
  _redirected_sunlight |-> <<Perhaps(<<Strike>>)>>,
  _mega_drain_30 |-> <<Strike, StopIf(Ended), When({Is("own"), Some}, <<Heal("own")>>)>>,
  _quick_sign_flag |-> <<StopIf(Some), Perhaps(<<Piles, Quit>>), Perhaps(<<Piles, Quit>>),
        Repeat(<<When({Among("own bench")}, <<Break>>), Perhaps(<<Piles, Recruit("own")>>)>>),
        Piles>>,
  _coordinated_strike |-> <<Strike>>]

(* effects/attacks.py:21464-21608 *)
Attacks21464 == [
  _slowing_perfume |-> <<StopIf(Some), StopIf(No("foe bench")), Choose("t", "foe bench"),
        Remove("foe", "t"), Perhaps(<<Piles>>), Perhaps(<<Piles>>), Cure("t"), Heal("t"),
        Strip("t"), Away("t"), Piles>>,
  _leaflet_blessings_flag |-> <<>>,
  _leech_seed_phantump |-> <<Strike, StopIf(Ended), When({Is("own"), Some}, <<Heal("own")>>)>>,
  _giga_drain_twm |-> <<Blow, StopIf(Ended), StopIf(No("foe")), When({Is("own"), Some},
        <<Perhaps(<<Heal("own")>>)>>)>>,
  _drum_beating |-> <<Blow, StopIf(Ended), When({Is("foe")}, <<Mark("foe")>>)>>,
  _wood_hammer_50recoil |-> <<Blow, StopIf(Ended), When({Is("own")}, <<Hurt("own"),
        Check("own")>>)>>,
  _tumbling_attack |-> <<Strike>>,
  _do_the_wave_twm |-> <<Perhaps(<<Strike>>)>>]

(* effects/attacks.py:21611-21736 *)
Attacks21611 == [
  _recovery_net |-> <<StopIf(Some), Perhaps(<<Piles>>)>>,
  _avenging_edge |-> <<Strike>>,
  _tea_server_flag |-> <<StopIf(Some), Perhaps(<<Piles>>)>>,
  _cursed_drop_flag |-> <<Repeat(<<StopIf(Ended), StopIf(No("foe play")), Choose("t", "foe play"),
        IfSame("t", "foe", <<Hurt("foe"), Check("foe")>>, <<Splash("t")>>)>>)>>,
  _spill_the_tea_flag |-> <<StopIf(Some), Repeat(<<Each("t", "own play", <<Perhaps(<<Strip("t"),
        Break>>)>>)>>), Perhaps(<<Strike>>)>>]

(* effects/attacks.py:21739-21883 *)
Attacks21739 == [
  _re_brew_flag |-> <<StopIf(Some), StopIf(No("foe play")), Choose("t", "foe play"), IfSame("t",
        "foe", <<Hurt("foe"), Check("foe")>>, <<Splash("t")>>), Piles>>,
  _matcha_splash |-> <<Strike, StopIf(Ended), Each("t", "own play", <<Perhaps(<<Heal("t")>>)>>)>>,
  _mountain_stroll_flag |-> <<>>,
  _ogre_comeback |-> <<Strike>>,
  _eerie_glow_ninetales |-> <<Strike, StopIf(Ended), When({Is("foe")}, <<Inflict("foe")>>)>>,
  _hot_magma |-> <<Blow, StopIf(Ended), When({Is("foe")}, <<Inflict("foe")>>)>>,
  _ground_burn |-> <<Strike>>,
  _ramming_shell |-> <<Blow, StopIf(Ended), When({Is("own")}, <<Mark("own")>>)>>,
  _fire_spin_discard2 |-> <<Blow, StopIf(Ended), When({Is("own")}, <<Perhaps(<<Strip("own")>>)>>)>>,
  _firebreathing |-> <<Strike>>]

(* effects/attacks.py:21886-22035 *)
Attacks21886 == [
  _inferno_onrush_70 |-> <<Blow, StopIf(Ended), When({Is("own")}, <<Hurt("own"), Check("own")>>)>>,
  _mind_ruler |-> <<Perhaps(<<Strike>>)>>,
  _wrathful_hearth |-> <<Perhaps(<<Strike>>)>>,
  _tail_rap |-> <<Perhaps(<<Strike>>)>>,
  _hypnosis_twm |-> <<When({Is("foe")}, <<Inflict("foe")>>)>>,
  _double_slap |-> <<Perhaps(<<Strike>>)>>,
  _jumping_uppercut |-> <<Either(<<Strike, StopIf(Ended), When({Is("own")}, <<Bind("t", "own"),
        Lift("own"), Cure("t"), Away("t"), Piles, When({Is("own bench")}, <<Choose("u",
        "own bench"), Leave("own", "u"), Seat("own", "u")>>)>>)>>, <<Strike>>)>>,
  _whirlpool_coin |-> <<Blow, StopIf(Ended), Perhaps(<<When({Is("foe"), Some},
        <<Strip("foe")>>)>>)>>,
  _peck_off_flag |-> <<When({Is("foe"), Some}, <<Strip("foe")>>), Blow>>,
  _inviting_kiss_flag |-> <<Do(<<StopIf(Some), Repeat(<<When({Among("own bench")}, <<Break>>),
        Perhaps(<<Piles, Recruit("own")>>)>>), Piles>>), When({Among("own bench")}, <<Choose("t",
        "own bench"), Inflict("t")>>)>>,
  _snip_snip_flag |-> <<Blow, StopIf(Ended), Perhaps(<<Piles>>)>>]

(* effects/attacks.py:22038-22150 *)
Attacks22038 == [
  _rampaging_hammer |-> <<Blow, StopIf(Ended), When({Is("own")}, <<Mark("own")>>)>>,
  _flail_twm |-> <<Perhaps(<<Strike>>)>>,
  _permeating_chill_flag |-> <<>>,
  _energy_press |-> <<Perhaps(<<Strike>>)>>,
  _flock_flag |-> <<Perhaps(<<Piles, Quit>>), Perhaps(<<Piles, Quit>>),
        Repeat(<<When({Among("own bench")}, <<Break>>), Perhaps(<<Piles, Recruit("own")>>)>>),
        Piles>>,
  _spit_shot |-> <<When({Is("own"), Some}, <<Strip("own")>>), Strike>>,
  _aqua_slash |-> <<Blow, StopIf(Ended), When({Is("own")}, <<Mark("own")>>)>>,
  _giga_impact_palafin |-> <<Blow, StopIf(Ended), When({Is("own")}, <<Mark("own")>>)>>]

(* effects/attacks.py:22153-22302 *)
Attacks22153 == [
  _interjet_flag |-> <<Blow, StopIf(Ended), StopIf(No("own bench")), Choose("t", "own bench"),
        Swap("own", "t"), StopIf(No("foe bench")), Bind("u", "foe"), Lift("foe"), When({Is("u")},
        <<Join("foe", "u")>>), Clear("v"), Perhaps(<<Maybe("v", "foe bench")>>),
        When({Is("foe bench"), No("v")}, <<Choose("v", "foe bench")>>), When({Is("v")},
        <<Remove("foe", "v"), Seat("foe", "v")>>)>>,
  _aurora_gain |-> <<Blow, StopIf(Ended), When({Is("own"), Some}, <<Heal("own")>>)>>,
  _undulating_slice |-> <<StopIf(No("own")), Perhaps(<<Graze("own")>>), Strike>>,
  _thunder_wave_paralyze |-> <<Perhaps(<<When({Is("foe")}, <<Inflict("foe")>>)>>)>>,
  _thunderbolt_twm |-> <<Blow, StopIf(Ended), When({Is("own"), Some}, <<Strip("own")>>)>>,
  _curiosity_shinx |-> <<>>,
  _piercing_gaze |-> <<Blow, StopIf(Ended), StopIf(Some), Perhaps(<<Piles>>)>>,
  _volt_strike |-> <<Blow, StopIf(Ended), When({Is("own"), Some}, <<Strip("own")>>)>>]

(* effects/attacks.py:22305-22417 *)
Attacks22305 == [
  _sky_wave |-> <<Blow, StopIf(Ended), Each("t", "foe bench", <<Splash("t"), StopIf(Ended)>>),
        Each("t", "own bench", <<Splash("t"), StopIf(Ended)>>)>>,
  _wild_charge_twm |-> <<Blow, StopIf(Ended), When({Is("own")}, <<Hurt("own"), Check("own")>>)>>,
  _pick_and_stick |-> <<StopIf(No("own play")), Repeat(<<Perhaps(<<Break>>), Choose("t",
        "own play"), Piles, Attach("t")>>)>>,
  _wind_power_charge |-> <<Blow, StopIf(Ended), When({Is("own")}, <<Mark("own")>>)>>,
  _volt_cyclone_flag |-> <<Blow>>,
  _metronome_flag |-> <<>>,
  _psychic_kadabra |-> <<Strike>>,
  _astonish |-> <<Blow, StopIf(Ended), StopIf(Some), Piles>>]

(* effects/attacks.py:22426-22525 *)
Attacks22426 == [
  _strange_hacking_flag |-> <<When({Is("foe")}, <<Inflict("foe")>>), OnlyIf({Among("foe play")}),
        Choose("t", "foe play"), StopIf(NoneAmong("foe play")), Choose("u", "foe play"), Heal("t"),
        Hurt("u"), Check("u")>>,
  _psychic_alakazam_twm |-> <<Strike>>,
  _dual_headbutt |-> <<Blow, StopIf(Ended), When({Is("foe bench")}, <<Choose("t", "foe bench"),
        Splash("t"), Check("t")>>)>>,
  _one_derful_rumble |-> <<StopIf(Some), Strike>>,
  _eerie_wave |-> <<Blow, StopIf(Ended), When({Is("foe")}, <<Inflict("foe")>>)>>]

(* effects/attacks.py:22530-22670 *)
Attacks22530 == [
  _homeward_chime_flag |-> <<StopIf(No("own bench")), Choose("t", "own bench"), Remove("own", "t"),
        Perhaps(<<Piles>>), Perhaps(<<Piles>>), Strip("t"), Heal("t"), Cure("t"), Away("t"), Piles>>,
  _bind_wound |-> <<When({Is("own")}, <<Heal("own")>>)>>,
  _minor_errand_running_flag |-> <<>>,
  _sneaky_placement |-> <<StopIf(No("foe play")), Choose("t", "foe play"), IfSame("t", "foe",
        <<Hurt("foe"), Check("foe")>>, <<Splash("t")>>)>>,
  _slurp_slurp |-> <<Either(<<When({Is("foe")}, <<Inflict("foe")>>)>>, <<Strike>>)>>,
  _sand_attack_flag |-> <<Blow, StopIf(Ended), When({Is("foe")}, <<Mark("foe")>>)>>,
  _scream_flag |-> <<>>]

(* effects/attacks.py:22675-22816 *)
Attacks22675 == [
  _sandslash_earthquake |-> <<Blow, StopIf(Ended), Each("t", "own bench", <<Hurt("t"), Check("t"),
        StopIf(Ended)>>)>>,
  _blazing_destruction |-> <<Perhaps(<<Note, Stadium>>)>>,
  _proud_fangs |-> <<Strike>>,
  _searing_flame |-> <<Blow, StopIf(Ended), When({Is("foe")}, <<Inflict("foe")>>)>>,
  _assault_laser |-> <<Strike>>,
  _best_punch_timburr |-> <<Perhaps(<<Blow>>)>>,
  _superpower |-> <<Strike, StopIf(Ended), Perhaps(<<When({Is("own")}, <<Hurt("own"),
        Check("own")>>)>>)>>,
  _tantrum_conkeldurr |-> <<Blow, StopIf(Ended), When({Is("own")}, <<Inflict("own")>>)>>,
  _gutsy_swing_flag |-> <<Blow>>,
  _prize_count_hawlucha |-> <<Strike>>,
  _rock_shot |-> <<Blow, StopIf(Ended), When({Is("own"), Some}, <<Strip("own")>>)>>]

(* effects/attacks.py:22821-22965 *)
Attacks22821 == [
  _stun_poison |-> <<Blow, StopIf(Ended), Perhaps(<<When({Is("foe")}, <<Inflict("foe")>>)>>)>>,
  _venoshock_100 |-> <<Strike>>,
  _ground_crasher |-> <<Blow, StopIf(Ended), StopIf(Some), Note, Stadium, Each("t", "foe bench",
        <<Hurt("t"), Check("t"), StopIf(Ended)>>)>>,
  _continuous_steps |-> <<StopIf(Some), Strike>>,
  _hunting_pack |-> <<Strike>>,
  _corner |-> <<Blow, StopIf(Ended), When({Is("foe")}, <<Mark("foe")>>)>>,
  _spit_poison |-> <<When({Is("foe")}, <<Inflict("foe")>>)>>,
  _dastardly_jab_flag |-> <<>>,
  _big_storm |-> <<Blow, StopIf(Ended), Perhaps(<<Note, Stadium>>)>>,
  _angry_slam |-> <<StopIf(Some), Strike>>,
  _guard_claw |-> <<Blow, StopIf(Ended), When({Is("own")}, <<Mark("own")>>)>>]

(* effects/attacks.py:22970-23116 *)
Attacks22970 == [
  _steel_burst_heatran |-> <<StopIf(No("own")), Perhaps(<<Strip("own")>>), StopIf(Some), Strike>>,
  _metal_coating |-> <<StopIf(No("own")), StopIf(Some), Attach("own")>>,
  _rally_back |-> <<Strike>>,
  _mach_cut |-> <<Blow, StopIf(Ended), When({Is("foe"), Some}, <<Perhaps(<<Strip("foe")>>)>>)>>,
  _lucky_attachment |-> <<StopIf(No("own")), StopIf(Some), Attach("own")>>,
  _return_blissey |-> <<Blow, StopIf(Ended), Perhaps(<<Piles>>)>>,
  _but_first_food |-> <<StopIf(No("own")), StopIf(Some), Attach("own"), Heal("own")>>]

(* effects/attacks.py:23121-23260 *)
Attacks23121 == [
  _fighting_wings_twm140 |-> <<Strike>>,
  _slashing_strike |-> <<Blow, StopIf(Ended), When({Is("own")}, <<Mark("own")>>)>>,
  _comet_slap |-> <<StopIf(Some), Strike>>,
  _expelling_tornado_flag |-> <<>>,
  _energy_loop |-> <<Blow, StopIf(Ended), When({Is("own"), Some}, <<Strip("own"),
        Perhaps(<<Piles>>)>>)>>,
  _double_headbutt_shroomish |-> <<StopIf(Some), Strike>>,
  _bind_down |-> <<Blow, StopIf(Ended), When({Is("foe")}, <<Mark("foe")>>)>>,
  _forest_march |-> <<StopIf(Some), Strike>>,
  _jungle_hammer |-> <<Blow, StopIf(Ended), When({Is("own")}, <<Heal("own")>>)>>]

(* effects/attacks.py:23265-23402 *)
Attacks23265 == [
  _pinpoint_dive |-> <<StopIf(NoneAmong("foe bench")), Choose("t", "foe bench"), Hurt("t"),
        Check("t")>>,
  _triple_spin |-> <<StopIf(Some), Strike>>,
  _leaf_litter_tackle |-> <<Blow, StopIf(Ended), When({Is("own"), Some},
        <<Perhaps(<<Strip("own")>>)>>)>>,
  _steel_anchor |-> <<Each("t", "own bench", <<Perhaps(<<Break>>)>>), Strike>>,
  _powerful_needles |-> <<StopIf(Some), Strike>>,
  _charge_energy_flag |-> <<>>,
  _inferno_onrush_30 |-> <<Blow, StopIf(Ended), When({Is("own")}, <<Hurt("own"), Check("own")>>)>>,
  _roasting_heat |-> <<Strike>>,
  _licking_flames |-> <<Blow, StopIf(Ended), StopIf(No("own")), Perhaps(<<Strip("own")>>)>>]

(* effects/attacks.py:23407-23553 *)
Attacks23407 == [
  _flare_strike_tef33 |-> <<Blow, StopIf(Ended), When({Is("own")}, <<Mark("own")>>)>>,
  _blaze_blast |-> <<Blow, StopIf(Ended), When({Is("foe")}, <<Inflict("foe")>>)>>,
  _spit_out_shot |-> <<StopIf(No("foe bench")), Choose("t", "foe bench"), Splash("t"), Check("t")>>,
  _charring_breath |-> <<When({Is("foe"), Some}, <<Strike>>)>>,
  _blaze_blitz |-> <<Blow, StopIf(Ended), When({Is("own")}, <<Mark("own")>>)>>,
  _reverse_thrust |-> <<Blow, StopIf(Ended), StopIf(No("own bench")), Choose("t", "own bench"),
        Swap("own", "t")>>,
  _giant_wave |-> <<Blow, StopIf(Ended), When({Is("own")}, <<Mark("own")>>)>>,
  _chew_off |-> <<Blow, StopIf(Ended), Perhaps(<<Piles>>)>>,
  _rapid_draw |-> <<Blow, StopIf(Ended), Piles>>]

(* effects/attacks.py:23811-23959 *)
Attacks23811 == [
  _ascension_eevee |-> <<StopIf(No("own")), Perhaps(<<Piles, Quit>>), Rise("own"), Piles>>,
  _ascension_eevee_flag |-> <<>>,
  _syrup_catcher_flag |-> <<>>,
  _chili_snapper_bind |-> <<When({Is("foe")}, <<Cure("foe"), Inflict("foe"), Mark("foe")>>)>>,
  _two_headed_crushing_flag |-> <<Blow, StopIf(Ended), Perhaps(<<Piles>>), Perhaps(<<Piles>>)>>,
  _flippity_flap_flag |-> <<Piles>>,
  _singe_off_b15 |-> <<Blow, StopIf(Ended), When({Is("foe"), Some}, <<Perhaps(<<Strip("foe")>>)>>)>>,
  _lucky_find_flag |-> <<>>,
  _aqua_bomb_recoil20 |-> <<Blow, StopIf(Ended), When({Is("own")}, <<Hurt("own"), Check("own")>>)>>,
  _vanguard_punch_b16 |-> <<Strike, StopIf(Ended), When({Is("own"), Some}, <<Hurt("own"),
        Check("own")>>)>>]

(* effects/attacks.py:23962-24101 *)
Attacks23962 == [
  _double_hit_b16 |-> <<Perhaps(<<Strike>>)>>,
  _catharsis_roar_b16 |-> <<Strike>>,
  _random_spark_flag |-> <<StopIf(No("foe play")), Choose("t", "foe play"), If({Is("foe")},
        <<IfSame("t", "foe", <<Strike>>, <<Splash("t")>>)>>, <<Splash("t")>>)>>,
  _collateral_bolts_flag |-> <<>>,
  _short_circuit_knuckle_b16 |-> <<Strike>>,
  _circuit_cannon_b16 |-> <<Strike>>,
  _electrifying_dash_flag |-> <<Blow>>,
  _tricolor_pump_flag |-> <<>>,
  _superalloy_hands_b16 |-> <<Strike>>,
  _destructo_press_flag |-> <<StopIf(Some), Perhaps(<<Strike, StopIf(Ended)>>), Piles>>]

(* effects/attacks.py:24157-24286 *)
Attacks24157 == [
  _eerie_wave_b16 |-> <<Blow, StopIf(Ended), When({Is("foe")}, <<Inflict("foe")>>)>>,
  _ball_roll_b16 |-> <<Perhaps(<<Strike>>)>>,
  _play_rough_b16 |-> <<Strike>>,
  _psychic_assault_b16 |-> <<Strike>>,
  _mirror_attack_b16 |-> <<Strike>>,
  _evolution_jammer_flag |-> <<Blow, StopIf(Ended), Note>>,
  _double_trick_b16 |-> <<Perhaps(<<Strike>>)>>,
  _summoning_gate_flag |-> <<>>,
  _brain_shake_b16 |-> <<Blow, StopIf(Ended), When({Is("foe")}, <<Inflict("foe")>>)>>,
  _iron_defense_b16 |-> <<Perhaps(<<When({Is("own")}, <<Mark("own")>>)>>)>>,
  _cosmic_beatdown_b16 |-> <<Perhaps(<<Strike>>)>>]

(* effects/attacks.py:24291-24430 *)
Attacks24291 == [
  _plentiful_pollen_flag |-> <<Blow, StopIf(Ended), StopIf(No("foe")), Note>>,
  _supportive_singing_flag |-> <<StopIf(NoneAmong("own bench")), Choose("t", "own bench"),
        Heal("t")>>,
  _hex_hurl_flag |-> <<Blow>>,
  _gemini_laser_b16 |-> <<Strike, StopIf(Ended), When({Is("foe bench")}, <<Choose("t", "foe bench"),
        Splash("t")>>)>>,
  _self_lock1_b16 |-> <<Blow, StopIf(Ended), When({Is("own")}, <<Mark("own")>>)>>,
  _calculation_flag |-> <<>>,
  _majestic_sword_flag |-> <<Strike>>,
  _twin_shotels_flag |-> <<StopIf(No("foe")), Strike, StopIf(Ended), StopIf(No("foe bench")),
        Choose("t", "foe bench"), Splash("t")>>]

(* effects/attacks.py:24435-24576 *)
Attacks24435 == [
  _wild_tackle_b16 |-> <<Blow, StopIf(Ended), When({Is("own")}, <<Hurt("own"), Check("own")>>)>>,
  _fighting_fist_b16 |-> <<Strike>>,
  _turbo_edge_flag |-> <<Blow, StopIf(Ended), StopIf(No("own bench")), StopIf(Some),
        Repeat(<<Unless({Is("own bench"), Some}, <<Continue>>), Choose("t", "own bench"), Piles,
        Attach("t")>>)>>,
  _mud_stock_flag |-> <<Each("t", "own bench", <<Perhaps(<<Break>>), Piles, Attach("t")>>)>>,
  _recoil40_b16 |-> <<Blow, StopIf(Ended), When({Is("own")}, <<Hurt("own"), Check("own")>>)>>,
  _knock_away_b16 |-> <<Strike>>,
  _gatling_tar_b16 |-> <<Strike>>,
  _cragalanche_b16 |-> <<Blow, StopIf(Ended), Perhaps(<<Piles>>)>>]

(* effects/attacks.py:24581-24730 *)
Attacks24581 == [
  _wrathful_charge_b16 |-> <<Strike>>,
  _land_collapse_flag |-> <<Perhaps(<<Piles>>)>>,
  _magnetic_burst_b16 |-> <<Strike>>,
  _repulsor_axe_flag |-> <<Blow, StopIf(Ended), When({Is("own")}, <<Mark("own")>>)>>,
  _discard_2_energy_self_b16 |-> <<Blow, StopIf(Ended), OnlyIf({Is("own"), Some}),
        Perhaps(<<Strip("own"), Quit>>), Perhaps(<<Strip("own")>>)>>,
  _poison_blend_b16 |-> <<When({Is("foe"), Some}, <<Inflict("foe")>>)>>,
  _panic_poison_b16 |-> <<When({Is("foe")}, <<Inflict("foe")>>)>>,
  _mysterious_beam_b16 |-> <<Perhaps(<<When({Is("foe"), Some}, <<Strip("foe")>>)>>)>>,
  _tricky_steps_flag |-> <<Blow>>,
  _gnaw_off_b16 |-> <<Strike>>]

(* effects/attacks.py:24735-24874 *)
Attacks24735 == [
  _kick_away_flag |-> <<Blow>>,
  _damage_collection_flag |-> <<>>,
  _dirty_beam_b16 |-> <<Blow, StopIf(Ended), When({Is("foe bench")}, <<Choose("t", "foe bench"),
        Splash("t")>>)>>,
  _spike_cannon_b16 |-> <<Perhaps(<<Strike>>)>>,
  _steel_wing_b16 |-> <<Blow, StopIf(Ended), When({Is("own")}, <<Mark("own")>>)>>,
  _cross_breaker_flag |-> <<>>,
  _invite_and_strike_flag |-> <<>>,
  _meteor_mash_flag |-> <<Strike>>,
  _wheel_pass_flag |-> <<Blow>>,
  _primordial_beatdown_b16 |-> <<Perhaps(<<Strike>>)>>,
  _shred_b16 |-> <<Strike>>,
  _retribution_strike_b16 |-> <<Strike>>,
  _kaiser_tackle_b16 |-> <<Blow, StopIf(Ended), When({Is("own")}, <<Hurt("own"), Check("own")>>)>>]

(* effects/attacks.py:24879-24988 *)
Attacks24879 == [
  _peak_acceleration_flag |-> <<Strike, StopIf(Ended), OnlyIf({Among("own play"), Some}),
        StopIf(Some), Choose("t", "own play"), Perhaps(<<Piles, Attach("t")>>), Piles>>,
  _repulsion_bolt_b16 |-> <<Strike>>,
  _tongue_pull_flag |-> <<>>,
  _tonguenado_b16 |-> <<Perhaps(<<Strike>>)>>,
  _silent_wing_b16 |-> <<Blow>>,
  _talon_hunt_flag |-> <<Blow>>,
  _tail_trickery_b16 |-> <<Blow, StopIf(Ended), When({Is("foe")}, <<Inflict("foe")>>)>>]

(* effects/attacks.py:24991-25124 *)
Attacks24991 == [
  _energy_blender |-> <<Blow, StopIf(Ended), StopIf(NoneAmong("own play")), StopIf(Some),
        Perhaps(<<Maybe("t", "own play")>>), When({No("t")}, <<Choose("t", "own play")>>),
        StopIf(NoneAmong("own play")), Choose("u", "own play"), Attach("u"), Strip("t")>>,
  _cappella_flag |-> <<>>,
  _opposing_winds_flag |-> <<Blow>>,
  _cleaning_up_flag |-> <<Repeat(<<When({NoneAmong("foe play")}, <<Break>>), Perhaps(<<Break>>),
        Choose("t", "foe play"), Strip("t")>>)>>,
  _special_roll_b16 |-> <<Perhaps(<<Strike>>)>>,
  _raging_cannon_b16 |-> <<Strike>>,
  _bring_down_flag |-> <<>>]

(* effects/attacks.py:25129-25227 *)
Attacks25129 == [
  _powerful_hand_b16 |-> <<StopIf(No("foe")), StopIf(Some), Hurt("foe"), Check("foe")>>,
  _drifloon_pull_flag |-> <<>>,
  _disruptive_wind_b16 |-> <<When({Is("foe")}, <<Inflict("foe")>>)>>,
  _balloon_return_flag |-> <<Blow>>,
  _hydro_pump_golduck_b16 |-> <<Strike>>,
  _strafe_flag |-> <<Blow, StopIf(Ended), StopIf(No("own bench")), StopIf(Some), Choose("t",
        "own bench"), Swap("own", "t")>>]

(* effects/attacks.py:25515-25661 *)
Attacks25515 == [
  _aura_jab_flag_b17 |-> <<Blow, StopIf(Ended), StopIf(No("own bench")), StopIf(Some),
        Repeat(<<Unless({Is("own bench"), Some}, <<Continue>>), Choose("t", "own bench"), Piles,
        Attach("t")>>)>>,
  _heal_30_self_b17 |-> <<Blow, StopIf(Ended), When({Is("own"), Some}, <<Heal("own")>>)>>,
  _infernal_slash_flag_b17 |-> <<>>,
  _limit_break_b17 |-> <<Strike>>,
  _healing_fluff_flag_b17 |-> <<StopIf(NoneAmong("own bench")), Choose("t", "own bench"),
        Heal("t")>>,
  _u_turn_flag_b17 |-> <<Blow, StopIf(Ended), StopIf(No("own bench")), Choose("t", "own bench"),
        Swap("own", "t")>>,
  _retaliatory_claw_b17 |-> <<Strike>>,
  _soothing_melody_flag_b17 |-> <<StopIf(NoneAmong("own bench")), Choose("t", "own bench"),
        Heal("t")>>,
  _mountain_stroll_flag_b17 |-> <<>>,
  _ogre_comeback_b17 |-> <<Strike>>]

(* effects/attacks.py:25666-25781 *)
Attacks25666 == [
  _poison_chain_b17 |-> <<Blow, StopIf(Ended), When({Is("foe")}, <<Inflict("foe"), Mark("foe")>>)>>,
  _swift_b17 |-> <<Strike>>,
  _everyone_explode_now_b17 |-> <<Keep("balloons", "own play"), Perhaps(<<Strike>>), StopIf(Ended),
        Each("t", "balloons", <<Splash("t")>>)>>,
  _bellowing_thunder_flag_b17 |-> <<Blow>>,
  _blazing_charge_b17 |-> <<Strike>>,
  _scoop_water_flag_b17 |-> <<>>,
  _drenched_headbutt_flag_b17 |-> <<>>,
  _follow_up_bolt_b17 |-> <<Strike>>,
  _crackling_charge_flag_b17 |-> <<>>,
  _horrifying_fang_b17 |-> <<Strike>>,
  _mystical_return_flag_b17 |-> <<StopIf(Some), StopIf(No("foe bench")), Choose("t", "foe bench"),
        Remove("foe", "t"), Perhaps(<<Piles>>), Perhaps(<<Piles>>), Strip("t"), Heal("t"),
        Cure("t"), Away("t"), Piles>>]

(* effects/attacks.py:25786-25932 *)
Attacks25786 == [
  _winding_waves_flag_b17 |-> <<Blow, StopIf(Ended), StopIf(No("foe bench")), StopIf(Some),
        Bind("t", "foe"), Lift("foe"), When({Is("t")}, <<Join("foe", "t")>>), Clear("u"),
        Perhaps(<<Maybe("u", "foe bench")>>), When({Is("foe bench"), No("u")}, <<Choose("u",
        "foe bench")>>), When({Is("u")}, <<Remove("foe", "u"), Seat("foe", "u")>>)>>,
  _rising_horns_b17 |-> <<Strike>>,
  _time_bellow_b17 |-> <<Blow, StopIf(Ended), Piles>>,
  _metal_blast_b17 |-> <<Strike>>,
  _back_draft_b17 |-> <<StopIf(Some), Strike>>,
  _flamebody_cannon_b17 |-> <<Blow, StopIf(Ended), When({Is("own"), Some}, <<Strip("own")>>),
        When({Is("foe bench")}, <<Choose("t", "foe bench"), Splash("t")>>)>>,
  _dynamic_press_b17 |-> <<Blow, StopIf(Ended), When({Is("own")}, <<Hurt("own"), Check("own")>>)>>,
  _silent_wing_noop_b17 |-> <<Blow>>,
  _kick_shot_b17 |-> <<Perhaps(<<Blow>>)>>]

(* effects/attacks.py:25937-26065 *)
Attacks25937 == [
  _gyro_shockwave_flag_b17 |-> <<Blow, StopIf(Ended), StopIf(No("own bench")), Choose("t",
        "own bench"), Swap("own", "t")>>,
  _nab_n_dash_flag_b17 |-> <<>>,
  _insta_strike_b17 |-> <<Blow, StopIf(Ended), When({Is("foe bench")}, <<Choose("t", "foe bench"),
        Splash("t")>>)>>,
  _revenge_buster_b17 |-> <<Strike>>,
  _steel_armament_b17 |-> <<Blow, StopIf(Ended), OnlyIf({Is("own"), Some}), Perhaps(<<Piles,
        Quit>>), Piles, Attach("own"), Piles>>,
  _pluck_off_flag_b17 |-> <<>>,
  _rocket_mirror_flag_b17 |-> <<>>,
  _erasure_ball_flag_b17 |-> <<>>,
  _spiky_wheel_b17 |-> <<Strike>>]

(* effects/attacks.py:26070-26162 *)
Attacks26070 == [
  _charge_b17 |-> <<OnlyIf({Is("own"), Some}), Perhaps(<<Piles, Quit>>), Piles, Attach("own"),
        Piles>>,
  _hurricane_flag_b17 |-> <<Blow>>,
  _synchro_shot_b17 |-> <<Strike>>,
  _cellular_ascension |-> <<Each("t", "own bench", <<Perhaps(<<Continue>>), Maybe("u", "own bench"),
        When({No("u")}, <<Continue>>), Rise("u"), StopIf(Ended)>>), Piles>>,
  _cellular_ascension_flag_b17 |-> <<>>,
  _evo_lariat_b17 |-> <<Strike>>]

(* effects/attacks.py:26389-26392 *)
Attacks26389 == [
  _haughty_order_flag_b18 |-> <<>>]

(* effects/attacks.py:26477-26485 *)
Attacks26477 == [
  _cruel_slash_b18 |-> <<Blow, StopIf(Ended), When({Is("foe")}, <<Inflict("foe")>>)>>]

(* effects/attacks.py:26507-26529 *)
Attacks26507 == [
  _retaliate_terrakion |-> <<Strike>>,
  _hide_spewpa |-> <<Perhaps(<<When({Is("own")}, <<Mark("own")>>)>>)>>,
  _focus_energy_noop |-> <<>>]

(* effects/attacks.py:26553-26690 *)
Attacks26553 == [
  _twister_spewing_b2 |-> <<Blow, StopIf(Ended), Perhaps(<<Piles>>)>>,
  _strong_bash_b2 |-> <<Blow, StopIf(Ended), When({Is("own")}, <<Mark("own")>>)>>,
  _syrup_catcher_b3 |-> <<When({No("foe bench")}, <<Strike, Quit>>), Choose("t", "foe bench"),
        Swap("foe", "t"), Strike>>,
  _pull_drifloon_b3 |-> <<StopIf(No("foe bench")), Perhaps(<<Bind("t", "foe"), Lift("foe"),
        When({Is("t")}, <<Join("foe", "t")>>), Clear("u"), Perhaps(<<Maybe("u", "foe bench")>>),
        When({Is("foe bench"), No("u")}, <<Choose("u", "foe bench")>>), When({Is("u")},
        <<Remove("foe", "u"), Seat("foe", "u")>>)>>)>>,
  _search_basic_energy_to_hand |-> <<StopIf(Some), Piles>>,
  _minor_errand_running_b3 |-> <<StopIf(Some), Piles>>,
  _charge_energy_ponyta_b3 |-> <<StopIf(Some), Piles>>,
  _mountain_stroll_b3 |-> <<StopIf(Some), Piles>>,
  _pluck_off_zarude_b3 |-> <<StopIf(Some), Piles>>]

(* effects/attacks.py:26693-26835 *)
Attacks26693 == [
  _scoop_water_b3 |-> <<StopIf(Some), Piles>>,
  _collateral_bolts_b3 |-> <<KeepSome("own_targets", "own bench"), KeepSome("opp_targets",
        "foe play"), When({No("opp_targets"), No("own_targets")}, <<Quit>>), Each("t",
        "own_targets", <<Splash("t"), StopIf(Ended)>>), Each("t", "opp_targets", <<IfSame("t",
        "foe", <<Strike>>, <<Splash("t")>>), StopIf(Ended)>>)>>,
  _hex_hurl_b3 |-> <<StopIf(No("foe bench")), Repeat(<<Choose("t", "foe bench"), Hurt("t"),
        Check("t"), StopIf(Ended)>>)>>,
  _move_bench_counters_to_active |-> <<OnlyIf({Among("foe bench"), Is("foe")}), Choose("t",
        "foe bench"), Heal("t"), Hurt("foe"), Check("foe")>>,
  _damage_collection_b3 |-> <<OnlyIf({Among("foe bench"), Is("foe")}), Choose("t", "foe bench"),
        Heal("t"), Hurt("foe"), Check("foe")>>,
  _perplexing_transfer_b3 |-> <<StopIf(No("foe")), StopIf(NoneAmong("own bench")), Choose("t",
        "own bench"), Heal("t"), Hurt("foe"), Check("foe")>>]

(* effects/attacks.py:26838-26975 *)
Attacks26838 == [
  _tricolor_pump_b3 |-> <<StopIf(Some), Perhaps(<<Piles>>), StopIf(Some), StopIf(No("foe play")),
        Clear("t"), Perhaps(<<Maybe("t", "foe play")>>), When({No("t")}, <<Bind("t", "foe"),
        When({No("t")}, <<Choose("t", "foe bench")>>)>>), IfSame("t", "foe", <<Strike>>,
        <<Raise>>)>>,
  _drenched_headbutt_b3 |-> <<Blow, StopIf(Ended), Perhaps(<<Piles>>), Perhaps(<<Strike>>)>>,
  _rocket_mirror_b3 |-> <<OnlyIf({Among("own bench"), Is("foe")}), Choose("t", "own bench"),
        Heal("t"), Hurt("foe"), Check("foe")>>,
  _move_energy_active_to_bench |-> <<OnlyIf({Is("own"), Some}), StopIf(No("own bench")), Choose("t",
        "own bench"), Strip("own"), Attach("t")>>,
  _wheel_pass_b3 |-> <<Blow, StopIf(Ended), OnlyIf({Is("own"), Some}), StopIf(No("own bench")),
        Choose("t", "own bench"), Strip("own"), Attach("t")>>,
  _hurricane_tornadus_b3 |-> <<Blow, StopIf(Ended), OnlyIf({Is("own"), Is("own bench")}),
        StopIf(Some), OnlyIf({Is("own"), Some}), StopIf(No("own bench")), Choose("t", "own bench"),
        Strip("own"), Attach("t")>>]

(* effects/attacks.py:26978-27119 *)
Attacks26978 == [
  _cross_breaker_b3 |-> <<StopIf(No("own")), Perhaps(<<Blow, Quit>>), Perhaps(<<Strip("own")>>),
        Blow, Perhaps(<<Strike>>)>>,
  _erasure_ball_b3 |-> <<When({NoneAmong("own bench")}, <<Blow, Quit>>), Repeat(<<Maybe("t",
        "own bench"), When({Is("t"), Some}, <<Strip("t")>>)>>), Blow, Perhaps(<<Strike>>)>>,
  _angelite_b3 |-> <<Blow, StopIf(Ended), StopIf(No("foe bench")), Repeat(<<When({No("foe bench")},
        <<Break>>), Choose("t", "foe bench"), Remove("foe", "t"), Perhaps(<<Piles>>),
        Perhaps(<<Piles>>), Strip("t"), Heal("t"), Cure("t"), Away("t")>>), Piles>>,
  _nab_n_dash_b3 |-> <<StopIf(Some), Piles>>]

(* effects/attacks.py:27207-27343 *)
Attacks27207 == [
  _dastardly_jab_b4 |-> <<StopIf(No("foe")), Perhaps(<<Graze("foe")>>)>>,
  _kick_away_b4 |-> <<Blow, StopIf(Ended), StopIf(No("foe bench")), When({Is("foe")}, <<Join("foe",
        "foe")>>), Lift("foe"), Choose("t", "foe bench"), Remove("foe", "t"), Seat("foe", "t")>>,
  _tricky_steps_b4 |-> <<Blow, StopIf(Ended), OnlyIf({Is("foe"), Is("foe bench"), Some}),
        StopIf(Some), Choose("t", "foe bench"), Strip("foe"), Attach("t")>>,
  _bring_down_b4 |-> <<StopIf(No("others")), Choose("t", "others"), Fell("t"), Check("t")>>,
  _lucky_find_b4 |-> <<Perhaps(<<Piles, Quit>>), Piles>>]

(* effects/attacks.py:27346-27452 *)
Attacks27346 == [
  _talon_hunt_b4 |-> <<Blow, StopIf(Ended), StopIf(Some), Piles>>,
  _cursed_edge_b4 |-> <<Each("t", "foe play", <<Perhaps(<<Strip("t")>>)>>)>>,
  _infernal_slash_b4 |-> <<StopIf(Some), Perhaps(<<Piles>>), Blow>>,
  _frigid_fangs_b4 |-> <<Blow, StopIf(Ended), Each("t", "foe play", <<Perhaps(<<Mark("t")>>)>>)>>,
  _evil_incineration_b4 |-> <<StopIf(No("own")), StopIf(Some), Strip("own"), StopIf(No("foe")),
        Fell("foe"), Check("foe")>>]

(* effects/attacks.py:27455-27597 *)
Attacks27455 == [
  _upthrusting_horns_b4 |-> <<Blow, StopIf(Ended), OnlyIf({Is("foe"), Some}), StopIf(Some),
        Perhaps(<<Strip("foe"), Perhaps(<<Piles>>)>>)>>,
  _crushing_pulse_b4 |-> <<Perhaps(<<Piles>>)>>,
  _crackling_charge_b4 |-> <<OnlyIf({Is("own bench"), Some}), Repeat(<<Unless({Is("own bench"),
        Some}, <<Break>>), Choose("t", "own bench"), Piles, Attach("t")>>)>>,
  _memory_lock_b4 |-> <<Blow, StopIf(Ended), StopIf(No("foe")), StopIf(Some), Mark("foe")>>]

(* effects/attacks.py:27600-27732 *)
Attacks27600 == [
  _cappella_b4 |-> <<StopIf(Some), Perhaps(<<Piles, Quit>>), Repeat(<<When({Among("own bench")},
        <<Break>>), Perhaps(<<Piles, Recruit("own")>>)>>), Piles>>,
  _crimson_blaster_b4 |-> <<StopIf(No("own")), StopIf(Some), Perhaps(<<Strip("own")>>),
        StopIf(No("foe bench")), Choose("t", "foe bench"), Splash("t")>>,
  _iron_shake_up_b4 |-> <<Blow, StopIf(Ended), StopIf(NoneAmong("own play")),
        Repeat(<<When({NoneAmong("own play")}, <<Break>>), Perhaps(<<Break>>), Perhaps(<<Maybe("t",
        "own play")>>), When({No("t")}, <<Choose("t", "own play")>>), Perhaps(<<Break>>),
        Strip("t"), When({NoneAmong("own play")}, <<Attach("t"), Break>>), Choose("u", "own play"),
        Attach("u")>>)>>]

(* effects/attacks.py:27735-27763 *)
Attacks27735 == [
  _invite_and_strike_b4 |-> <<When({Is("foe bench")}, <<When({Is("foe")}, <<Join("foe", "foe")>>),
        Lift("foe"), Choose("t", "foe bench"), Remove("foe", "t"), Seat("foe", "t"), Strike>>)>>]

(* effects/attacks.py:27828-27958 *)
Attacks27828 == [
  _flock_b5 |-> <<Perhaps(<<Piles, Quit>>), Perhaps(<<Piles, Quit>>),
        Repeat(<<When({Among("own bench")}, <<Break>>), Perhaps(<<Piles, Recruit("own")>>)>>),
        Piles>>,
  _storm_bolt_b5 |-> <<Strike, StopIf(Ended), OnlyIf({Is("own"), Is("own bench")}), Strip("own"),
        Repeat(<<When({No("own bench")}, <<Break>>), Choose("t", "own bench"), Attach("t")>>)>>,
  _lead_b5 |-> <<Perhaps(<<Piles, Quit>>), Perhaps(<<Piles, Quit>>), Piles>>,
  _expelling_tornado_b5 |-> <<StopIf(NoneAmong("foe bench")), Each("t", "foe bench", <<Remove("foe",
        "t"), Strip("t"), Heal("t"), Cure("t"), Away("t")>>), Piles>>]

(* effects/attacks.py:27972-28071 *)
Attacks27972 == [
  _kings_order_b5 |-> <<StopIf(Some), Repeat(<<When({Among("own bench")}, <<Break>>),
        Perhaps(<<Piles, Recruit("own")>>)>>)>>,
  _opposing_winds_b5 |-> <<Blow, StopIf(Ended), OnlyIf({Is("foe"), Some}), StopIf(Some),
        Perhaps(<<Strip("foe"), Perhaps(<<Piles>>)>>)>>]

(* effects/attacks.py:28074-28190 *)
Attacks28074 == [
  _electrifying_dash_b5 |-> <<Blow, StopIf(Ended), OnlyIf({Is("own bench"), Some}), Perhaps(<<Piles,
        Quit>>), Repeat(<<When({No("own bench")}, <<Break>>), Perhaps(<<Piles, Choose("t",
        "own bench"), Attach("t")>>)>>), Piles>>,
  _balloon_return_b5 |-> <<Strike, StopIf(Ended), StopIf(No("own")), Bind("t", "own"),
        Perhaps(<<Piles>>), Strip("t"), Perhaps(<<Piles>>), Strip("t"), Lift("own"), Heal("t"),
        Cure("t"), Away("t")>>]

(* effects/attacks.py:28204-28326 *)
Attacks28204 == [
  _return_charge_b5 |-> <<OnlyIf({Is("own"), Is("own bench")}), Bind("t", "own"), Choose("u",
        "own bench"), Remove("own", "u"), Seat("own", "u"), Join("own", "t"), StopIf(Some),
        Perhaps(<<Piles, Attach("t")>>)>>,
  _splashing_dodge_b5 |-> <<Blow, StopIf(Ended), Perhaps(<<When({Is("own")}, <<Mark("own")>>)>>)>>,
  _tongue_pull_b5 |-> <<StopIf(Some), Repeat(<<When({Among("foe bench")}, <<Break>>), Piles,
        Recruit("foe")>>)>>]

(* effects/attacks.py:28329-28406 *)
Attacks28329 == [
  _summoning_gate_b5 |-> <<StopIf(Some), Repeat(<<When({Among("own bench")}, <<Break>>),
        Perhaps(<<Piles, Recruit("own")>>)>>), Piles>>,
  _guarded_rolling_b5 |-> <<Blow, StopIf(Ended), StopIf(No("own")), Perhaps(<<Strip("own")>>),
        Mark("own")>>,
  _reaping_dash_b5 |-> <<When({Is("foe")}, <<Perhaps(<<Strip("foe")>>),
        Perhaps(<<Strip("foe")>>)>>), Blow>>]

(* effects/attacks.py:28415-28546 *)
Attacks28415 == [
  _jolting_charge_b5 |-> <<StopIf(Some), StopIf(No("own play")), Perhaps(<<Piles, Quit>>),
        Repeat(<<Unless({Is("own play"), Some}, <<Continue>>), Choose("t", "own play"), Piles,
        Attach("t")>>), Piles>>,
  _charjabug_placement_b5 |-> <<Perhaps(<<Piles, Quit>>), Perhaps(<<Piles, Quit>>),
        Repeat(<<When({Among("own bench")}, <<Break>>), Perhaps(<<Piles, Recruit("own")>>)>>),
        Piles>>,
  _stock_up_b5 |-> <<Perhaps(<<Piles>>)>>,
  _scream_b5 |-> <<StopIf(Some), Note>>,
  _rallying_horn_b5 |-> <<Strike>>]

(* effects/attacks.py:28616-28635 *)
Attacks28616 == [
  _fluorite |-> <<When({Is("own")}, <<Strip("own")>>), Each("t", "own play",
        <<Perhaps(<<Heal("t")>>)>>)>>]

(* effects/attacks.py:28647-28755 *)
Attacks28647 == [
  _flame_cannon |-> <<Blow, StopIf(Ended), When({Is("foe")}, <<Inflict("foe")>>)>>,
  _fiery_fighting_spirit |-> <<Unless({Is("own"), Some}, <<Blow, Quit>>), Repeat(<<When({Is("own"),
        Some}, <<Piles, Attach("own")>>)>>), Piles, Blow>>,
  _flare_bringer |-> <<OnlyIf({Is("own play"), Some}), Clear("t"), Perhaps(<<Maybe("t",
        "own play")>>), When({No("t")}, <<Bind("t", "own"), When({No("t")}, <<Choose("t",
        "own play")>>)>>), Perhaps(<<Piles, Attach("t")>>)>>,
  _megafire_of_envy |-> <<Strike>>]

(* effects/attacks.py:28758-28883 *)
Attacks28758 == [
  _motivate |-> <<Blow, StopIf(Ended), StopIf(No("own bench")), StopIf(Some), Choose("t",
        "own bench"), Perhaps(<<Piles, Attach("t")>>)>>,
  _magnetic_charge |-> <<StopIf(No("own bench")), StopIf(Some), Choose("t", "own bench"),
        Perhaps(<<Piles, Attach("t")>>)>>,
  _refrigerated_stream |-> <<Blow, StopIf(Ended), When({Is("foe"), Some}, <<Mark("foe")>>)>>]

(* effects/attacks.py:28890-28913 *)
Attacks28890 == [
  _blustery_wind |-> <<Strike, StopIf(Ended), StopIf(Some), Perhaps(<<Note, Stadium>>)>>]

(* All of them.                                                             *)
AttackScripts4 == UNION {Range(Attacks21083), Range(Attacks21222), Range(Attacks21368),
    Range(Attacks21464), Range(Attacks21611), Range(Attacks21739), Range(Attacks21886),
    Range(Attacks22038), Range(Attacks22153), Range(Attacks22305), Range(Attacks22426),
    Range(Attacks22530), Range(Attacks22675), Range(Attacks22821), Range(Attacks22970),
    Range(Attacks23121), Range(Attacks23265), Range(Attacks23407), Range(Attacks23811),
    Range(Attacks23962), Range(Attacks24157), Range(Attacks24291), Range(Attacks24435),
    Range(Attacks24581), Range(Attacks24735), Range(Attacks24879), Range(Attacks24991),
    Range(Attacks25129), Range(Attacks25515), Range(Attacks25666), Range(Attacks25786),
    Range(Attacks25937), Range(Attacks26070), Range(Attacks26389), Range(Attacks26477),
    Range(Attacks26507), Range(Attacks26553), Range(Attacks26693), Range(Attacks26838),
    Range(Attacks26978), Range(Attacks27207), Range(Attacks27346), Range(Attacks27455),
    Range(Attacks27600), Range(Attacks27735), Range(Attacks27828), Range(Attacks27972),
    Range(Attacks28074), Range(Attacks28204), Range(Attacks28329), Range(Attacks28415),
    Range(Attacks28616), Range(Attacks28647), Range(Attacks28758), Range(Attacks28890)}
=============================================================================
