----------------------------- MODULE CardEffects ----------------------------
(***************************************************************************)
(* The scripts of the handlers of Trainer cards, abilities and Special     *)
(* Energy (effects/trainers.py, abilities.py, energies.py), in their       *)
(* order: one record per run of consecutive handlers, one field per        *)
(* handler, named as in the code. EffectOps explains the operations.       *)
(***************************************************************************)
EXTENDS EffectOps, Functions

(* effects/trainers.py:280-420 *)
Trainers280 == [
  _noop |-> <<>>,
  _amarys |-> <<Piles, Note>>,
  _acerolas_mischief |-> <<StopIf(Some), When({Is("own play")}, <<Maybe("t", "own play"),
        When({Is("t")}, <<Mark("t")>>)>>)>>,
  _bosss_orders |-> <<StopIf(No("foe bench")), StopIf(Some), Maybe("t", "foe bench"),
        When({Is("t")}, <<StopIf(Some), Swap("foe", "t")>>)>>,
  _lillies_determination |-> <<Piles>>,
  _dawn |-> <<Piles>>]

(* effects/trainers.py:423-553 *)
Trainers423 == [
  _rosas_encouragement |-> <<StopIf(Some), Perhaps(<<Piles>>), StopIf(Some),
        StopIf(NoneAmong("own play")), Maybe("t", "own play"), StopIf(No("t")),
        Perhaps(<<Attach("t"), Piles>>)>>,
  _tarragon |-> <<StopIf(Some), Perhaps(<<Piles>>), Note>>,
  _judge |-> <<Piles>>]

(* effects/trainers.py:556-680 *)
Trainers556 == [
  _ciphermaniacs_codebreaking |-> <<Perhaps(<<Piles, Quit>>), Piles, Perhaps(<<Perhaps(<<Piles>>),
        Quit>>), Piles>>,
  _eri |-> <<StopIf(Some), Perhaps(<<Piles>>)>>,
  _mortys_conviction |-> <<StopIf(Some), Perhaps(<<Piles>>)>>]

(* effects/trainers.py:683-822 *)
Trainers683 == [
  _kieran |-> <<When({No("own bench")}, <<Note, Quit>>), Either(<<Maybe("t", "own bench"),
        When({Is("t")}, <<Swap("own", "t")>>)>>, <<Note>>)>>,
  _lanas_aid |-> <<StopIf(Some), Perhaps(<<Piles>>)>>,
  _colresss_tenacity |-> <<Piles>>]

(* effects/trainers.py:825-880 *)
Trainers825 == [
  _xerosics_machinations |-> <<Note, Perhaps(<<Piles>>)>>,
  _briar |-> <<StopIf(Some), Note>>]

(* effects/trainers.py:883-1018 *)
Trainers883 == [
  _crispin |-> <<Perhaps(<<Piles, Quit>>), Piles, StopIf(Some), Perhaps(<<Piles, Quit>>), Piles,
        When({No("own play")}, <<Piles, Quit>>), Maybe("t", "own play"), When({No("t")}, <<Piles,
        Quit>>), Attach("t")>>,
  _cyrano |-> <<Perhaps(<<Piles, Quit>>), Piles>>]

(* effects/trainers.py:1021-1166 *)
Trainers1021 == [
  _janines_secret_art |-> <<Note, StopIf(NoneAmong("own play")), Repeat(<<Maybe("t", "own play"),
        When({No("t")}, <<Continue>>), Perhaps(<<Break>>), Piles, Attach("t")>>), Piles,
        When({Is("own"), Some}, <<Inflict("own")>>)>>,
  _larrys_skill |-> <<Piles>>]

(* effects/trainers.py:1169-1278 *)
Trainers1169 == [
  _brocks_scouting |-> <<Piles>>,
  _tr_archer |-> <<Perhaps(<<Note, Quit>>), Piles, Note>>,
  _tr_ariana |-> <<Perhaps(<<Piles>>), Note, Perhaps(<<Piles>>)>>]

(* effects/trainers.py:1281-1407 *)
Trainers1281 == [
  _tr_giovanni |-> <<When({Is("own bench")}, <<Perhaps(<<Maybe("t", "own bench"), When({Is("t")},
        <<Swap("own", "t")>>)>>)>>), When({Is("foe bench"), Some}, <<Maybe("u", "foe bench"),
        When({Is("u")}, <<Perhaps(<<Swap("foe", "u")>>)>>)>>), Note, Perhaps(<<Piles>>)>>,
  _tr_petrel |-> <<Piles, Note, Perhaps(<<Piles>>)>>,
  _tr_proton |-> <<Piles, Note, Perhaps(<<Piles>>)>>]

(* effects/trainers.py:1410-1526 *)
Trainers1410 == [
  _hilda |-> <<Piles>>,
  _energy_switch |-> <<StopIf(NoneAmong("own play")), Maybe("t", "own play"), StopIf(No("t")),
        StopIf(Some), StopIf(NoneAmong("own play")), Maybe("u", "own play"), StopIf(No("u")),
        Strip("t"), Attach("u")>>]

(* effects/trainers.py:1529-1640 *)
Trainers1529 == [
  _fighting_gong |-> <<Perhaps(<<Piles, Quit>>), Piles>>,
  _rare_candy |-> <<StopIf(NoneAmong("own play")), StopIf(Some), Maybe("t", "own play"),
        StopIf(No("t")), Evolve("t"), Piles>>]

(* effects/trainers.py:1643-1788 *)
Trainers1643 == [
  _ultra_ball |-> <<StopIf(Some), Perhaps(<<Piles>>), Perhaps(<<Piles, Quit>>), Piles>>,
  _jumbo_ice_cream |-> <<StopIf(No("own")), StopIf(Some), Heal("own")>>,
  _wondrous_patch |-> <<StopIf(NoneAmong("own bench")), StopIf(Some), Maybe("t", "own bench"),
        StopIf(No("t")), Attach("t"), Piles>>,
  _night_stretcher |-> <<StopIf(Some), Perhaps(<<Piles>>)>>]

(* effects/trainers.py:1791-1905 *)
Trainers1791 == [
  _tool_scrapper |-> <<>>,
  _poke_pad |-> <<Perhaps(<<Piles, Quit>>), Piles>>,
  _black_belt_training |-> <<Note>>,
  _energy_retrieval |-> <<StopIf(Some), Perhaps(<<Piles>>)>>]

(* effects/trainers.py:1908-2041 *)
Trainers1908 == [
  _pokegear |-> <<StopIf(Some), Perhaps(<<Piles, Quit>>), Piles>>,
  _buddy_buddy_poffin |-> <<Perhaps(<<Piles, Quit>>), Perhaps(<<Piles, Quit>>),
        Repeat(<<When({Among("own bench")}, <<Break>>), Perhaps(<<Piles, Recruit("own")>>)>>),
        Piles>>,
  _prime_catcher |-> <<When({Is("foe bench"), Some}, <<Maybe("t", "foe bench"), When({Is("t")},
        <<Perhaps(<<Swap("foe", "t")>>)>>)>>), When({Is("own bench")}, <<Maybe("u", "own bench"),
        When({Is("u")}, <<Swap("own", "u")>>)>>)>>]

(* effects/trainers.py:2044-2182 *)
Trainers2044 == [
  _bug_catching_set |-> <<StopIf(Some), Perhaps(<<Piles, Quit>>), Piles>>,
  _enhanced_hammer |-> <<StopIf(NoneAmong("foe play")), Maybe("t", "foe play"), StopIf(No("t")),
        StopIf(Some), Strip("t")>>,
  _secret_box |-> <<StopIf(Some), Piles>>]

(* effects/trainers.py:2185-2302 *)
Trainers2185 == [
  _unfair_stamp |-> <<StopIf(Some), Piles>>,
  _glass_trumpet |-> <<StopIf(Some), StopIf(NoneAmong("own bench")), Repeat(<<Maybe("t",
        "own bench"), When({No("t")}, <<Continue>>), Perhaps(<<Break>>), Piles, Attach("t")>>)>>,
  _ns_pp_up |-> <<StopIf(NoneAmong("own bench")), StopIf(Some), Maybe("t", "own bench"),
        StopIf(No("t")), Attach("t"), Piles>>]

(* effects/trainers.py:2305-2405 *)
Trainers2305 == [
  _energy_recycler |-> <<StopIf(Some), Piles>>,
  _sacred_ash |-> <<StopIf(Some), Piles>>,
  _tr_transceiver |-> <<Perhaps(<<Piles, Quit>>), Piles>>]

(* effects/trainers.py:2412-2539 *)
Trainers2412 == [
  _mystery_garden |-> <<StopIf(Some), Piles, Note>>,
  _levincia |-> <<StopIf(Some), Perhaps(<<Piles>>), Note>>,
  _lumiose_city |-> <<StopIf(Some), Note, StopIf(Some), Piles, Recruit("own"), Piles, Note>>]

(* effects/trainers.py:2542-2682 *)
Trainers2542 == [
  _spikemuth_gym |-> <<StopIf(Some), Note, StopIf(Some), Piles>>,
  _surfing_beach |-> <<StopIf(Some), Note, OnlyIf({Is("own"), Some}),
        StopIf(NoneAmong("own bench")), Maybe("t", "own bench"), StopIf(No("t")), Swap("own", "t")>>,
  _academy_at_night |-> <<StopIf(Some), Note, StopIf(Some), Piles>>,
  _community_center |-> <<StopIf(Some), Each("t", "own play", <<Perhaps(<<Heal("t")>>)>>), Note>>,
  _celebratory_fanfare |-> <<StopIf(Some), Each("t", "own play", <<Perhaps(<<Heal("t")>>)>>), Note>>,
  _powerglass |-> <<StopIf(Some), OnlyIf({Is("own"), Some}), StopIf(Some), Piles, Attach("own")>>]

(* effects/trainers.py:2685-2833 *)
Trainers2685 == [
  _anthea_concordia |-> <<StopIf(Some), Note>>,
  _canari |-> <<StopIf(Some), Piles, Perhaps(<<Piles, Quit>>), Piles>>,
  _cynthias_power_weight |-> <<Maybe("t", "own play"), OnlyIf({Is("t"), Some}), Mark("t"),
        Heal("t")>>,
  _strange_timepiece |-> <<StopIf(NoneAmong("own play")), Choose("t", "own play"), While({Is("t"),
        Some}, <<Fall("t"), Find("t")>>)>>,
  _area_zero_underdepths |-> <<Note>>,
  _dizzying_valley |-> <<>>,
  _gravity_mountain |-> <<Either(<<Each("t", "own play", <<Perhaps(<<Hurt("t"), Check("t"),
        StopIf(Ended)>>)>>), Each("t", "foe play", <<Perhaps(<<Hurt("t"), Check("t"),
        StopIf(Ended)>>)>>)>>, <<Each("t", "foe play", <<Perhaps(<<Hurt("t"), Check("t"),
        StopIf(Ended)>>)>>), Each("t", "own play", <<Perhaps(<<Hurt("t"), Check("t"),
        StopIf(Ended)>>)>>)>>)>>,
  _lively_stadium |-> <<>>,
  _tr_factory_on_play |-> <<Perhaps(<<Piles>>)>>]

(* effects/trainers.py:2840-2977 *)
Trainers2840 == [
  _hero_cape |-> <<Maybe("t", "own play"), StopIf(No("t")), Mark("t"), Heal("t")>>,
  _mega_signal |-> <<Perhaps(<<Piles, Quit>>), Piles>>,
  _crushing_hammer_b18 |-> <<>>,
  _energy_search_b18 |-> <<Perhaps(<<Piles, Quit>>), Piles>>]

(* effects/trainers.py:2980-3119 *)
Trainers2980 == [
  _hole_digging_shovel_b18 |-> <<Perhaps(<<Piles>>)>>,
  _jacinthe_b18 |-> <<StopIf(NoneAmong("own play")), Either(<<Maybe("t", "own play"),
        Perhaps(<<Choose("t", "own play")>>)>>, <<Choose("t", "own play")>>), When({Is("t")},
        <<Heal("t")>>)>>,
  _lumiose_galette_b18 |-> <<StopIf(No("own")), Heal("own"), Perhaps(<<Inflict("own")>>)>>,
  _naveen_b18 |-> <<Perhaps(<<Piles>>), Perhaps(<<Piles>>)>>,
  _poke_ball_b18 |-> <<StopIf(Some), Perhaps(<<Piles, Quit>>), Piles>>]

(* effects/trainers.py:3122-3260 *)
Trainers3122 == [
  _pokemon_catcher_b18 |-> <<StopIf(Some), StopIf(No("foe bench")), Maybe("t", "foe bench"),
        When({Is("t")}, <<StopIf(Some), Swap("foe", "t")>>)>>,
  _potion_b18 |-> <<StopIf(No("own play")), Either(<<Maybe("t", "own play")>>, <<Bind("t",
        "own")>>), When({Is("t")}, <<Heal("t")>>)>>,
  _iris_b18 |-> <<StopIf(Some), Perhaps(<<Piles>>), Perhaps(<<Piles>>)>>,
  _surfer_b18 |-> <<When({Is("own bench")}, <<Maybe("t", "own bench"), When({Is("t")}, <<Swap("own",
        "t")>>)>>), Perhaps(<<Piles>>)>>]

(* effects/trainers.py:3263-3370 *)
Trainers3263 == [
  _tr_great_ball_b18 |-> <<Perhaps(<<Piles, Quit>>), Piles>>,
  _draw_3_b18 |-> <<Piles>>,
  _waitress_b18 |-> <<StopIf(Some), Perhaps(<<Piles, Quit>>), Perhaps(<<When({Is("own play")},
        <<Either(<<Maybe("t", "own play")>>, <<Bind("t", "own")>>), When({Is("t")}, <<Piles,
        Attach("t")>>)>>)>>), Piles>>]

(* effects/trainers.py:3373-3483 *)
Trainers3373 == [
  _blowtorch_b18 |-> <<StopIf(Some), Perhaps(<<Piles>>), StopIf(Some), Perhaps(<<Note, Stadium>>)>>,
  _firebreather_b18 |-> <<Perhaps(<<Piles, Quit>>), Piles>>]

(* effects/trainers.py:3486-3619 *)
Trainers3486 == [
  _grimsleys_move_b18 |-> <<StopIf(Some), Perhaps(<<Piles, Quit>>),
        Repeat(<<When({Among("own bench")}, <<Break>>), Perhaps(<<Piles, Recruit("own")>>)>>),
        Piles>>,
  _iron_defender_b18 |-> <<Note>>,
  _pokemon_center_lady_b18 |-> <<StopIf(No("own play")), Either(<<Maybe("t", "own play")>>,
        <<Bind("t", "own")>>), When({Is("t")}, <<Heal("t"), Cure("t")>>)>>,
  _premium_power_pro_b18 |-> <<Note>>,
  _repel_b18 |-> <<StopIf(No("foe bench")), StopIf(Some), Maybe("t", "foe bench"), When({Is("t")},
        <<StopIf(Some), Swap("foe", "t")>>)>>]

(* effects/trainers.py:3622-3768 *)
Trainers3622 == [
  _switch_b18 |-> <<StopIf(No("own bench")), Maybe("t", "own bench"), When({Is("t")}, <<Swap("own",
        "t")>>)>>,
  _wallys_compassion |-> <<StopIf(NoneAmong("own play")), Choose("t", "own play"),
        When({Among("own play")}, <<Perhaps(<<Choose("t", "own play")>>)>>), Perhaps(<<Heal("t")>>),
        Perhaps(<<Perhaps(<<Piles>>), Strip("t")>>)>>,
  _energy_coin_b18 |-> <<StopIf(Some), Unless({Is("own play"), Some}, <<Piles, Quit>>),
        Perhaps(<<Piles, Quit>>), Either(<<Maybe("t", "own play")>>, <<Bind("t", "own")>>),
        When({Is("t")}, <<Piles, Attach("t")>>), Piles>>,
  _fennel_b18 |-> <<Each("t", "own play", <<Perhaps(<<Heal("t")>>)>>)>>]

(* effects/trainers.py:3771-3892 *)
Trainers3771 == [
  _ns_plan_b18 |-> <<OnlyIf({Is("own"), Is("own bench")}), StopIf(Some),
        Perhaps(<<Attach("own")>>)>>,
  _harlequin_b18 |-> <<Piles>>,
  _arvens_sandwich_b19 |-> <<StopIf(No("own play")), Either(<<Maybe("t", "own play"),
        Perhaps(<<Choose("t", "own play")>>)>>, <<Choose("t", "own play")>>), StopIf(No("t")),
        Heal("t")>>,
  _emcees_hype_b19 |-> <<Piles>>]

(* effects/trainers.py:3895-4013 *)
Trainers3895 == [
  _ethans_adventure_b19 |-> <<Perhaps(<<Piles, Quit>>), Piles>>,
  _tr_venture_bomb_b19 |-> <<Either(<<StopIf(Some), StopIf(No("foe play")), Either(<<Maybe("t",
        "foe play")>>, <<Bind("t", "foe")>>), When({Is("t")}, <<Hurt("t"), Check("t")>>)>>,
        <<When({Is("own")}, <<Hurt("own"), Check("own")>>)>>)>>,
  _tm_machine_b19 |-> <<Perhaps(<<Piles, Quit>>), Piles>>,
  _billy_and_onare_b19 |-> <<Piles>>]

(* effects/trainers.py:4016-4158 *)
Trainers4016 == [
  _hops_bag_b19 |-> <<Perhaps(<<Piles, Quit>>), Perhaps(<<Piles, Quit>>),
        Repeat(<<When({Among("own bench")}, <<Break>>), Perhaps(<<Piles, Recruit("own")>>)>>),
        Piles>>,
  _ruffian_b19 |-> <<StopIf(NoneAmong("foe play")), Either(<<Maybe("t", "foe play"),
        Perhaps(<<Choose("t", "foe play")>>)>>, <<Choose("t", "foe play")>>), StopIf(No("t")),
        Strip("t")>>,
  _super_potion_b19 |-> <<StopIf(No("own play")), Either(<<Maybe("t", "own play"),
        Perhaps(<<Choose("t", "own play")>>)>>, <<Choose("t", "own play")>>), StopIf(No("t")),
        Heal("t"), Perhaps(<<Strip("t")>>)>>,
  _carmine_b19 |-> <<Piles>>]

(* effects/trainers.py:4161-4279 *)
Trainers4161 == [
  _ciphermaniacs_codebreaking_b19 |-> <<StopIf(Some), Piles>>,
  _explorers_guidance_b19 |-> <<StopIf(Some), Piles>>,
  _lacey_b19 |-> <<Piles>>,
  _max_rod_b19 |-> <<StopIf(Some), Perhaps(<<Piles>>)>>]

(* effects/trainers.py:4282-4425 *)
Trainers4282 == [
  _roto_stick_b19 |-> <<StopIf(Some), Piles>>,
  _call_bell_b19 |-> <<Perhaps(<<Piles, Quit>>), Piles>>,
  _chill_teaser_toy_b19 |-> <<StopIf(NoneAmong("foe play")), Choose("t", "foe play"), Strip("t"),
        Piles>>,
  _clemont_b19 |-> <<Each("t", "own play", <<Perhaps(<<Heal("t")>>)>>)>>]

(* effects/trainers.py:4428-4547 *)
Trainers4428 == [
  _deduction_kit_b19 |-> <<StopIf(Some), Piles>>,
  _dragon_elixir_b19 |-> <<When({Is("own"), Some}, <<Heal("own")>>)>>,
  _drasna_b19 |-> <<Piles>>,
  _drayton_b19 |-> <<StopIf(Some), Piles>>]

(* effects/trainers.py:4550-4682 *)
Trainers4550 == [
  _dusk_ball_b19 |-> <<StopIf(Some), Piles>>,
  _energy_search_pro |-> <<Perhaps(<<Piles, Quit>>), Piles>>,
  _lisias_appeal_b19 |-> <<StopIf(NoneAmong("foe bench")), StopIf(Some), Maybe("t", "foe bench"),
        When({Is("t")}, <<StopIf(Some), Swap("foe", "t"), Inflict("t")>>)>>]

(* effects/trainers.py:4685-4790 *)
Trainers4685 == [
  _meddling_memo_b19 |-> <<StopIf(Some), Piles>>,
  _tera_orb_b19 |-> <<Perhaps(<<Piles, Quit>>), Piles>>,
  _kofu_b19 |-> <<StopIf(Some), Piles>>,
  _cassiopeia_b19 |-> <<StopIf(Some), Piles>>]

(* effects/trainers.py:4793-4930 *)
Trainers4793 == [
  _janines_secret_art_sfa_b19 |-> <<Note, StopIf(NoneAmong("own play")), Perhaps(<<Piles, Quit>>),
        Repeat(<<Maybe("t", "own play"), When({No("t")}, <<Continue>>), Perhaps(<<Break>>), Piles,
        Attach("t")>>), Piles, When({Is("own"), Some}, <<Inflict("own")>>)>>,
  _dangerous_laser |-> <<StopIf(No("foe")), StopIf(Some), Inflict("foe")>>,
  _handheld_fan |-> <<OnlyIf({Is("own"), Some}), Perhaps(<<Piles>>), Heal("own")>>,
  _jasmine_gaze |-> <<Each("t", "own play", <<Mark("t")>>), Note>>]

(* effects/trainers.py:4933-5063 *)
Trainers4933 == [
  _accompanying_flute_b20 |-> <<StopIf(Some), Piles, Perhaps(<<Piles, Quit>>), Perhaps(<<Piles,
        Quit>>), Repeat(<<If({NoneAmong("foe bench"), Some}, <<Recruit("foe")>>, <<Piles>>)>>),
        Piles>>,
  _caretaker_b20 |-> <<Piles>>,
  _cook_b20 |-> <<StopIf(No("own")), Heal("own")>>,
  _hassel_b20 |-> <<StopIf(Some), Piles>>]

(* effects/trainers.py:5066-5196 *)
Trainers5066 == [
  _love_ball_b20 |-> <<StopIf(Some), Piles>>,
  _perrin_b20 |-> <<Piles, StopIf(Some), Piles>>,
  _biancas_devotion_b20 |-> <<StopIf(NoneAmong("own play")), Choose("t", "own play"), Heal("t")>>]

(* effects/trainers.py:5199-5332 *)
Trainers5199 == [
  _boxed_order_b20 |-> <<Piles, Note>>,
  _salvatore_b20 |-> <<When({No("own play")}, <<Piles, Quit>>), Perhaps(<<Piles, Quit>>),
        Choose("t", "own play"), Piles, Evolve("t"), Piles>>,
  _picnicker_b20 |-> <<Piles>>]

(* effects/trainers.py:5335-5470 *)
Trainers5335 == [
  _lucian_b5 |-> <<Perhaps(<<Piles>>)>>,
  _hand_trimmer |-> <<Perhaps(<<Piles>>)>>,
  _energy_swatter |-> <<StopIf(Some), Piles>>,
  _lt_surges_bargain |-> <<Either(<<Prize({"own", "foe"})>>, <<Piles>>)>>]

(* effects/trainers.py:5473-5604 *)
Trainers5473 == [
  _redeemable_ticket |-> <<StopIf(Some), Piles, Note, Piles, Note>>,
  _ogres_mask |-> <<StopIf(Some), StopIf(NoneAmong("own play")), Choose("t", "own play"),
        Evolve("t"), Piles>>,
  _tyme |-> <<StopIf(Some), Piles>>]

(* effects/trainers.py:5607-5754 *)
Trainers5607 == [
  _bother_bot |-> <<StopIf(Some), Perhaps(<<Note>>), StopIf(Some), Perhaps(<<Perhaps(<<Piles>>),
        Perhaps(<<Piles>>), Perhaps(<<Note>>)>>)>>,
  _scoop_up_cyclone |-> <<StopIf(No("own bench")), Choose("t", "own bench"),
        When({Among("own bench")}, <<Perhaps(<<Choose("t", "own bench")>>)>>), Perhaps(<<Piles>>),
        Strip("t"), Cure("t"), Heal("t"), Remove("own", "t"), Away("t")>>,
  _miracle_headset |-> <<StopIf(Some), Perhaps(<<Piles>>)>>]

(* effects/trainers.py:5761-5894 *)
Trainers5761 == [
  _precious_trolley |-> <<Perhaps(<<Piles, Quit>>), Perhaps(<<Piles, Quit>>),
        Repeat(<<Perhaps(<<Piles, Recruit("own")>>)>>), Piles>>,
  _electric_generator |-> <<StopIf(Some), OnlyIf({Among("own bench"), Some}), Repeat(<<Choose("t",
        "own bench"), Piles, Attach("t")>>), Piles>>,
  _iono |-> <<Piles>>]

(* effects/trainers.py:5901-6020 *)
Trainers5901 == [
  _pal_pad |-> <<StopIf(Some), Piles>>,
  _professors_research |-> <<Piles>>,
  _nest_ball |-> <<Perhaps(<<Piles, Quit>>), Perhaps(<<Piles, Quit>>), Repeat(<<Perhaps(<<Piles,
        Recruit("own")>>)>>), Piles>>,
  _super_rod |-> <<StopIf(Some), Piles>>]

(* effects/trainers.py:6027-6142 *)
Trainers6027 == [
  _arven |-> <<Piles>>,
  _bravery_charm |-> <<Maybe("t", "own play"), OnlyIf({Is("t"), Some}), Mark("t"), Heal("t")>>,
  _earthen_vessel |-> <<StopIf(Some), Perhaps(<<Piles>>), Perhaps(<<Piles, Quit>>), Piles>>]

(* effects/trainers.py:6145-6186 *)
Trainers6145 == [
  _brilliant_blender |-> <<Perhaps(<<Piles, Quit>>), Piles>>]

(* effects/abilities.py:400-535 *)
Abilities400 == [
  _rapid_vernier |-> <<Maybe("t", "own bench"), StopIf(No("t")), StopIf(Some), Swap("own", "t"),
        StopIf(Some), StopIf(No("own play")), Choose("u", "own play"), Attach("t"), Strip("u")>>,
  _snow_sink |-> <<StopIf(Some), Piles, Note, Stadium>>,
  _battle_hardened |-> <<Maybe("t", "own play"), StopIf(No("t")), StopIf(Some),
        Perhaps(<<Attach("t")>>)>>,
  _toxic_subjugation |-> <<StopIf(No("foe")), StopIf(Some), Inflict("foe")>>]

(* effects/abilities.py:540-686 *)
Abilities540 == [
  _last_ditch_catch |-> <<StopIf(Some), Piles>>,
  _psychic_draw_kadabra |-> <<StopIf(Some), Piles>>,
  _psychic_draw_alakazam |-> <<StopIf(Some), Piles>>,
  _punk_up |-> <<Perhaps(<<Piles, Quit>>), Unless({Among("own play"), Some}, <<Piles, Quit>>),
        Repeat(<<Perhaps(<<Continue>>), Choose("t", "own play"), Piles, Attach("t")>>), Piles>>,
  _lunar_cycle |-> <<StopIf(Some), Piles>>]

(* effects/abilities.py:691-700 *)
Abilities691 == [
  _shadowy_envoy |-> <<StopIf(Some), Perhaps(<<Piles>>)>>]

(* effects/abilities.py:718-843 *)
Abilities718 == [
  _sinister_surge |-> <<OnlyIf({Among("own bench"), Some}), Choose("t", "own bench"), Piles,
        Attach("t"), Hurt("t"), Piles, Check("t")>>,
  _flip_the_script |-> <<StopIf(Some), Piles>>,
  _stone_arms |-> <<OnlyIf({Among("own play"), Some}), Choose("t", "own play"), Attach("t")>>,
  _spike_clad |-> <<Maybe("t", "own play"), StopIf(No("t")), StopIf(Some), Perhaps(<<Piles,
        Attach("t")>>)>>]

(* effects/abilities.py:848-951 *)
Abilities848 == [
  _run_away_draw |-> <<Maybe("t", "own play"), StopIf(No("t")), Piles, StopIf(Some), IfSame("t",
        "own", <<Lift("own")>>, <<Leave("own", "t")>>), Strip("t"), Away("t"), Piles>>,
  _teleporter |-> <<Maybe("t", "own play"), If({No("t")}, <<Quit>>, <<If({No("own")}, <<Quit>>,
        <<IfSame("t", "own", <<>>, <<Quit>>)>>)>>), StopIf(No("own bench")), Choose("u",
        "own bench"), Swap("own", "u"), Leave("own", "t"), Strip("t"), Away("t"), Piles>>,
  _teal_dance |-> <<Maybe("t", "own play"), StopIf(No("t")), StopIf(Some), Attach("t"), Piles>>]

(* effects/abilities.py:956-1071 *)
Abilities956 == [
  _adrena_brain |-> <<Maybe("t", "own play"), OnlyIf({Is("t"), Some}), OnlyIf({Among("own play"),
        Is("foe play")}), Choose("u", "own play"), Choose("v", "foe play"), Heal("u"), Hurt("v"),
        Check("v")>>,
  _recon_directive |-> <<StopIf(Some), Piles, Perhaps(<<Piles, Quit>>), Piles>>,
  _subjugating_chains |-> <<StopIf(NoneAmong("own bench")), Choose("t", "own bench"), Swap("own",
        "t"), Inflict("t")>>]

(* effects/abilities.py:1076-1197 *)
Abilities1076 == [
  _cursed_blast |-> <<StopIf(Some), StopIf(No("foe play")), Choose("t", "foe play"), Hurt("t"),
        Check("t"), StopIf(Ended), Maybe("u", "own play"), When({Is("u")}, <<Fell("u"),
        Check("u")>>)>>,
  _cursed_blast_dusclops |-> <<StopIf(Some), StopIf(No("foe play")), Choose("t", "foe play"),
        Hurt("t"), Check("t"), StopIf(Ended), Maybe("u", "own play"), When({Is("u")}, <<Fell("u"),
        Check("u")>>)>>,
  _cursed_blast_dusknoir |-> <<StopIf(Some), StopIf(No("foe play")), Choose("t", "foe play"),
        Hurt("t"), Check("t"), StopIf(Ended), Maybe("u", "own play"), When({Is("u")}, <<Fell("u"),
        Check("u")>>)>>,
  _cursed_blast_sfa |-> <<Maybe("t", "own play"), StopIf(No("foe play")), Choose("u", "foe play"),
        Hurt("u"), When({Is("t")}, <<Mark("t")>>), Check("u")>>,
  _cursed_blast_dusclops_sfa |-> <<Maybe("t", "own play"), StopIf(No("foe play")), Choose("u",
        "foe play"), Hurt("u"), When({Is("t")}, <<Mark("t")>>), Check("u")>>,
  _cursed_blast_dusknoir_sfa |-> <<Maybe("t", "own play"), StopIf(No("foe play")), Choose("u",
        "foe play"), Hurt("u"), When({Is("t")}, <<Mark("t")>>), Check("u")>>,
  _attract_customers |-> <<Maybe("t", "own play"), StopIf(Some), Piles, When({Is("t")},
        <<Mark("t")>>)>>]

(* effects/abilities.py:1202-1351 *)
Abilities1202 == [
  _snack_seek |-> <<Maybe("t", "own play"), Perhaps(<<When({Is("t")}, <<Mark("t")>>), Quit>>),
        Perhaps(<<Piles>>), When({Is("t")}, <<Mark("t")>>)>>,
  _run_errand |-> <<Maybe("t", "own play"), Perhaps(<<Piles>>), When({Is("t")}, <<Mark("t")>>)>>,
  _seething_spirit |-> <<OnlyIf({Is("own play"), Some}), Choose("t", "own play"), Attach("t")>>,
  _trade |-> <<StopIf(Some), Piles>>,
  _charging_up |-> <<Maybe("t", "own play"), StopIf(No("t")), StopIf(Some), Attach("t")>>]

(* effects/abilities.py:1356-1478 *)
Abilities1356 == [
  _grand_wing |-> <<StopIf(Some), Piles>>,
  _sky_hunt |-> <<Perhaps(<<Piles>>)>>,
  _wash_out |-> <<OnlyIf({Is("own"), Is("own bench")}), StopIf(Some), Perhaps(<<Attach("own")>>)>>,
  _scent_collection |-> <<Perhaps(<<Piles, Quit>>), Piles>>]

(* effects/abilities.py:1483-1547 *)
Abilities1483 == [
  _multiplying_cocoon |-> <<StopIf(Among("own bench")), Perhaps(<<Piles, Quit>>),
        Repeat(<<When({NoneAmong("own bench"), Some}, <<Piles, Recruit("own")>>)>>), Piles>>,
  _boisterous_wind |-> <<StopIf(Some), OnlyIf({Is("foe"), Some}), Strip("foe")>>]

(* effects/abilities.py:1607-1714 *)
Abilities1607 == [
  _lovely_fragrance |-> <<Each("t", "own play", <<Perhaps(<<Heal("t")>>)>>)>>,
  _gathering_of_blossoms |-> <<Perhaps(<<Piles, Quit>>), Piles>>,
  _alluring_wings |-> <<Piles>>]

(* effects/abilities.py:1719-1853 *)
Abilities1719 == [
  _dynamotor |-> <<OnlyIf({Is("own bench"), Some}), StopIf(Some), Choose("t", "own bench"),
        Attach("t")>>,
  _frilled_generator |-> <<Maybe("t", "own play"), StopIf(No("t")), Perhaps(<<Piles, Quit>>),
        Perhaps(<<Piles, Attach("t")>>), Piles>>,
  _electric_streamer |-> <<OnlyIf({Among("own play"), Some}), StopIf(Some), Choose("t", "own play"),
        Attach("t"), Maybe("u", "own play"), When({Is("u")}, <<Mark("u")>>)>>]

(* effects/abilities.py:1858-1914 *)
Abilities1858 == [
  _flashing_draw |-> <<Maybe("t", "own play"), StopIf(No("t")), StopIf(Some), Strip("t"),
        Perhaps(<<Piles>>)>>,
  _bubble_gathering |-> <<Maybe("t", "own play"), StopIf(No("t")), StopIf(NoneAmong("own play")),
        Perhaps(<<Maybe("u", "own play")>>), When({No("u")}, <<Choose("u", "own play")>>),
        Strip("u"), Attach("t"), Mark("t")>>]

(* effects/abilities.py:1961-2092 *)
Abilities1961 == [
  _prison_panic |-> <<When({Is("foe")}, <<Inflict("foe")>>)>>,
  _sandy_flapping_ability |-> <<Perhaps(<<Piles>>)>>,
  _evolutionary_guidance |-> <<Maybe("t", "own play"), OnlyIf({Is("t"), Some}), StopIf(Some),
        Perhaps(<<Piles>>)>>,
  _sky_transport |-> <<StopIf(No("own bench")), Either(<<Maybe("t", "own bench")>>, <<Maybe("t",
        "own bench")>>), When({Is("t")}, <<Swap("own", "t")>>)>>,
  _fan_call |-> <<StopIf(Some), Perhaps(<<Piles>>)>>,
  _excited_heal |-> <<StopIf(NoneAmong("own play")), StopIf(NoneAmong("own play")), Maybe("t",
        "own play"), When({Is("t")}, <<Heal("t")>>)>>]

(* effects/abilities.py:2097-2173 *)
Abilities2097 == [
  _lethargic_charge |-> <<OnlyIf({Is("own"), Some}), StopIf(Some), Repeat(<<When({Is("own"), Some},
        <<Piles, Attach("own")>>)>>)>>,
  _solar_transfer |-> <<StopIf(NoneAmong("own play")), Perhaps(<<Maybe("t", "own play")>>),
        When({No("t")}, <<Choose("t", "own play")>>), StopIf(Some), Strip("t"),
        When({NoneAmong("own play")}, <<Attach("t"), Quit>>), Choose("u", "own play"), Attach("u")>>]

(* effects/abilities.py:2202-2243 *)
Abilities2202 == [
  _boom_boom_groove |-> <<StopIf(Some), Piles>>,
  _wicked_tail |-> <<StopIf(Some), Perhaps(<<Piles>>)>>]

(* effects/abilities.py:2256-2302 *)
Abilities2256 == [
  _changing_seasons |-> <<StopIf(Some), Piles>>,
  _excited_dash |-> <<Maybe("t", "own bench"), StopIf(No("t")), StopIf(Some), Mark("t"), Swap("own",
        "t")>>]

(* effects/abilities.py:2317-2340 *)
Abilities2317 == [
  _fermented_juice |-> <<StopIf(NoneAmong("own play")), Choose("t", "own play"), Heal("t")>>]

(* effects/abilities.py:2357-2456 *)
Abilities2357 == [
  _cast_off_shell |-> <<StopIf(Among("own bench")), Perhaps(<<Piles, Quit>>), Piles, Recruit("own"),
        Piles>>,
  _energized_steps |-> <<StopIf(Some), Perhaps(<<Piles, Quit>>), When({No("own play")}, <<Piles,
        Quit>>), Repeat(<<Choose("t", "own play"), Piles, Attach("t")>>), Piles>>,
  _fall_back_to_reload |-> <<Maybe("t", "own play"), When({No("t")}, <<Maybe("t", "own bench")>>),
        StopIf(No("t")), StopIf(Some), Perhaps(<<Attach("t")>>)>>]

(* effects/abilities.py:2479-2618 *)
Abilities2479 == [
  _heave_ho_catcher |-> <<StopIf(No("foe bench")), Choose("t", "foe bench"), Swap("foe", "t")>>,
  _tinkatuff_haphazard_hammer |-> <<Perhaps(<<When({Is("foe"), Some}, <<Strip("foe")>>)>>)>>,
  _gumshoos_evidence_gathering |-> <<StopIf(Some), Piles>>,
  _volcarona_torrid_scales |-> <<Maybe("t", "own play"), StopIf(No("t")), StopIf(Some),
        StopIf(No("foe")), StopIf(Some), Piles, Inflict("foe")>>,
  _eelektrik_dynamotor |-> <<OnlyIf({Is("own bench"), Some}), StopIf(Some), Choose("t",
        "own bench"), Attach("t")>>,
  _alomomola_gentle_fin |-> <<StopIf(Among("own bench")), StopIf(Some), Piles, Recruit("own")>>]

(* effects/abilities.py:2623-2772 *)
Abilities2623 == [
  _healing_leaves |-> <<OnlyIf({Is("own"), Some}), Heal("own")>>,
  _metallic_signal |-> <<StopIf(Some), Piles>>,
  _distorted_future |-> <<OnlyIf({Is("own"), Some}), Piles>>,
  _mandibuzz_look_for_prey |-> <<StopIf(Among("foe bench")), StopIf(Some),
        Repeat(<<When({NoneAmong("foe bench"), Some}, <<Piles, Recruit("foe")>>)>>)>>,
  _torrential_whirlpool |-> <<StopIf(No("own bench")), Choose("t", "own bench"), Swap("own", "t"),
        StopIf(No("foe bench")), Bind("u", "foe"), Lift("foe"), When({Is("u")}, <<Join("foe",
        "u")>>), Clear("v"), Perhaps(<<Maybe("v", "foe bench")>>), When({Is("foe bench"), No("v")},
        <<Choose("v", "foe bench")>>), When({Is("v")}, <<Remove("foe", "v"), Seat("foe", "v")>>)>>]

(* effects/abilities.py:2777-2894 *)
Abilities2777 == [
  _hurried_gait |-> <<Maybe("t", "own play"), When({Is("t"), Some}, <<Quit>>), When({Is("t")},
        <<Mark("t")>>), Piles>>,
  _bonded_by_journey |-> <<Maybe("t", "own play"), When({Is("t"), Some}, <<Quit>>), When({Is("t")},
        <<Mark("t")>>), StopIf(Some), Piles>>,
  _golden_flame |-> <<Maybe("t", "own play"), When({Is("t"), Some}, <<Quit>>), When({Is("t")},
        <<Mark("t")>>), StopIf(NoneAmong("own bench")), StopIf(Some), Choose("u", "own bench"),
        Repeat(<<Piles, Raise>>)>>]

(* effects/abilities.py:2897-3023 *)
Abilities2897 == [
  _rocket_brain |-> <<Maybe("t", "own play"), When({Is("t"), Some}, <<Quit>>), When({Is("t")},
        <<Mark("t")>>), StopIf(NoneAmong("own play")), Choose("u", "own play"), Choose("v",
        "all play"), Recount("u"), Recount("v")>>,
  _champions_call |-> <<Maybe("t", "own play"), When({Is("t"), Some}, <<Quit>>), When({Is("t")},
        <<Mark("t")>>), StopIf(Some), Piles>>,
  _sneaky_bite |-> <<StopIf(No("foe play")), Choose("t", "foe play"), Hurt("t"), Check("t")>>]

(* effects/abilities.py:3026-3155 *)
Abilities3026 == [
  _biting_spree |-> <<StopIf(No("foe play")), Each("t", "foe play", <<Hurt("t"), Check("t")>>)>>,
  _x_boot |-> <<Maybe("t", "own play"), When({Is("t"), Some}, <<Quit>>), When({Is("t")},
        <<Mark("t")>>), Repeat(<<Perhaps(<<Continue>>), Piles, Raise>>), Piles>>,
  _reconstitute |-> <<Maybe("t", "own play"), When({Is("t"), Some}, <<Quit>>), StopIf(Some),
        Perhaps(<<Piles>>), When({Is("t")}, <<Mark("t")>>), Piles>>]

(* effects/abilities.py:3158-3282 *)
Abilities3158 == [
  _greedy_order |-> <<StopIf(Some), Perhaps(<<Piles>>)>>,
  _sunny_day |-> <<Maybe("t", "own play"), When({Is("t"), Some}, <<Quit>>), When({Is("t")},
        <<Mark("t")>>), Note>>,
  _showtime |-> <<Maybe("t", "own bench"), StopIf(No("t")), StopIf(Some), Mark("t"), Swap("own",
        "t")>>,
  _scalding_steam |-> <<Maybe("t", "own play"), OnlyIf({Is("t"), Some}), StopIf(Some), Mark("t"),
        When({Is("foe")}, <<Inflict("foe")>>)>>,
  _confectionary_gift |-> <<Maybe("t", "own play"), OnlyIf({Is("t"), Some}), Mark("t"),
        StopIf(NoneAmong("own play")), Choose("u", "own play"), Heal("u")>>]

(* effects/abilities.py:3285-3433 *)
Abilities3285 == [
  _mammoth_hauler |-> <<Maybe("t", "own play"), Perhaps(<<When({Is("t")}, <<Mark("t")>>), Quit>>),
        Perhaps(<<Piles, When({Is("t")}, <<Mark("t")>>), Quit>>), Piles, When({Is("t")},
        <<Mark("t")>>)>>,
  _defiant_horn |-> <<StopIf(No("foe bench")), Choose("t", "foe bench"), Remove("foe", "t"),
        When({Is("foe")}, <<Join("foe", "foe")>>), Seat("foe", "t")>>,
  _ripening_charge |-> <<StopIf(Some), Clear("t"), Perhaps(<<Maybe("t", "own play")>>),
        When({No("t")}, <<Bind("t", "own"), When({No("t")}, <<Choose("t", "own play")>>)>>), Piles,
        Attach("t"), Maybe("u", "own play"), When({Is("u")}, <<Mark("u")>>)>>,
  _calming_light |-> <<Maybe("t", "own play"), If({No("t")}, <<Quit>>, <<IfSame("t", "own", <<>>,
        <<Quit>>)>>), When({Is("foe")}, <<Inflict("foe")>>), When({Is("t")}, <<Mark("t")>>)>>]

(* effects/abilities.py:3438-3553 *)
Abilities3438 == [
  _up_tempo |-> <<Maybe("t", "own play"), StopIf(No("t")), StopIf(Some), Perhaps(<<Piles>>),
        Perhaps(<<Piles>>), When({Is("t")}, <<Mark("t")>>)>>,
  _beckoning_tail_b4 |-> <<StopIf(No("foe bench")), Choose("t", "foe bench"), Remove("foe", "t"),
        Strip("t"), Away("t"), Maybe("u", "own play"), When({Is("u")}, <<Mark("u")>>)>>,
  _captivating_invitation_b4 |-> <<Maybe("t", "own play"), When({Is("foe bench"), Some},
        <<When({Is("foe")}, <<Join("foe", "foe")>>), Lift("foe"), Choose("u", "foe bench"),
        Remove("foe", "u"), Seat("foe", "u")>>), When({Is("t")}, <<Mark("t")>>)>>]

(* effects/abilities.py:3556-3673 *)
Abilities3556 == [
  _happy_switch_b4 |-> <<Maybe("t", "own play"), OnlyIf({Among("own play")}), Perhaps(<<Maybe("u",
        "own play")>>), When({No("u")}, <<Choose("u", "own play")>>), StopIf(Some), Strip("u"),
        When({NoneAmong("own play")}, <<Attach("u"), Quit>>), Choose("v", "own play"), Attach("v"),
        When({Is("t")}, <<Mark("t")>>)>>,
  _metal_maker_b4 |-> <<Maybe("t", "own play"), StopIf(Some), Perhaps(<<When({Is("t")},
        <<Mark("t")>>), Quit>>), Repeat(<<Perhaps(<<Continue>>), Maybe("u", "own play"),
        When({No("u")}, <<Continue>>), Attach("u")>>), Piles, When({Is("t")}, <<Mark("t")>>)>>,
  _battle_hardened_sfa_b4 |-> <<Maybe("t", "own play"), StopIf(No("t")), StopIf(Some), Graze("t"),
        Mark("t")>>]

(* effects/abilities.py:3678-3786 *)
Abilities3678 == [
  _jewel_seeker |-> <<StopIf(Some), Perhaps(<<Piles, Quit>>), Piles>>,
  _time_to_chow_down |-> <<StopIf(NoneAmong("own play")), StopIf(Some), Each("t", "own play",
        <<Heal("t"), Perhaps(<<Piles>>), Strip("t")>>)>>,
  _wafting_heal |-> <<OnlyIf({Is("own"), Some}), StopIf(Some), Heal("own"), Perhaps(<<Piles>>),
        Strip("own")>>]

(* effects/abilities.py:3791-3936 *)
Abilities3791 == [
  _inviting_wink |-> <<StopIf(Some), Repeat(<<Perhaps(<<Continue>>), When({Among("foe bench")},
        <<Break>>), Perhaps(<<Piles, Recruit("foe")>>)>>)>>,
  _glittering_star_pattern |-> <<StopIf(NoneAmong("foe bench")), StopIf(Some), Choose("t",
        "foe bench"), Swap("foe", "t")>>,
  _sudden_shearing |-> <<StopIf(Some), Piles>>,
  _obliging_heal |-> <<StopIf(No("own")), StopIf(Some), Perhaps(<<Heal("own")>>), Cure("own")>>]

(* effects/abilities.py:3941-4078 *)
Abilities3941 == [
  _impromptu_carrier |-> <<Maybe("t", "own play"), StopIf(No("t")), StopIf(Some), Perhaps(<<Piles,
        Quit>>), Perhaps(<<Piles, Quit>>), Perhaps(<<Piles, Attach("t")>>), Piles>>,
  _dig_dig_dig |-> <<Perhaps(<<Piles, Quit>>), Piles>>,
  _torrential_heart |-> <<Clear("t"), If({Is("own"), Some}, <<Bind("t", "own")>>, <<Maybe("t",
        "own bench")>>), StopIf(No("t")), Hurt("t"), Mark("t"), Check("t")>>,
  _buzzing_boost |-> <<OnlyIf({Is("own"), Some}), Perhaps(<<Piles, Quit>>), Perhaps(<<Piles,
        Attach("own")>>), Piles>>]

(* effects/abilities.py:4081-4229 *)
Abilities4081 == [
  _ancient_wing |-> <<StopIf(NoneAmong("foe play")), If({Among("foe play")}, <<Choose("t",
        "foe play"), Fall("t")>>, <<Choose("u", "foe play"), Fall("u")>>), Maybe("v", "own play"),
        When({Is("v")}, <<Mark("v")>>)>>,
  _emergency_rotation |-> <<StopIf(Some), StopIf(Among("own bench")), Piles, Recruit("own")>>,
  _emergency_evolution |-> <<Maybe("t", "own play"), OnlyIf({Is("t"), Some}), Perhaps(<<Piles,
        Quit>>), Rise("t"), Piles, Maybe("u", "own play"), When({Is("u")}, <<Mark("u")>>)>>,
  _overvolt_discharge |-> <<Maybe("t", "own play"), StopIf(No("t")), When({Among("own play"), Some},
        <<Repeat(<<Choose("u", "own play"), Attach("u")>>)>>), Maybe("t", "own play"),
        StopIf(No("t")), Fell("t"), Check("t")>>]

(* effects/abilities.py:4232-4376 *)
Abilities4232 == [
  _flustered_leap |-> <<Maybe("t", "own bench"), StopIf(No("t")), StopIf(Some), Piles, Strip("t"),
        Remove("own", "t"), Heal("t"), Cure("t"), Mark("t"), Away("t"), Mark("t")>>,
  _lustrous_assist |-> <<StopIf(No("own")), StopIf(Some), StopIf(NoneAmong("own bench")),
        Repeat(<<When({NoneAmong("own bench")}, <<Break>>), Perhaps(<<Break>>), Choose("t",
        "own bench"), Perhaps(<<Strip("t"), Attach("own")>>)>>), Maybe("u", "own play"),
        When({Is("u")}, <<Mark("u")>>)>>,
  _fire_off |-> <<Maybe("t", "own play"), OnlyIf({Among("own bench"), Is("own")}), Choose("u",
        "own bench"), Perhaps(<<Strip("u"), Attach("own")>>)>>]

(* effects/abilities.py:4383-4504 *)
Abilities4383 == [
  _hyper_blower |-> <<Maybe("t", "own play"), Unless({Is("foe"), Is("foe bench")}, <<When({Is("t")},
        <<Mark("t")>>), Quit>>), Join("foe", "foe"), Lift("foe"), Choose("u", "foe bench"),
        Remove("foe", "u"), Seat("foe", "u"), When({Is("t")}, <<Mark("t")>>)>>,
  _squawk_and_seize |-> <<Maybe("t", "own play"), Piles, When({Is("t")}, <<Mark("t")>>)>>,
  _restart |-> <<Maybe("t", "own play"), Perhaps(<<Piles>>), When({Is("t")}, <<Mark("t")>>)>>,
  _tandem_unit |-> <<Maybe("t", "own play"), Perhaps(<<Repeat(<<When({Among("own bench")},
        <<Break>>), Perhaps(<<Piles, Recruit("own")>>)>>), Piles>>), When({Is("t")},
        <<Mark("t")>>)>>]

(* effects/abilities.py:4507-4556 *)
Abilities4507 == [
  _quick_search |-> <<StopIf(Some), Note, StopIf(Some), Piles>>]

(* effects/energies.py:33-34 *)
Energies33 == [
  _noop_energy |-> <<>>]

(* effects/energies.py:57-190 *)
Energies57 == [
  _prism_energy |-> <<Maybe("t", "own play"), StopIf(No("t")), Mark("t")>>,
  _growing_grass_energy |-> <<Maybe("t", "own play"), StopIf(No("t")), Mark("t"),
        Perhaps(<<Mark("t"), Heal("t")>>)>>,
  _telepathic_psychic_energy |-> <<Maybe("t", "own play"), StopIf(No("t")), Mark("t"), StopIf(Some),
        Repeat(<<When({Among("own bench")}, <<Break>>), Perhaps(<<Piles, Recruit("own")>>)>>),
        Piles>>,
  _neo_upper_energy |-> <<Maybe("t", "own play")>>,
  _mist_energy |-> <<>>]

(* effects/energies.py:199-282 *)
Energies199 == [
  _legacy_energy |-> <<Maybe("t", "own play"), StopIf(No("t")), Mark("t")>>,
  _enriching_energy |-> <<Piles>>,
  _team_rockets_energy |-> <<Maybe("t", "own play"), StopIf(No("t")), StopIf(Some),
        Perhaps(<<Strip("t")>>)>>,
  _ignition_energy |-> <<Maybe("t", "own play")>>]

(* effects/energies.py:308-344 *)
Energies308 == [
  _rocky_fighting_energy |-> <<Maybe("t", "own play"), StopIf(No("t")), Mark("t")>>,
  _jet_energy |-> <<Maybe("t", "own play"), StopIf(No("t")), IfSame("t", "own", <<>>, <<Bind("u",
        "own"), Seat("own", "t"), Remove("own", "t"), When({Is("u")}, <<Join("own", "u")>>)>>)>>]

(* All of them.                                                             *)
CardScripts == UNION {Range(Trainers280), Range(Trainers423), Range(Trainers556),
    Range(Trainers683), Range(Trainers825), Range(Trainers883), Range(Trainers1021),
    Range(Trainers1169), Range(Trainers1281), Range(Trainers1410), Range(Trainers1529),
    Range(Trainers1643), Range(Trainers1791), Range(Trainers1908), Range(Trainers2044),
    Range(Trainers2185), Range(Trainers2305), Range(Trainers2412), Range(Trainers2542),
    Range(Trainers2685), Range(Trainers2840), Range(Trainers2980), Range(Trainers3122),
    Range(Trainers3263), Range(Trainers3373), Range(Trainers3486), Range(Trainers3622),
    Range(Trainers3771), Range(Trainers3895), Range(Trainers4016), Range(Trainers4161),
    Range(Trainers4282), Range(Trainers4428), Range(Trainers4550), Range(Trainers4685),
    Range(Trainers4793), Range(Trainers4933), Range(Trainers5066), Range(Trainers5199),
    Range(Trainers5335), Range(Trainers5473), Range(Trainers5607), Range(Trainers5761),
    Range(Trainers5901), Range(Trainers6027), Range(Trainers6145), Range(Abilities400),
    Range(Abilities540), Range(Abilities691), Range(Abilities718), Range(Abilities848),
    Range(Abilities956), Range(Abilities1076), Range(Abilities1202), Range(Abilities1356),
    Range(Abilities1483), Range(Abilities1607), Range(Abilities1719), Range(Abilities1858),
    Range(Abilities1961), Range(Abilities2097), Range(Abilities2202), Range(Abilities2256),
    Range(Abilities2317), Range(Abilities2357), Range(Abilities2479), Range(Abilities2623),
    Range(Abilities2777), Range(Abilities2897), Range(Abilities3026), Range(Abilities3158),
    Range(Abilities3285), Range(Abilities3438), Range(Abilities3556), Range(Abilities3678),
    Range(Abilities3791), Range(Abilities3941), Range(Abilities4081), Range(Abilities4232),
    Range(Abilities4383), Range(Abilities4507), Range(Energies33), Range(Energies57),
    Range(Energies199), Range(Energies308)}
=============================================================================
