--------------------------- MODULE AttackEffects1 ---------------------------
(***************************************************************************)
(* The scripts of the attack handlers of effects/attacks.py, lines 937 to  *)
(* 7063, in their order: one record per run of consecutive handlers, one   *)
(* field per handler, named as in the code. EffectOps explains the         *)
(* operations.                                                             *)
(***************************************************************************)
EXTENDS EffectOps, Functions

(* effects/attacks.py:937-1081 *)
Attacks937 == [
  _prism_edge |-> <<Blow, When({Is("own")}, <<Mark("own")>>)>>,
  _blood_moon |-> <<Blow, When({Is("own")}, <<Mark("own")>>)>>,
  _photon_blaster |-> <<Blow, When({Is("own")}, <<Mark("own")>>)>>,
  _eon_blade |-> <<Blow, When({Is("own")}, <<Mark("own")>>)>>,
  _smolder_sault |-> <<Blow, When({Is("own")}, <<Mark("own")>>)>>,
  _rampaging_thunder |-> <<Blow, When({Is("own")}, <<Mark("own")>>)>>,
  _clutch |-> <<Blow, When({Is("foe"), No("over")}, <<Mark("foe")>>)>>,
  _sob |-> <<Blow, When({Is("foe"), No("over")}, <<Mark("foe")>>)>>,
  _shadow_bind |-> <<Blow, When({Is("foe"), No("over")}, <<Mark("foe")>>)>>,
  _absolute_snow |-> <<Blow, When({Is("foe"), No("over")}, <<Inflict("foe")>>)>>,
  _numbing_water |-> <<Blow, When({Is("foe"), No("over")}, <<Perhaps(<<Inflict("foe")>>)>>)>>,
  _mind_bend |-> <<Blow, When({Is("foe"), No("over")}, <<Inflict("foe")>>)>>,
  _poison_spray |-> <<StopIf(No("foe")), StopIf(Some), Inflict("foe")>>]

(* effects/attacks.py:1084-1192 *)
Attacks1084 == [
  _poison_chain_pecharunt |-> <<Blow, When({Is("foe"), No("over")}, <<StopIf(Some), Cure("foe"),
        Inflict("foe")>>)>>,
  _double_draw |-> <<Piles>>,
  _allure |-> <<Piles>>,
  _collect |-> <<Piles>>,
  _filch_impidimp |-> <<Piles>>,
  _shinobi_blade |-> <<Blow, OnlyIf({No("over"), Some}), Piles>>,
  _call_sign |-> <<StopIf(Some), Perhaps(<<Piles, Quit>>), Piles>>]

(* effects/attacks.py:1196-1344 *)
Attacks1196 == [
  _call_for_family |-> <<StopIf(Some), Repeat(<<When({Among("own bench")}, <<Break>>),
        Perhaps(<<Piles, Recruit("own")>>)>>), Piles>>,
  _come_and_get_you |-> <<StopIf(Some), Repeat(<<When({Among("own bench")}, <<Break>>),
        Perhaps(<<Piles, Recruit("own")>>)>>)>>,
  _come_and_get_you_sfa |-> <<StopIf(Some), Repeat(<<When({Among("own bench")}, <<Break>>),
        Perhaps(<<Piles, Recruit("own")>>)>>)>>,
  _powerful_hand |-> <<StopIf(No("foe")), StopIf(Some), Hurt("foe"), Check("foe")>>]

(* effects/attacks.py:1347-1492 *)
Attacks1347 == [
  _terminal_period |-> <<StopIf(No("foe")), Perhaps(<<Fell("foe"), Check("foe")>>)>>,
  _claw_of_darkness |-> <<Blow, OnlyIf({No("over"), Some}), Perhaps(<<Piles>>)>>,
  _rapid_fire_combo |-> <<OnlyIf({Is("foe"), Is("own")}), Strike>>,
  _fighting_wings |-> <<Strike>>,
  _growl |-> <<When({Is("foe")}, <<Mark("foe")>>)>>,
  _resentful_refrain |-> <<StopIf(No("foe")), Strike>>,
  _cosmic_beam |-> <<StopIf(Some), Strike>>,
  _shred |-> <<Strike>>,
  _ground_melter |-> <<Perhaps(<<Note, Stadium>>), Strike>>,
  _love_resonance |-> <<Strike>>]

(* effects/attacks.py:1495-1606 *)
Attacks1495 == [
  _energy_feather |-> <<StopIf(No("own")), Strike>>,
  _demolish |-> <<Strike>>,
  _relentless_punches |-> <<StopIf(No("foe")), Strike>>,
  _irritated_outburst |-> <<Strike>>,
  _coordinated_throwing |-> <<Strike>>,
  _mad_bite |-> <<StopIf(No("foe")), Strike>>,
  _back_draft |-> <<Strike>>,
  _full_moon_rondo |-> <<Strike>>,
  _powerful_rage |-> <<StopIf(No("own")), Strike>>,
  _superb_scissors |-> <<Strike>>,
  _rocket_rush |-> <<Strike>>,
  _double_kick |-> <<StopIf(Some), Strike>>,
  _dark_frost |-> <<Strike>>]

(* effects/attacks.py:1613-1752 *)
Attacks1613 == [
  _torrential_pump |-> <<Blow, StopIf(Ended), OnlyIf({Is("foe bench"), Is("own")}), StopIf(Some),
        Perhaps(<<Strip("own")>>), StopIf(Some), Clear("t"), Perhaps(<<Maybe("t", "foe bench")>>),
        When({Is("foe bench"), No("t")}, <<Choose("t", "foe bench")>>), When({Is("t")},
        <<Splash("t")>>)>>,
  _mirage_barrage |-> <<StopIf(No("own")), StopIf(Some), Strip("own"), Keep("all_opp_pokemon",
        "foe play"), StopIf(No("all_opp_pokemon")), Choose("t", "all_opp_pokemon"), IfSame("t",
        "foe", <<Strike>>, <<Splash("t")>>), StopIf(Ended), Choose("t", "all_opp_pokemon"),
        IfSame("t", "foe", <<Strike>>, <<Splash("t")>>), StopIf(Ended)>>]

(* effects/attacks.py:1755-1899 *)
Attacks1755 == [
  _phantom_dive |-> <<Blow, StopIf(Ended), Repeat(<<When({No("foe bench")}, <<Break>>), Clear("t"),
        Perhaps(<<Maybe("t", "foe bench")>>), When({Is("foe bench"), No("t")}, <<Choose("t",
        "foe bench")>>), When({Is("t")}, <<Splash("t")>>), StopIf(Ended)>>)>>,
  _flamebody_cannon |-> <<Blow, StopIf(Ended), When({Is("own")}, <<Strip("own")>>),
        StopIf(No("foe bench")), Clear("t"), Perhaps(<<Maybe("t", "foe bench")>>),
        When({Is("foe bench"), No("t")}, <<Choose("t", "foe bench")>>), When({Is("t")},
        <<Splash("t")>>)>>,
  _oil_salvo |-> <<StopIf(No("foe play")), Repeat(<<When({No("foe play")}, <<Break>>), Choose("t",
        "foe play"), IfSame("t", "foe", <<Strike>>, <<Splash("t")>>), StopIf(Ended)>>)>>,
  _erasure_ball |-> <<Perhaps(<<Strike, Quit>>), Strike>>]

(* effects/attacks.py:1902-2043 *)
Attacks1902 == [
  _strike_the_sleeper |-> <<StopIf(No("foe bench")), Clear("t"), Perhaps(<<Maybe("t",
        "foe bench")>>), When({Is("foe bench"), No("t")}, <<Choose("t", "foe bench")>>),
        When({Is("t")}, <<StopIf(Some), Splash("t")>>)>>,
  _shadow_bullet |-> <<Blow, StopIf(Ended), StopIf(No("foe bench")), Clear("t"),
        Perhaps(<<Maybe("t", "foe bench")>>), When({Is("foe bench"), No("t")}, <<Choose("t",
        "foe bench")>>), When({Is("t")}, <<Splash("t")>>)>>,
  _myriad_leaf_shower |-> <<Strike>>,
  _teleportation_attack |-> <<Blow, StopIf(Ended), StopIf(No("own bench")), Choose("t",
        "own bench"), Swap("own", "t")>>,
  _push_down |-> <<Blow, StopIf(Ended), StopIf(No("foe bench")), Bind("t", "foe"), Lift("foe"),
        When({Is("t")}, <<Join("foe", "t")>>), Clear("u"), Perhaps(<<Maybe("u", "foe bench")>>),
        When({Is("foe bench"), No("u")}, <<Choose("u", "foe bench")>>), When({Is("u")},
        <<Remove("foe", "u"), Seat("foe", "u")>>)>>]

(* effects/attacks.py:2046-2188 *)
Attacks2046 == [
  _tuck_tail |-> <<Blow, StopIf(Ended), StopIf(No("own")), Bind("t", "own"), Perhaps(<<Piles>>),
        Strip("t"), Lift("own"), Away("t")>>,
  _burst_roar |-> <<Piles>>,
  _bellowing_thunder |-> <<StopIf(Some), Strike>>,
  _icicle_loop |-> <<Blow, StopIf(Ended), OnlyIf({Is("own"), Some}), Perhaps(<<Strip("own"),
        Perhaps(<<Piles>>)>>)>>]

(* effects/attacks.py:2191-2323 *)
Attacks2191 == [
  _trading_places |-> <<StopIf(No("own bench")), Choose("t", "own bench"), Swap("own", "t")>>,
  _ascension |-> <<StopIf(No("own")), StopIf(Some), Repeat(<<When({Is("own"), Some}, <<Bind("t",
        "own"), Piles, Evolve("own"), Piles>>)>>)>>,
  _take_down |-> <<Blow, StopIf(Ended), When({Is("own")}, <<Hurt("own"), Check("own")>>)>>,
  _nutrients |-> <<StopIf(NoneAmong("own play")), Choose("t", "own play"), Heal("t")>>,
  _aroma_shot |-> <<Blow, When({Is("own")}, <<Cure("own")>>)>>]

(* effects/attacks.py:2344-2490 *)
Attacks2344 == [
  _rabsca_psychic |-> <<StopIf(No("foe")), Strike>>,
  _cruel_arrow |-> <<StopIf(No("foe play")), When({No("foe bench")}, <<Strike, Quit>>), Clear("t"),
        Perhaps(<<Maybe("t", "foe play")>>), When({No("t")}, <<Bind("t", "foe"), When({No("t")},
        <<Choose("t", "foe bench")>>)>>), IfSame("t", "foe", <<Strike>>, <<Splash("t")>>)>>,
  _overflowing_wishes |-> <<Unless({Is("own bench"), Some}, <<Piles, Quit>>), Perhaps(<<Piles,
        Quit>>), Each("t", "own bench", <<Perhaps(<<Break>>), Piles, Attach("t")>>), Piles>>,
  _mega_symphonia |-> <<StopIf(Some), Strike>>,
  _shooting_moons |-> <<Perhaps(<<Strike, Quit>>), Perhaps(<<Piles>>), Strike>>,
  _itchy_pollen |-> <<Blow, When({No("over")}, <<Note>>)>>]

(* effects/attacks.py:2493-2501 *)
Attacks2493 == [
  _poison_chain |-> <<Blow, When({Is("foe"), No("over")}, <<Inflict("foe"), Mark("foe")>>)>>]

(* effects/attacks.py:2680-2829 *)
Attacks2680 == [
  _gooey_thread |-> <<Blow, When({Is("foe")}, <<Mark("foe")>>)>>,
  _poison_ring |-> <<Blow, StopIf(Ended), When({Is("foe")}, <<Inflict("foe"), Mark("foe")>>)>>,
  _icy_wind |-> <<Blow, StopIf(Ended), When({Is("foe")}, <<Inflict("foe")>>)>>,
  _thunder_shock_dedenne |-> <<Blow, StopIf(Ended), Perhaps(<<When({Is("foe")},
        <<Inflict("foe")>>)>>)>>,
  _perplex |-> <<When({Is("foe")}, <<Inflict("foe")>>)>>,
  _poison_jab |-> <<Blow, StopIf(Ended), When({Is("foe")}, <<Inflict("foe")>>)>>,
  _hazardous_tail |-> <<Blow, StopIf(Ended), When({Is("own")}, <<Hurt("own"), Check("own"),
        StopIf(Ended)>>), When({Is("foe")}, <<Inflict("foe")>>)>>,
  _ericas_gloom_poison_spray |-> <<Blow, StopIf(Ended), When({Is("foe")}, <<Inflict("foe")>>)>>,
  _bind |-> <<Blow, StopIf(Ended), Perhaps(<<When({Is("foe")}, <<Inflict("foe")>>)>>)>>,
  _stun_spore |-> <<Blow, StopIf(Ended), Perhaps(<<When({Is("foe")}, <<Inflict("foe")>>)>>)>>,
  _super_singe |-> <<Blow, StopIf(Ended), When({Is("foe")}, <<Inflict("foe")>>)>>,
  _collapse |-> <<Blow, StopIf(Ended), When({Is("own")}, <<Inflict("own")>>)>>]

(* effects/attacks.py:2832-2978 *)
Attacks2832 == [
  _twilight_poison |-> <<Blow, StopIf(Ended), When({Is("foe")}, <<Inflict("foe")>>)>>,
  _bloom_powder |-> <<Blow, StopIf(Ended), When({Is("foe")}, <<Inflict("foe")>>)>>,
  _dire_nails |-> <<Blow, StopIf(Ended), When({Is("foe")}, <<Inflict("foe")>>),
        When({Is("own bench")}, <<Choose("t", "own bench"), Swap("own", "t")>>)>>,
  _heat_breath |-> <<Strike>>,
  _leafy_cyclone |-> <<Blow, When({Is("own")}, <<Mark("own")>>)>>,
  _metal_slash |-> <<Blow, When({Is("own")}, <<Mark("own")>>)>>,
  _dark_strike |-> <<Blow, When({Is("own")}, <<Mark("own")>>)>>,
  _freezing_chill |-> <<Blow, StopIf(Ended), When({Is("foe")}, <<Mark("foe")>>)>>,
  _nap |-> <<When({Is("own"), Some}, <<Heal("own")>>)>>,
  _sweet_scent |-> <<StopIf(NoneAmong("own play")), Choose("t", "own play"), Heal("t")>>]

(* effects/attacks.py:2981-2993 *)
Attacks2981 == [
  _draining_kiss |-> <<Blow, StopIf(Ended), When({Is("own"), Some}, <<Heal("own")>>)>>]

(* effects/attacks.py:3014-3157 *)
Attacks3014 == [
  _regal_command |-> <<Strike>>,
  _solar_coiling |-> <<Strike>>,
  _hydro_turn |-> <<StopIf(No("own")), Strike, OnlyIf({No("over"), Is("own bench")}), Choose("t",
        "own bench"), Swap("own", "t")>>,
  _incessant_onslaught |-> <<StopIf(Some), Strike>>,
  _strong_volt |-> <<Blow, StopIf(Ended), OnlyIf({Is("own"), Some}), Perhaps(<<Strip("own"),
        Quit>>), Perhaps(<<Strip("own")>>)>>,
  _double_eater |-> <<StopIf(Some), Perhaps(<<Piles>>), StopIf(Some), Strike>>,
  _meowstic_psychic |-> <<StopIf(No("foe")), Strike>>,
  _get_angry |-> <<StopIf(No("own")), StopIf(Some), Strike>>]

(* effects/attacks.py:3160-3286 *)
Attacks3160 == [
  _vengeful_kick |-> <<Strike>>,
  _mind_jack |-> <<Strike>>,
  _retaliatory_incisors |-> <<StopIf(Some), Strike>>,
  _flower_garden_rondo |-> <<StopIf(Some), Strike>>,
  _energy_straw |-> <<StopIf(Some), Strike>>,
  _flare_fall |-> <<Strike>>,
  _giant_bouquet |-> <<StopIf(No("own")), Strike>>,
  _roasting_burn |-> <<StopIf(No("foe")), Perhaps(<<Strike>>)>>,
  _crimson_blast |-> <<Blow, StopIf(Ended), When({Is("own")}, <<Hurt("own"), Check("own")>>)>>,
  _powerful_steam |-> <<StopIf(No("own")), StopIf(Some), Strike>>]

(* effects/attacks.py:3300-3424 *)
Attacks3300 == [
  _wreak_havoc |-> <<Blow, StopIf(Ended), Perhaps(<<Piles>>)>>,
  _surprise_attack |-> <<Perhaps(<<Strike>>)>>,
  _send_flowers |-> <<Unless({Among("own bench"), Some}, <<Piles, Quit>>), Perhaps(<<Piles, Quit>>),
        Choose("t", "own bench"), Perhaps(<<Piles, Attach("t")>>), Piles>>,
  _find_a_friend |-> <<Perhaps(<<Piles, Quit>>), Piles>>]

(* effects/attacks.py:3427-3569 *)
Attacks3427 == [
  _feather_shot |-> <<When({Is("own")}, <<Strip("own")>>), StopIf(No("foe play")),
        When({No("foe bench")}, <<Strike, Quit>>), Clear("t"), Perhaps(<<Maybe("t", "foe play")>>),
        When({No("t")}, <<Bind("t", "foe"), When({No("t")}, <<Choose("t", "foe bench")>>)>>),
        IfSame("t", "foe", <<Strike>>, <<Splash("t")>>)>>,
  _tail_generator |-> <<StopIf(No("own")), StopIf(Some), Piles, Attach("own"), Perhaps(<<Piles>>)>>,
  _chirp |-> <<Perhaps(<<Piles, Quit>>), Piles>>]

(* effects/attacks.py:3572-3706 *)
Attacks3572 == [
  _hand_trim |-> <<Perhaps(<<Piles>>)>>,
  _gormandizer |-> <<StopIf(Some), Perhaps(<<Piles, Quit>>), Repeat(<<When({Is("own play"), Some},
        <<Piles, Clear("t"), Perhaps(<<Maybe("t", "own play")>>), When({No("t")}, <<Bind("t",
        "own"), When({No("t")}, <<Choose("t", "own play")>>)>>), Attach("t")>>)>>), Piles>>,
  _explosion_y |-> <<When({Is("own"), Some}, <<Perhaps(<<Strip("own")>>)>>), StopIf(No("foe play")),
        When({No("foe bench")}, <<Strike, Quit>>), Clear("t"), Perhaps(<<Maybe("t", "foe play")>>),
        When({No("t")}, <<Bind("t", "foe"), When({No("t")}, <<Choose("t", "foe bench")>>)>>),
        IfSame("t", "foe", <<Strike>>, <<Splash("t")>>)>>]

(* effects/attacks.py:3709-3821 *)
Attacks3709 == [
  _power_stomp |-> <<Blow, StopIf(Ended), OnlyIf({Is("own"), Some}), Perhaps(<<Strip("own"),
        Quit>>), Perhaps(<<Strip("own")>>)>>,
  _nasty_plot |-> <<StopIf(Some), Piles>>,
  _jetting_blow |-> <<Blow, StopIf(Ended), StopIf(No("foe bench")), Clear("t"), Perhaps(<<Maybe("t",
        "foe bench")>>), When({Is("foe bench"), No("t")}, <<Choose("t", "foe bench")>>),
        When({Is("t")}, <<Splash("t")>>)>>,
  _nebula_beam |-> <<Strike>>,
  _earthquake |-> <<Blow, StopIf(Ended), Each("t", "own bench", <<Perhaps(<<Continue>>), Hurt("t"),
        Check("t"), StopIf(Ended)>>)>>]

(* effects/attacks.py:3826-3966 *)
Attacks3826 == [
  _obliterating_nose |-> <<Blow, StopIf(Ended), OnlyIf({Is("own"), Some}), Perhaps(<<Strip("own"),
        Quit>>), Perhaps(<<Strip("own")>>)>>,
  _sonic_ripper |-> <<When({Is("own")}, <<Strip("own")>>), Strike>>,
  _rock_tumble |-> <<Strike>>,
  _screw_knuckle |-> <<Blow, StopIf(Ended), OnlyIf({Is("own"), Some}), Perhaps(<<Strip("own")>>)>>,
  _blow_through |-> <<Strike>>,
  _crushing_arrow |-> <<Blow, StopIf(Ended), OnlyIf({Is("foe"), Some}), Perhaps(<<Strip("foe")>>)>>,
  _follow_me |-> <<StopIf(No("foe bench")), Choose("t", "foe bench"), Swap("foe", "t")>>]

(* effects/attacks.py:3969-4110 *)
Attacks3969 == [
  _gaia_wave |-> <<Blow, StopIf(Ended), When({Is("own")}, <<Mark("own")>>)>>,
  _nullifying_zero |-> <<StopIf(No("foe play")), Each("t", "foe play", <<Perhaps(<<IfSame("t",
        "foe", <<Strike>>, <<Splash("t")>>), StopIf(Ended)>>)>>)>>,
  _soul_destroyer |-> <<Each("t", "foe play", <<Perhaps(<<Fell("t"), Check("t"),
        StopIf(Ended)>>)>>)>>,
  _strafe |-> <<Blow, StopIf(Ended), StopIf(No("own bench")), StopIf(Some), Choose("t",
        "own bench"), Swap("own", "t")>>,
  _rising_blade |-> <<Strike>>,
  _weaponized_swords |-> <<StopIf(Some), Strike>>,
  _scrape_off |-> <<When({Is("foe"), Some}, <<Strip("foe")>>), Blow>>,
  _haunt |-> <<StopIf(No("foe")), Hurt("foe"), Check("foe")>>,
  _geobuster |-> <<Blow, StopIf(Ended), When({Is("own"), Some}, <<Strip("own")>>)>>]

(* effects/attacks.py:4137-4277 *)
Attacks4137 == [
  _ambush |-> <<Blow, StopIf(Ended), Perhaps(<<Strike>>)>>,
  _ember |-> <<Blow, StopIf(Ended), When({Is("own"), Some}, <<Strip("own")>>)>>,
  _sudden_scorching |-> <<StopIf(Some), Perhaps(<<Piles>>)>>,
  _flamethrower |-> <<Blow, StopIf(Ended), When({Is("own"), Some}, <<Strip("own")>>)>>,
  _flare_strike_asc |-> <<Blow, StopIf(Ended), When({Is("own")}, <<Mark("own")>>)>>,
  _garnet_volley |-> <<StopIf(No("foe play")), Clear("t"), Perhaps(<<Maybe("t", "foe play")>>),
        When({No("t")}, <<Bind("t", "foe"), When({No("t")}, <<Choose("t", "foe bench")>>)>>),
        IfSame("t", "foe", <<Strike>>, <<Splash("t")>>)>>,
  _hydro_pump_asc |-> <<Strike>>,
  _crunch |-> <<Blow, StopIf(Ended), Perhaps(<<When({Is("foe"), Some}, <<Strip("foe")>>)>>)>>,
  _mortal_crunch |-> <<Strike>>]

(* effects/attacks.py:4280-4429 *)
Attacks4280 == [
  _hail_claw |-> <<Blow, StopIf(Ended), When({Is("own")}, <<Strip("own")>>), When({Is("foe"),
        No("over")}, <<Inflict("foe")>>)>>,
  _regi_charge_w |-> <<OnlyIf({Is("own"), Some}), Repeat(<<When({Is("own"), Some}, <<Piles,
        Attach("own")>>)>>)>>,
  _ice_prison |-> <<Blow, StopIf(Ended), When({Is("own")}, <<Perhaps(<<Strip("own")>>)>>),
        When({Is("foe"), No("over")}, <<Inflict("foe")>>)>>,
  _sheer_cold |-> <<Blow, When({Is("foe"), No("over")}, <<Mark("foe")>>)>>,
  _snow_coating |-> <<Each("t", "foe play", <<Perhaps(<<Hurt("t"), Check("t"), StopIf(Ended)>>)>>)>>,
  _blizzard |-> <<Strike, StopIf(Ended), Each("t", "foe bench", <<Splash("t"), StopIf(Ended)>>)>>,
  _cold_cyclone |-> <<Blow, StopIf(Ended), OnlyIf({Is("own"), Is("own bench")}), StopIf(Some),
        Choose("t", "own bench"), Strip("own"), Attach("t")>>]

(* As it would be if _ice_shot did not ask whether there is a Bench to hit.    *)
Attacks4432Unasked == [_ice_shot |-> <<Blow, StopIf(Ended), Choose("t", "foe bench"), Splash("t")>>]

(* effects/attacks.py:4432-4492 *)
Attacks4432 == [
  _ice_shot |-> <<Blow, StopIf(Ended), StopIf(No("foe bench")), Choose("t", "foe bench"),
        Splash("t")>>,
  _frosty_typhoon |-> <<Blow, StopIf(Ended), When({Is("own")}, <<Mark("own")>>)>>,
  _quick_blow |-> <<Blow, StopIf(Ended), Perhaps(<<Strike>>)>>,
  _discard_one_l_energy |-> <<Blow, StopIf(Ended), When({Is("own")},
        <<Perhaps(<<Strip("own")>>)>>)>>]

(* effects/attacks.py:4509-4516 *)
Attacks4509 == [
  _hundred_hitting_ball |-> <<Strike>>]

(* effects/attacks.py:4534-4661 *)
Attacks4534 == [
  _split_bomb |-> <<StopIf(No("foe play")), When({Among("foe play")}, <<Either(<<Strike>>,
        <<Choose("t", "foe play"), Splash("t")>>), Quit>>), Each("u", "foe play",
        <<Perhaps(<<Continue>>), IfSame("u", "foe", <<Strike>>, <<Splash("u")>>), StopIf(Ended)>>)>>,
  _disaster_shock |-> <<Blow, StopIf(Ended), StopIf(No("own")), StopIf(Some),
        Perhaps(<<Strip("own")>>), When({Is("foe"), No("over")}, <<Inflict("foe")>>)>>,
  _pouncing_trap |-> <<Blow, When({Is("foe"), No("over")}, <<Mark("foe")>>)>>,
  _powerful_bolt |-> <<StopIf(Some), Strike>>,
  _volt_switch_l |-> <<Blow, StopIf(Ended), StopIf(NoneAmong("own bench")), Choose("t",
        "own bench"), Swap("own", "t")>>]

(* effects/attacks.py:4670-4704 *)
Attacks4670 == [
  _fast_flight |-> <<Piles>>,
  _thunder_blast |-> <<Blow, StopIf(Ended), When({Is("own")}, <<Perhaps(<<Strip("own")>>)>>)>>,
  _spiky_thunder |-> <<Blow, StopIf(Ended), Piles>>]

(* effects/attacks.py:4719-4773 *)
Attacks4719 == [
  _quick_attack_asc |-> <<Blow, StopIf(Ended), Perhaps(<<Strike>>)>>,
  _hadron_spark |-> <<Strike>>,
  _metronome |-> <<StopIf(No("foe")), StopIf(Some), Perhaps(<<Strike>>), Use("foe")>>]

(* effects/attacks.py:4787-4922 *)
Attacks4787 == [
  _focused_wish |-> <<Blow, StopIf(Ended), Perhaps(<<Strike>>)>>,
  _tri_kinesis |-> <<StopIf(Some), StopIf(No("foe play")), Clear("t"), Perhaps(<<Maybe("t",
        "foe play")>>), When({No("t")}, <<Bind("t", "foe"), When({No("t")}, <<Choose("t",
        "foe bench")>>)>>), Fell("t"), Check("t")>>,
  _double_edge |-> <<Blow, StopIf(Ended), When({Is("own")}, <<Hurt("own"), Check("own")>>)>>,
  _erasure_ball_asc |-> <<Perhaps(<<Strike, Quit>>), Strike>>,
  _hide |-> <<Perhaps(<<When({Is("own")}, <<Mark("own")>>)>>)>>,
  _energized_balloon |-> <<Strike>>,
  _ascension_misdreavus |-> <<StopIf(No("own")), StopIf(Some), Repeat(<<When({Is("own"), Some},
        <<Bind("t", "own"), Piles, Evolve("own"), Piles>>)>>)>>]

(* effects/attacks.py:4925-5032 *)
Attacks4925 == [
  _assassins_magic |-> <<Blow, StopIf(Ended), When({Is("foe"), Is("foe bench"), Some}, <<Choose("t",
        "foe bench"), Hurt("t"), Check("t")>>)>>,
  _cursed_words |-> <<Blow, StopIf(Ended), Perhaps(<<Piles, Quit>>), Piles>>,
  _roto_call |-> <<Perhaps(<<Piles, Quit>>), Piles>>,
  _gadget_show |-> <<StopIf(Some), Strike>>]

(* effects/attacks.py:5051-5199 *)
Attacks5051 == [
  _horrifying_revenge |-> <<Strike>>,
  _phantasmal_barrage |-> <<When({Is("own")}, <<Strip("own")>>), StopIf(No("foe play")), Clear("t"),
        Perhaps(<<Maybe("t", "foe play")>>), When({No("t")}, <<Bind("t", "foe"), When({No("t")},
        <<Choose("t", "foe bench")>>)>>), Splash("t")>>,
  _relentless_burrowing |-> <<Perhaps(<<Piles>>)>>,
  _spin_and_draw |-> <<Piles>>,
  _seventh_kick |-> <<StopIf(Some), Strike>>,
  _cosmic_beam_asc |-> <<StopIf(Some), Strike>>,
  _regi_charge_f |-> <<OnlyIf({Is("own"), Some}), Repeat(<<When({Is("own"), Some}, <<Piles,
        Attach("own")>>)>>)>>,
  _giant_rock |-> <<Strike>>]

(* effects/attacks.py:5202-5341 *)
Attacks5202 == [
  _megaton_fall_groudon |-> <<Blow, StopIf(Ended), When({Is("own")}, <<Hurt("own"),
        Check("own")>>)>>,
  _rock_hurl_gible |-> <<Strike>>,
  _corkscrew_dive |-> <<Blow, StopIf(Ended), Perhaps(<<Piles>>)>>,
  _draconic_buster |-> <<Blow, StopIf(Ended), When({Is("own")}, <<Strip("own")>>)>>,
  _accelerating_stab |-> <<Blow, StopIf(Ended), When({Is("own")}, <<Mark("own")>>)>>,
  _aura_jab |-> <<Blow, StopIf(Ended), StopIf(No("own bench")), StopIf(Some),
        Repeat(<<Unless({Is("own bench"), Some}, <<Continue>>), Choose("t", "own bench"), Piles,
        Attach("t")>>)>>,
  _mega_brave |-> <<Blow, StopIf(Ended), When({Is("own")}, <<Mark("own")>>)>>,
  _big_bite |-> <<Blow, StopIf(Ended), When({Is("foe")}, <<Mark("foe")>>)>>,
  _flopping_trap |-> <<Strike>>]

(* effects/attacks.py:5344-5437 *)
Attacks5344 == [
  _guard_press |-> <<Blow, StopIf(Ended), When({Is("own")}, <<Mark("own")>>)>>,
  _somersault_dive |-> <<Perhaps(<<Note, Stadium>>), Strike>>,
  _counter_jewel |-> <<Strike>>,
  _tar_cannon |-> <<StopIf(Some), StopIf(No("foe play")), Clear("t"), Perhaps(<<Maybe("t",
        "foe play")>>), When({No("t")}, <<Bind("t", "foe"), When({No("t")}, <<Choose("t",
        "foe bench")>>)>>), IfSame("t", "foe", <<Strike>>, <<Splash("t")>>)>>,
  _bulky_bump |-> <<Blow, StopIf(Ended), When({Is("own")}, <<Perhaps(<<Strip("own")>>)>>)>>,
  _orichalcum_fang |-> <<Strike>>]

(* effects/attacks.py:5452-5594 *)
Attacks5452 == [
  _settle_the_score |-> <<Strike>>,
  _void_gale |-> <<Blow, StopIf(Ended), OnlyIf({Is("own"), Is("own bench"), Some}), Choose("t",
        "own bench"), Strip("own"), Attach("t")>>,
  _deceit |-> <<Perhaps(<<Piles, Quit>>), Piles>>,
  _torment |-> <<Blow, StopIf(Ended), StopIf(No("foe")), StopIf(Some), Mark("foe")>>,
  _rocket_feathers |-> <<StopIf(Some), Perhaps(<<Piles>>), StopIf(Some), Strike>>]

(* effects/attacks.py:5597-5736 *)
Attacks5597 == [
  _gnaw_off |-> <<Blow, StopIf(Ended), Perhaps(<<Strike>>)>>,
  _scarring_shout |-> <<OnlyIf({Is("foe"), Some}), Strike>>,
  _punk_smash |-> <<Blow, StopIf(Ended), When({Is("own"), Some}, <<Strip("own")>>)>>,
  _raging_curse |-> <<StopIf(Some), Strike>>,
  _knock_off |-> <<Blow, StopIf(Ended), Perhaps(<<Piles>>)>>,
  _outlaw_leg |-> <<Blow, StopIf(Ended), Perhaps(<<Piles>>), Perhaps(<<Piles>>)>>,
  _thunderbolt_rotom |-> <<Blow, StopIf(Ended), When({Is("own")}, <<Strip("own")>>)>>,
  _bone_shot |-> <<StopIf(No("foe play")), Choose("t", "foe play"), IfSame("t", "foe", <<Strike>>,
        <<Splash("t")>>)>>,
  _vulture_claw |-> <<Blow, StopIf(Ended), Perhaps(<<Piles>>)>>,
  _masters_punch |-> <<Strike>>,
  _filch |-> <<Piles>>]

(* effects/attacks.py:5739-5787 *)
Attacks5739 == [
  _knuckle_impact |-> <<Blow, StopIf(Ended), When({Is("own")}, <<Mark("own")>>)>>,
  _mochi_rush |-> <<Strike>>,
  _regi_charge_m |-> <<OnlyIf({Is("own"), Some}), Perhaps(<<Piles, Attach("own")>>)>>,
  _protecting_steel |-> <<Blow, StopIf(Ended), When({Is("own")}, <<Mark("own")>>)>>]

(* effects/attacks.py:5800-5928 *)
Attacks5800 == [
  _double_edged_slash |-> <<Blow, StopIf(Ended), When({Is("own")}, <<Hurt("own"), Check("own")>>)>>,
  _stun_needle |-> <<Blow, StopIf(Ended), Perhaps(<<When({Is("foe")}, <<Inflict("foe")>>)>>)>>,
  _spiky_rolling |-> <<Strike>>,
  _powerful_rage_reshiram |-> <<Strike>>,
  _knickknack_carrying |-> <<StopIf(Some), Perhaps(<<Piles>>)>>,
  _agility_noivern |-> <<Blow, StopIf(Ended), Perhaps(<<When({Is("own")}, <<Mark("own")>>)>>)>>,
  _enhanced_blade |-> <<Strike>>,
  _pawcket_pilfer |-> <<>>,
  _fury_swipes |-> <<Strike>>,
  _comet_punch |-> <<Strike>>,
  _wicked_impact |-> <<Strike>>,
  _rising_lunge |-> <<Strike>>,
  _work_rush |-> <<Strike>>,
  _energy_crush |-> <<Strike>>]

(* effects/attacks.py:5940-5949 *)
Attacks5940 == [
  _wild_scissors |-> <<Blow, StopIf(Ended), When({Is("own")}, <<Hurt("own"), Check("own")>>)>>]

(* effects/attacks.py:5973-6010 *)
Attacks5973 == [
  _facade |-> <<Strike>>,
  _feathery_strike |-> <<Blow, StopIf(Ended), When({Is("own")}, <<Perhaps(<<Strip("own")>>)>>),
        When({Is("foe bench")}, <<Choose("t", "foe bench"), Splash("t")>>)>>]

(* effects/attacks.py:6022-6087 *)
Attacks6022 == [
  _kaleidowaltz |-> <<StopIf(Some), Repeat(<<When({Is("own play"), Some}, <<Piles, Choose("t",
        "own play"), Attach("t")>>)>>)>>,
  _ear_force |-> <<Strike>>,
  _peck_the_wound |-> <<Strike>>,
  _dozing_draw |-> <<When({Is("own")}, <<Inflict("own")>>), Piles>>,
  _dragon_strike |-> <<Blow, StopIf(Ended), When({Is("own")}, <<Mark("own")>>)>>]

(* effects/attacks.py:6130-6263 *)
Attacks6130 == [
  _unified_beatdown |-> <<Strike>>,
  _crown_opal |-> <<Blow, StopIf(Ended), When({Is("own")}, <<Mark("own")>>)>>,
  _breakthrough_assault |-> <<Strike>>,
  _ryuno_glide |-> <<Blow, StopIf(Ended), When({Is("own")}, <<Perhaps(<<Strip("own")>>)>>)>>,
  _disperse_drool |-> <<Blow, StopIf(Ended), Each("t", "foe bench", <<Splash("t"), StopIf(Ended)>>),
        Each("t", "own bench", <<Splash("t"), StopIf(Ended)>>)>>,
  _pollen_bomb |-> <<Blow, StopIf(Ended), When({Is("foe")}, <<Inflict("foe")>>)>>,
  _lively_flower |-> <<Blow>>,
  _juggernaut_horn |-> <<Strike>>,
  _mountain_ramming |-> <<Blow, StopIf(Ended), Perhaps(<<Piles>>)>>,
  _cornerstone_mountain_ramming |-> <<Blow, StopIf(Ended), Perhaps(<<Piles>>)>>,
  _bugs_cannon |-> <<StopIf(Some), StopIf(No("foe play")), Choose("t", "foe play"), IfSame("t",
        "foe", <<Strike>>, <<Splash("t")>>)>>,
  _flail_around |-> <<Strike>>]

(* effects/attacks.py:6266-6326 *)
Attacks6266 == [
  _jumping_shot |-> <<Blow, StopIf(Ended), When({Is("own")}, <<Bind("t", "own"), Strip("t"),
        Lift("own"), Away("t"), Piles>>)>>,
  _sweet_circle |-> <<Strike>>,
  _electric_run |-> <<Strike>>,
  _sneaky_placement_bramblin |-> <<StopIf(No("foe play")), Choose("t", "foe play"), IfSame("t",
        "foe", <<Strike>>, <<Splash("t")>>)>>,
  _infernal_slash |-> <<StopIf(Some), Perhaps(<<Piles>>), Blow>>]

(* effects/attacks.py:6350-6495 *)
Attacks6350 == [
  _swelling_light |-> <<OnlyIf({Is("own"), Some}), Repeat(<<When({Is("own"), Some}, <<Piles,
        Attach("own")>>)>>), Piles>>,
  _blaze_ball_darumaka |-> <<Strike>>,
  _blaze_ball_darmanitan |-> <<Strike>>,
  _finishing_blow_granbull |-> <<Strike>>,
  _wreck |-> <<Perhaps(<<Note, Stadium>>), Strike>>,
  _blizzard_edge |-> <<Blow, StopIf(Ended), When({Is("own")}, <<Perhaps(<<Strip("own")>>)>>)>>,
  _garland_ray |-> <<StopIf(No("own")), Perhaps(<<Strip("own")>>), Strike, Perhaps(<<Use("own")>>)>>,
  _soothing_melody |-> <<StopIf(NoneAmong("own bench")), Choose("t", "own bench"), Heal("t")>>,
  _hexa_magic |-> <<Blow, StopIf(Ended), Perhaps(<<Piles>>)>>,
  _raging_charge |-> <<Strike>>,
  _double_edge_tauros |-> <<Blow, StopIf(Ended), When({Is("own")}, <<Hurt("own"), Check("own")>>)>>,
  _growl_attack |-> <<When({Is("foe")}, <<Mark("foe")>>)>>]

(* effects/attacks.py:6498-6591 *)
Attacks6498 == [
  _voltaic_fist |-> <<Blow, StopIf(Ended), When({Is("own"), Some}, <<Hurt("own"), Check("own"),
        StopIf(Ended), When({Is("foe")}, <<Inflict("foe")>>)>>)>>,
  _rising_lunge_piloswine |-> <<Strike>>,
  _call_for_support |-> <<StopIf(Some), Piles>>,
  _targeted_dive |-> <<StopIf(No("foe bench")), Choose("t", "foe bench"), Splash("t")>>,
  _burning_flare |-> <<Blow, StopIf(Ended), When({Is("own")}, <<Hurt("own"), Check("own")>>)>>,
  _bubble_drain_seel |-> <<Blow, StopIf(Ended), When({Is("own"), Some}, <<Heal("own")>>)>>,
  _crystal_fall |-> <<Strike>>]

(* effects/attacks.py:6600-6648 *)
Attacks6600 == [
  _play_rough |-> <<Strike>>,
  _limit_break |-> <<Strike>>,
  _brave_bird |-> <<Blow, StopIf(Ended), When({Is("own")}, <<Hurt("own"), Check("own")>>)>>,
  _inferno_x_charizard |-> <<StopIf(No("own")), Perhaps(<<Strip("own")>>), StopIf(Some), Strike,
        Use("own")>>,
  _slam_dewgong |-> <<Strike>>]

(* effects/attacks.py:6660-6712 *)
Attacks6660 == [
  _guard_press_exeggutor |-> <<Blow, StopIf(Ended), When({Is("own")}, <<Mark("own")>>)>>,
  _iron_feathers |-> <<Blow, StopIf(Ended), When({Is("own")}, <<Mark("own")>>)>>,
  _frost_barrier |-> <<Blow, StopIf(Ended), When({Is("own")}, <<Mark("own")>>)>>,
  _flashing_bolt |-> <<Blow, StopIf(Ended), When({Is("own")}, <<Mark("own")>>)>>,
  _bright_horns |-> <<Blow, StopIf(Ended), When({Is("own")}, <<Mark("own")>>)>>]

(* effects/attacks.py:6726-6869 *)
Attacks6726 == [
  _flash_ray |-> <<Blow, StopIf(Ended), When({Is("own")}, <<Mark("own")>>)>>,
  _power_rush |-> <<Blow, StopIf(Ended), Perhaps(<<When({Is("own")}, <<Mark("own")>>)>>)>>,
  _shatter_stadium |-> <<Blow, StopIf(Ended), Perhaps(<<Note, Stadium>>)>>,
  _dazzle_blast |-> <<Blow, StopIf(Ended), When({Is("foe")}, <<Inflict("foe")>>)>>,
  _greedy_fang |-> <<Blow, StopIf(Ended), Piles>>,
  _hungry_jaws |-> <<Strike>>,
  _ambush_murkrow |-> <<Strike>>,
  _sniping_feathers |-> <<When({Is("own")}, <<Perhaps(<<Strip("own")>>)>>), StopIf(No("foe play")),
        When({No("foe bench")}, <<Strike, Quit>>), Clear("t"), Perhaps(<<Maybe("t", "foe play")>>),
        When({No("t")}, <<Bind("t", "foe"), When({No("t")}, <<Choose("t", "foe bench")>>)>>),
        IfSame("t", "foe", <<Strike>>, <<Splash("t")>>)>>,
  _cocky_claw |-> <<Each("t", "own bench", <<Perhaps(<<Break>>)>>), Strike>>,
  _vengeful_fang |-> <<Strike>>,
  _triple_draw |-> <<Piles>>]

(* effects/attacks.py:6872-6957 *)
Attacks6872 == [
  _tool_drop |-> <<Strike>>,
  _find_a_friend_togedemaru |-> <<OnlyIf({NoneAmong("own bench"), Some}), Perhaps(<<Piles, Quit>>),
        Repeat(<<When({Among("own bench")}, <<Break>>), Perhaps(<<Piles, Recruit("own")>>)>>),
        Piles>>,
  _hyper_beam_duraludon |-> <<Blow, StopIf(Ended), When({Is("foe"), Some}, <<Strip("foe")>>)>>,
  _ball_roll |-> <<Perhaps(<<Strike>>)>>,
  _round_wigglytuff |-> <<Strike>>]

(* effects/attacks.py:6977-7063 *)
Attacks6977 == [
  _dual_tail |-> <<When({Is("own")}, <<Perhaps(<<Strip("own")>>)>>), StopIf(No("foe play")),
        When({Among("foe play")}, <<Either(<<Strike>>, <<Choose("t", "foe play"), Splash("t")>>),
        Quit>>), Each("u", "foe play", <<IfSame("u", "foe", <<Strike>>, <<Splash("u")>>),
        StopIf(Ended)>>)>>,
  _energizing_sketch |-> <<StopIf(Some), OnlyIf({Is("own bench"), Some}),
        Repeat(<<Perhaps(<<Break>>), Perhaps(<<Break>>), Piles, Choose("t", "own bench"),
        Attach("t")>>)>>]

(* All of them.                                                             *)
AttackScripts1 == UNION {Range(Attacks937), Range(Attacks1084), Range(Attacks1196),
    Range(Attacks1347), Range(Attacks1495), Range(Attacks1613), Range(Attacks1755),
    Range(Attacks1902), Range(Attacks2046), Range(Attacks2191), Range(Attacks2344),
    Range(Attacks2493), Range(Attacks2680), Range(Attacks2832), Range(Attacks2981),
    Range(Attacks3014), Range(Attacks3160), Range(Attacks3300), Range(Attacks3427),
    Range(Attacks3572), Range(Attacks3709), Range(Attacks3826), Range(Attacks3969),
    Range(Attacks4137), Range(Attacks4280), Range(Attacks4432), Range(Attacks4509),
    Range(Attacks4534), Range(Attacks4670), Range(Attacks4719), Range(Attacks4787),
    Range(Attacks4925), Range(Attacks5051), Range(Attacks5202), Range(Attacks5344),
    Range(Attacks5452), Range(Attacks5597), Range(Attacks5739), Range(Attacks5800),
    Range(Attacks5940), Range(Attacks5973), Range(Attacks6022), Range(Attacks6130),
    Range(Attacks6266), Range(Attacks6350), Range(Attacks6498), Range(Attacks6600),
    Range(Attacks6660), Range(Attacks6726), Range(Attacks6872), Range(Attacks6977)}
=============================================================================
