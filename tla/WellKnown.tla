----------------------------- MODULE WellKnown ------------------------------
(***************************************************************************)
(* The documents by which iOS and Android associate the domain with an app *)
(* (well_known.rs, api/well_known.rs): a status and the ids they name.     *)
(* The constant rest of them is left out.                                  *)
(***************************************************************************)
EXTENDS Config

NotConfigured == [status |-> 404, ids |-> {}]

AppleAppSiteAssociation(cfg) ==
    IF cfg.ios = None THEN NotConfigured
    ELSE [status |-> 200, ids |-> {cfg.ios.team_id, cfg.ios.bundle_id}]

AssetLinks(cfg) ==
    IF cfg.android = None THEN NotConfigured
    ELSE [status |-> 200, ids |-> {cfg.android.package_name, cfg.android.fingerprints}]

=============================================================================
