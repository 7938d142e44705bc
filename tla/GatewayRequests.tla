--------------------------- MODULE GatewayRequests ---------------------------
(***************************************************************************)
(* The requests that the components of the gateway work for. A request is  *)
(* one connection accepted by the server, one call of handle_request, at   *)
(* most one call of select_backend and one RequestContext of the client    *)
(* (src/http_types.hpp, src/http_client.hpp).                              *)
(***************************************************************************)
CONSTANTS Requests,
          NoRequest

ASSUME RequestAssumption == NoRequest \notin Requests
=============================================================================
