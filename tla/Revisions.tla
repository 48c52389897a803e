-------------------------------- MODULE Revisions --------------------------------
(*****************************************************************************)
(* The chain of schema revisions under migrations/versions: the objects each *)
(* of them creates, in order.  A table stands for its CREATE TABLE, a        *)
(* "table.column" for its ADD COLUMN, an "idx_" name for its CREATE INDEX.   *)
(*****************************************************************************)
EXTENDS Sequences

InitialSchema ==
  <<"admins", "students", "subjects", "sessions", "attendance", "audit_log",
    "idx_audit_log_timestamp", "face_embeddings", "idx_face_embeddings_student_id">>

SessionRecurrence == <<"sessions.end_date", "sessions.end_time", "sessions.is_recurring">>

LoginLockout ==
  <<"admins.failed_attempts", "admins.locked_until",
    "students.failed_attempts", "students.locked_until">>

AttendanceLockout ==
  <<"students.attendance_security_failures", "students.attendance_locked_until">>

CorrectionRequests ==
  <<"attendance_correction_requests", "idx_correction_requests_student_id",
    "idx_correction_requests_session_id", "idx_correction_requests_status">>

\* Its UPDATE of the sessions that are active is committed with the version.
LifecycleColumns ==
  <<"sessions.status", "sessions.cancelled_at", "sessions.cancellation_reason",
    "sessions.attendance_window_minutes", "sessions.grace_period_minutes",
    "sessions.allowed_networks", "sessions.restrict_branch", "sessions.restrict_semester">>

FaceMetadata ==
  <<"face_embeddings.image_filename", "face_embeddings.quality_score",
    "face_embeddings.model_version", "attendance.confidence", "app_settings">>

SecurityMonitoring ==
  <<"students.last_login_ip", "students.last_login_at", "students.security_escalated",
    "students.security_escalated_at",
    "device_fingerprints", "idx_device_fingerprints_student_id",
    "student_login_sessions", "idx_login_sessions_student_id",
    "security_notifications", "idx_security_notifications_is_read">>

NotificationsAndSso ==
  <<"students.email", "students.phone_number", "students.notify_email",
    "students.notify_sms", "students.last_low_attendance_alert_at",
    "students.oauth_google_sub", "idx_students_email", "idx_students_oauth_google_sub",
    "password_reset_tokens", "idx_password_reset_tokens_student_id",
    "idx_password_reset_tokens_token_hash">>

AdminPasswordReset ==
  <<"admins.recovery_email", "admin_password_reset_tokens",
    "idx_admin_password_reset_tokens_admin_id",
    "idx_admin_password_reset_tokens_token_hash">>

OidcSso == <<"students.oauth_oidc_sub", "idx_students_oauth_oidc_sub">>

IrisTemplates == <<"iris_templates", "idx_iris_templates_student_id">>

MlModelState == <<"ml_model_state">>

\* down_revision of each is the one before.
Revisions ==
  <<InitialSchema, SessionRecurrence, LoginLockout, AttendanceLockout,
    CorrectionRequests, LifecycleColumns, FaceMetadata, SecurityMonitoring,
    NotificationsAndSso, AdminPasswordReset, OidcSso, IrisTemplates, MlModelState>>
=============================================================================
