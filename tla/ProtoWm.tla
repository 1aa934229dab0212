------------------------------ MODULE ProtoWm ------------------------------
(***************************************************************************)
(* nexo.wm, the protocol between the window manager and its clients. A     *)
(* message is its method id, the number of handles it carries and its      *)
(* fields.                                                                 *)
(***************************************************************************)
EXTENDS Proto

-----------------------------------------------------------------------------
(* nexo.wm, version 1.24.                                                  *)

\* nexo.wm.create_surface
WmCreateSurfaceRequest == Request(1, 0, <<U(4), U(4), U(4), U(4), U(4), U(1)>>)
WmCreateSurfaceResponse == Response(1, 1, <<U(4)>>)
WmCreateSurface == Method(1, WmCreateSurfaceRequest, WmCreateSurfaceResponse)

\* nexo.wm.commit
WmCommitRequest == Request(2, 0, <<U(4)>>)
WmCommitResponse == Response(2, 0, <<>>)
WmCommit == Method(2, WmCommitRequest, WmCommitResponse)

\* nexo.wm.move
WmMoveRequest == Request(3, 0, <<U(4), U(4), U(4)>>)
WmMoveResponse == Response(3, 0, <<>>)
WmMove == Method(3, WmMoveRequest, WmMoveResponse)

\* nexo.wm.destroy
WmDestroyRequest == Request(4, 0, <<U(4)>>)
WmDestroyResponse == Response(4, 0, <<>>)
WmDestroy == Method(4, WmDestroyRequest, WmDestroyResponse)

\* nexo.wm.output
WmOutputRequest == Request(5, 0, <<U(1)>>)
WmOutputResponse == Response(5, 1, <<U(4), U(4)>>)
WmOutput == Method(5, WmOutputRequest, WmOutputResponse)

\* nexo.wm.move_to_display
WmMoveToDisplayRequest == Request(18, 0, <<U(4), U(1)>>)
WmMoveToDisplayResponse == Response(18, 0, <<>>)
WmMoveToDisplay == Method(18, WmMoveToDisplayRequest, WmMoveToDisplayResponse)

\* nexo.wm.open
WmOpenRequest == Request(6, 1, <<>>)
WmOpenResponse == Response(6, 0, <<>>)
WmOpen == Method(6, WmOpenRequest, WmOpenResponse)

\* nexo.wm.raise
WmRaiseRequest == Request(7, 0, <<U(4)>>)
WmRaiseResponse == Response(7, 0, <<>>)
WmRaise == Method(7, WmRaiseRequest, WmRaiseResponse)

\* nexo.wm.lower
WmLowerRequest == Request(8, 0, <<U(4)>>)
WmLowerResponse == Response(8, 0, <<>>)
WmLower == Method(8, WmLowerRequest, WmLowerResponse)

\* nexo.wm.resize
WmResizeRequest == Request(9, 0, <<U(4), U(4), U(4)>>)
WmResizeResponse == Response(9, 1, <<>>)
WmResize == Method(9, WmResizeRequest, WmResizeResponse)

\* nexo.wm.set_input
WmSetInputRequest == Request(10, 1, <<>>)
WmSetInputResponse == Response(10, 0, <<>>)
WmSetInput == Method(10, WmSetInputRequest, WmSetInputResponse)

\* nexo.wm.maximize
WmMaximizeRequest == Request(13, 0, <<U(4)>>)
WmMaximizeResponse == Response(13, 1, <<>>)
WmMaximize == Method(13, WmMaximizeRequest, WmMaximizeResponse)

\* nexo.wm.restore
WmRestoreRequest == Request(14, 0, <<U(4)>>)
WmRestoreResponse == Response(14, 1, <<>>)
WmRestore == Method(14, WmRestoreRequest, WmRestoreResponse)

\* nexo.wm.tile
WmTileRequest == Request(15, 0, <<>>)
WmTileResponse == Response(15, 0, <<>>)
WmTile == Method(15, WmTileRequest, WmTileResponse)

\* nexo.wm.grab
WmGrabRequest == Request(16, 0, <<U(4)>>)
WmGrabResponse == Response(16, 0, <<>>)
WmGrab == Method(16, WmGrabRequest, WmGrabResponse)

\* nexo.wm.ungrab
WmUngrabRequest == Request(17, 0, <<U(4)>>)
WmUngrabResponse == Response(17, 0, <<>>)
WmUngrab == Method(17, WmUngrabRequest, WmUngrabResponse)

\* nexo.wm.set_context
WmSetContextRequest == Request(19, 0, <<U(4), U(1)>>)
WmSetContextResponse == Response(19, 0, <<>>)
WmSetContext == Method(19, WmSetContextRequest, WmSetContextResponse)

\* nexo.wm.switch_context
WmSwitchContextRequest == Request(20, 0, <<U(1)>>)
WmSwitchContextResponse == Response(20, 0, <<>>)
WmSwitchContext == Method(20, WmSwitchContextRequest, WmSwitchContextResponse)

\* nexo.wm.clipboard_set
WmClipboardSetRequest == Request(21, 0, <<Bytes(256)>>)
WmClipboardSetResponse == Response(21, 0, <<>>)
WmClipboardSet == Method(21, WmClipboardSetRequest, WmClipboardSetResponse)

\* nexo.wm.clipboard_get
WmClipboardGetRequest == Request(22, 0, <<>>)
WmClipboardGetResponse == Response(22, 0, <<Bytes(256)>>)
WmClipboardGet == Method(22, WmClipboardGetRequest, WmClipboardGetResponse)

\* nexo.wm.clipboard_enable_history
WmClipboardEnableHistoryRequest == Request(23, 0, <<>>)
WmClipboardEnableHistoryResponse == Response(23, 0, <<>>)
WmClipboardEnableHistory == Method(23, WmClipboardEnableHistoryRequest,
        WmClipboardEnableHistoryResponse)

\* nexo.wm.clipboard_history
WmClipboardHistoryRequest == Request(24, 0, <<U(4)>>)
WmClipboardHistoryResponse == Response(24, 0, <<Bytes(256)>>)
WmClipboardHistory == Method(24, WmClipboardHistoryRequest,
        WmClipboardHistoryResponse)

\* nexo.wm.notify
WmNotifyRequest == Request(25, 0, <<Bytes(64)>>)
WmNotifyResponse == Response(25, 0, <<>>)
WmNotify == Method(25, WmNotifyRequest, WmNotifyResponse)

\* nexo.wm.dismiss_notification
WmDismissNotificationRequest == Request(26, 0, <<>>)
WmDismissNotificationResponse == Response(26, 0, <<>>)
WmDismissNotification == Method(26, WmDismissNotificationRequest,
        WmDismissNotificationResponse)

\* nexo.wm.set_dnd
WmSetDndRequest == Request(27, 0, <<U(1)>>)
WmSetDndResponse == Response(27, 0, <<>>)
WmSetDnd == Method(27, WmSetDndRequest, WmSetDndResponse)

\* nexo.wm.set_alpha
WmSetAlphaRequest == Request(12, 0, <<U(4), U(1)>>)
WmSetAlphaResponse == Response(12, 0, <<>>)
WmSetAlpha == Method(12, WmSetAlphaRequest, WmSetAlphaResponse)

\* nexo.wm.drag_start
WmDragStartRequest == Request(28, 0, <<Bytes(256)>>)
WmDragStartResponse == Response(28, 0, <<>>)
WmDragStart == Method(28, WmDragStartRequest, WmDragStartResponse)

\* nexo.wm.surface_info
WmSurfaceInfoRequest == Request(33, 0, <<U(4)>>)
WmSurfaceInfoResponse == Response(33, 0, <<U(1), U(4), U(1), U(1), Bytes(32),
        Bytes(96)>>)
WmSurfaceInfo == Method(33, WmSurfaceInfoRequest, WmSurfaceInfoResponse)

\* nexo.wm.activate
WmActivateRequest == Request(34, 0, <<U(4)>>)
WmActivateResponse == Response(34, 0, <<>>)
WmActivate == Method(34, WmActivateRequest, WmActivateResponse)

\* nexo.wm.set_scale
WmSetScaleRequest == Request(35, 0, <<U(4), U(4), U(4)>>)
WmSetScaleResponse == Response(35, 0, <<>>)
WmSetScale == Method(35, WmSetScaleRequest, WmSetScaleResponse)

\* nexo.wm.set_reduce_motion
WmSetReduceMotionRequest == Request(36, 0, <<U(1)>>)
WmSetReduceMotionResponse == Response(36, 0, <<>>)
WmSetReduceMotion == Method(36, WmSetReduceMotionRequest,
        WmSetReduceMotionResponse)

\* nexo.wm.prefs
WmPrefsRequest == Request(37, 0, <<>>)
WmPrefsResponse == Response(37, 0, <<U(1), U(4), U(4), U(1), U(1)>>)
WmPrefs == Method(37, WmPrefsRequest, WmPrefsResponse)

\* nexo.wm.set_theme
WmSetThemeRequest == Request(43, 0, <<U(1)>>)
WmSetThemeResponse == Response(43, 0, <<>>)
WmSetTheme == Method(43, WmSetThemeRequest, WmSetThemeResponse)

\* nexo.wm.set_document
WmSetDocumentRequest == Request(44, 0, <<U(4), Bytes(96)>>)
WmSetDocumentResponse == Response(44, 0, <<>>)
WmSetDocument == Method(44, WmSetDocumentRequest, WmSetDocumentResponse)

\* nexo.wm.set_auto_tile
WmSetAutoTileRequest == Request(42, 0, <<U(1)>>)
WmSetAutoTileResponse == Response(42, 0, <<>>)
WmSetAutoTile == Method(42, WmSetAutoTileRequest, WmSetAutoTileResponse)

\* nexo.wm.set_global_scale
WmSetGlobalScaleRequest == Request(41, 0, <<U(4), U(4)>>)
WmSetGlobalScaleResponse == Response(41, 0, <<>>)
WmSetGlobalScale == Method(41, WmSetGlobalScaleRequest,
        WmSetGlobalScaleResponse)

\* nexo.wm.notification_info
WmNotificationInfoRequest == Request(38, 0, <<U(4)>>)
WmNotificationInfoResponse == Response(38, 0, <<U(1), Bytes(64)>>)
WmNotificationInfo == Method(38, WmNotificationInfoRequest,
        WmNotificationInfoResponse)

\* nexo.wm.notifications_clear
WmNotificationsClearRequest == Request(39, 0, <<>>)
WmNotificationsClearResponse == Response(39, 0, <<>>)
WmNotificationsClear == Method(39, WmNotificationsClearRequest,
        WmNotificationsClearResponse)

\* nexo.wm.set_title
WmSetTitleRequest == Request(30, 0, <<U(4), Bytes(32)>>)
WmSetTitleResponse == Response(30, 0, <<>>)
WmSetTitle == Method(30, WmSetTitleRequest, WmSetTitleResponse)

\* nexo.wm.a11y_subscribe
WmA11ySubscribeRequest == Request(31, 1, <<>>)
WmA11ySubscribeResponse == Response(31, 0, <<>>)
WmA11ySubscribe == Method(31, WmA11ySubscribeRequest, WmA11ySubscribeResponse)

\* nexo.wm.set_idioma
WmSetIdiomaRequest == Request(45, 0, <<U(1)>>)
WmSetIdiomaResponse == Response(45, 0, <<>>)
WmSetIdioma == Method(45, WmSetIdiomaRequest, WmSetIdiomaResponse)

\* nexo.wm.prefs_save
WmPrefsSaveRequest == Request(46, 1, <<>>)
WmPrefsSaveResponse == Response(46, 1, <<>>)
WmPrefsSave == Method(46, WmPrefsSaveRequest, WmPrefsSaveResponse)

\* nexo.wm.prefs_load
WmPrefsLoadRequest == Request(47, 1, <<>>)
WmPrefsLoadResponse == Response(47, 1, <<>>)
WmPrefsLoad == Method(47, WmPrefsLoadRequest, WmPrefsLoadResponse)

\* nexo.wm.pointer, an event
WmPointerEvent == Event(40, 0, <<U(4), U(4), U(4)>>)

\* nexo.wm.drop, an event
WmDropEvent == Event(29, 0, <<U(4), Bytes(256)>>)

\* nexo.wm.a11y, an event
WmA11yEvent == Event(32, 0, <<U(4), U(4), Bytes(32)>>)

\* nexo.wm.key, an event
WmKeyEvent == Event(11, 0, <<U(4), U(4), U(4)>>)

\* nexo.wm.shell, an event
WmShellEvent == Event(48, 0, <<U(4)>>)

\* decode_request of nexo.wm: the methods it knows.
WmProtocol ==
    Protocol(<<6926, 56689>>, 1, 24, <<WmCreateSurface, WmCommit, WmMove, WmDestroy,
        WmOutput, WmMoveToDisplay, WmOpen, WmRaise, WmLower, WmResize,
        WmSetInput, WmMaximize, WmRestore, WmTile, WmGrab, WmUngrab,
        WmSetContext, WmSwitchContext, WmClipboardSet, WmClipboardGet,
        WmClipboardEnableHistory, WmClipboardHistory, WmNotify,
        WmDismissNotification, WmSetDnd, WmSetAlpha, WmDragStart, WmSurfaceInfo,
        WmActivate, WmSetScale, WmSetReduceMotion, WmPrefs, WmSetTheme,
        WmSetDocument, WmSetAutoTile, WmSetGlobalScale, WmNotificationInfo,
        WmNotificationsClear, WmSetTitle, WmA11ySubscribe, WmSetIdioma,
        WmPrefsSave, WmPrefsLoad>>, <<WmPointerEvent, WmDropEvent, WmA11yEvent,
        WmKeyEvent, WmShellEvent>>)

=============================================================================
